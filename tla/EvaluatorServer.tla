--------------------------- MODULE EvaluatorServer ---------------------------
(***************************************************************************)
(* The evaluator process in serve mode (main.cpp): one thread that reads   *)
(* a request frame from stdin, handles it to the end and writes one frame  *)
(* to stdout before it reads the next.  Its peer may pipeline requests.    *)
(*                                                                         *)
(* A request is [rid, type, sid, grid, cands, flaws].  An absent field is  *)
(* "" or <<>>, which is what the code's fallbacks make of it.  cands are   *)
(* the ordinals of its candidates, in the order sent (of its ranges, when  *)
(* grid # ""); flaws names what else is wrong with it, one name for each   *)
(* group of checks that have the same place in a handler and the same      *)
(* consequence.  The last of them is "reply": memory runs out while the    *)
(* reply is built, when the handler has changed all that it changes.       *)
(***************************************************************************)
EXTENDS Naturals, Sequences, SequencesExt

CONSTANTS
  Requests,            \* what the peer may send; numbered when it is sent
  MaxRequests,         \* bound: frames sent to one process
  MaxInFlight          \* bound: frames in the two pipes together

ASSUME BoundsAssumption == MaxRequests \in Nat /\ MaxInFlight \in Nat
ASSUME RequestsAssumption ==
  Requests \subseteq [rid : Nat, type : STRING, sid : STRING, grid : STRING,
                      cands : Seq(Nat), flaws : SUBSET STRING]

VARIABLES
  alive,               \* the process runs
  eof,                 \* the peer has closed stdin
  stdin, stdout,       \* frames written and not yet read
  session,             \* id of session_, "" if there is none
  everOpened,          \* session_ever_opened_
  grid,                \* id of the grid of session_, "" if there is none
  sent,                \* number of requests the peer has written
  told,                \* history: what the replies written so far tell of the session
  halfOpen             \* history: an open_session that installed its session failed

sessionVars == <<session, everOpened, grid>>
historyVars == <<told, halfOpen>>
serverVars == <<alive, stdin, stdout, sessionVars, historyVars>>
vars == <<serverVars, eof, sent>>

\* The request id of a frame that has none: hello, and errors about input that
\* is not a JSON object.
Unknown == 0

Reply(type, rid, code, sid, ordinals) ==
  [type |-> type, rid |-> rid, code |-> code, sid |-> sid, ordinals |-> ordinals]

Hello == Reply("hello", Unknown, "", "", <<>>)

NothingTold == [session |-> "", opened |-> FALSE, gridded |-> FALSE]

\* What a peer concludes from one more line.  It takes an error to mean that
\* nothing has changed.
Heard(line) ==
  CASE line.type = "session_ready" -> [session |-> line.sid, opened |-> TRUE, gridded |-> FALSE]
    [] line.type = "grid_ready"    -> [told EXCEPT !.session = line.sid, !.gridded = TRUE]
    [] line.type = "batch_result"  -> [told EXCEPT !.session = line.sid]
    [] line.type = "session_closed" -> [told EXCEPT !.session = "", !.gridded = FALSE]
    [] OTHER                       -> told

Init ==
  /\ alive = TRUE /\ eof = FALSE
  /\ stdin = <<>> /\ stdout = <<Hello>>
  /\ session = "" /\ everOpened = FALSE /\ grid = ""
  /\ sent = 0
  /\ told = NothingTold /\ halfOpen = FALSE

-----------------------------------------------------------------------------
(* The checks of run and of each handler, in the order of the code: the first *)
(* one that fails decides the reply.  "exception" is a throw nobody catches.  *)

EnvelopeChecks(r) == <<
  <<"json" \in r.flaws,      "JSON_PARSE_ERROR">>,
  <<"object" \in r.flaws,    "FRAME_NOT_OBJECT">>,
  <<"protocol" \in r.flaws,  "PROTOCOL_MISMATCH">>,
  <<r.type \notin {"open_session", "register_grid", "evaluate_batch",
                   "close_session", "shutdown"}, "UNKNOWN_MESSAGE_TYPE">>,
  <<"field" \in r.flaws,     "UNKNOWN_FIELD">> >>

\* Mutant of OpenChecks: a session may be opened once the last one is closed.
OpenChecksWhenClosed(r) == <<
  <<session # "",            "SESSION_ALREADY_INITIALIZED">>,
  <<r.sid = "",              "INVALID_ARGUMENT">>,
  <<"argument" \in r.flaws,  "INVALID_ARGUMENT">>,
  <<"load" \in r.flaws,      "SESSION_INIT_FAILED">> >>

OpenChecks(r) == <<
  <<everOpened,              "SESSION_ALREADY_INITIALIZED">>,
  <<r.sid = "",              "INVALID_ARGUMENT">>,
  <<"argument" \in r.flaws,  "INVALID_ARGUMENT">>,
  <<"load" \in r.flaws,      "SESSION_INIT_FAILED">> >>

SessionChecks(r) == <<
  <<session = "",            "NO_ACTIVE_SESSION">>,
  <<r.sid # session,         "SESSION_MISMATCH">> >>

RegisterChecks(r) == SessionChecks(r) \o <<
  <<grid # "",               "GRID_ALREADY_REGISTERED">>,
  <<r.grid = "",             "INVALID_GRID_ID">>,
  <<"argument" \in r.flaws,  "INVALID_GRID">> >>

Repeats(s) == \E i, j \in DOMAIN s : i # j /\ s[i] = s[j]

Ascending(s) == \A i, j \in DOMAIN s : i < j => s[i] < s[j]

\* Ranges must be well-formed, inside the grid, ordered and disjoint.
FormChecks(r) == <<
  <<"argument" \in r.flaws,  "INVALID_ARGUMENT">>,
  <<r.grid \notin {"", grid}, "GRID_MISMATCH">>,
  <<"ranges" \in r.flaws \/ (r.grid # "" /\ ~Ascending(r.cands)),
                             "INVALID_GRID_RANGES">>,
  <<r.cands = <<>>,          "EMPTY_BATCH">>,
  <<"observation" \in r.flaws, "INVALID_OBSERVATION">> >>

\* A policy parameter that is not finite throws where no handler catches.
CandidateChecks(r) == <<
  <<"candidate" \in r.flaws, "INVALID_CANDIDATE">>,
  <<r.grid = "" /\ Repeats(r.cands), "DUPLICATE_CANDIDATE">>,
  <<"not_finite" \in r.flaws, "exception">> >>

\* After the batch has run: the scenario id is no path component; creating the
\* artifact directory throws, and nobody catches it.
SidecarChecks(r) == <<
  <<"scenario" \in r.flaws,  "INVALID_SCENARIO_ID">>,
  <<"directory" \in r.flaws, "exception">> >>

BatchChecks(r) ==
  SessionChecks(r) \o FormChecks(r) \o CandidateChecks(r) \o SidecarChecks(r)

CloseChecks(r) == <<
  <<session # "" /\ r.sid # session, "SESSION_MISMATCH">> >>

\* Only the handler of open_session catches what is thrown while it builds its
\* reply (see OpenSession); elsewhere the process ends, with all it has changed.
ReplyChecks(r) == << <<"reply" \in r.flaws, "exception">> >>

Checks(r) == EnvelopeChecks(r) \o
  CASE r.type = "open_session"   -> OpenChecks(r)
    [] r.type = "register_grid"  -> RegisterChecks(r) \o ReplyChecks(r)
    [] r.type = "evaluate_batch" -> BatchChecks(r) \o ReplyChecks(r)
    [] r.type = "close_session"  -> CloseChecks(r) \o ReplyChecks(r)
    [] OTHER                     -> <<>>

Verdict(r) ==
  LET failed == {i \in DOMAIN Checks(r) : Checks(r)[i][1]} IN
  IF failed = {} THEN "ok" ELSE Checks(r)[Min(failed)][2]

-----------------------------------------------------------------------------
(* One round of the loop in run. *)

\* The frame that is read, when it is of this type and passes every check.
Accepts(type) ==
  /\ alive /\ stdin # <<>>
  /\ Head(stdin).type = type
  /\ Verdict(Head(stdin)) = "ok"

\* The frame is read, and this line is written.
Write(line) ==
  /\ stdin' = Tail(stdin)
  /\ stdout' = Append(stdout, line)
  /\ told' = Heard(line)
  /\ UNCHANGED alive

Answer(type, sid, ordinals) == Write(Reply(type, Head(stdin).rid, "", sid, ordinals))

\* The id an error frame carries.
ErrorId(r) == IF r.flaws \cap {"json", "object"} # {} THEN Unknown ELSE r.rid

Refusal(r, code) == Reply("error", ErrorId(r), code, "", <<>>)

Refused(r) == Verdict(r) \notin {"ok", "exception"}

\* Mutant of Reject: the one-shot admission is spent before the scenario loads.
RejectSpendsAdmission ==
  /\ alive /\ stdin # <<>>
  /\ LET r == Head(stdin) IN
       /\ Refused(r)
       /\ Write(Refusal(r, Verdict(r)))
       /\ everOpened' = (everOpened \/ Verdict(r) = "SESSION_INIT_FAILED")
  /\ UNCHANGED <<session, grid, halfOpen>>

\* Mutant of Reject: bad JSON is skipped like a blank line.
RejectSkipsBadJson ==
  /\ alive /\ stdin # <<>>
  /\ LET r == Head(stdin) IN
       /\ Refused(r)
       /\ IF Verdict(r) = "JSON_PARSE_ERROR"
          THEN stdin' = Tail(stdin) /\ UNCHANGED <<alive, stdout, told>>
          ELSE Write(Refusal(r, Verdict(r)))
  /\ UNCHANGED <<sessionVars, halfOpen>>

Reject ==
  /\ alive /\ stdin # <<>>
  /\ LET r == Head(stdin) IN Refused(r) /\ Write(Refusal(r, Verdict(r)))
  /\ UNCHANGED <<sessionVars, halfOpen>>

\* handle_open_session: the scenario is loaded, the session replaced and the reply
\* built.  The try block ends after the reply: what is thrown while it is built is
\* answered as if the session had not been opened.
OpenSession ==
  /\ Accepts("open_session")
  /\ session' = Head(stdin).sid
  /\ everOpened' = TRUE
  /\ grid' = ""
  /\ IF "reply" \in Head(stdin).flaws
     THEN Write(Refusal(Head(stdin), "SESSION_INIT_FAILED")) /\ halfOpen' = TRUE
     ELSE Answer("session_ready", session', <<>>) /\ UNCHANGED halfOpen

RegisterGrid ==
  /\ Accepts("register_grid")
  /\ grid' = Head(stdin).grid
  /\ Answer("grid_ready", session, <<>>)
  /\ UNCHANGED <<session, everOpened, halfOpen>>

\* Mutant of Results: in the order of the request.
ResultsAsSent(cands) == cands

\* One result for each candidate, in the order that std::sort finds: a permutation
\* of the candidates by which no ordinal comes before a smaller one.
Results(cands) ==
  LET D == DOMAIN cands
      order == CHOOSE p \in [D -> D] :
                 /\ \A i, j \in D : p[i] = p[j] => i = j
                 /\ \A i, j \in D : i < j => cands[p[i]] <= cands[p[j]]
  IN  [i \in D |-> cands[order[i]]]

EvaluateBatch ==
  /\ Accepts("evaluate_batch")
  /\ Answer("batch_result", session, Results(Head(stdin).cands))
  /\ UNCHANGED <<sessionVars, halfOpen>>

\* handle_close_session: also answered when nothing is open.
CloseSession ==
  /\ Accepts("close_session")
  /\ Answer("session_closed", IF session = "" THEN "none" ELSE session, <<>>)
  /\ session' = "" /\ grid' = ""
  /\ UNCHANGED <<everOpened, halfOpen>>

\* The loop is left without a reply; frames behind the request are lost.
Shutdown ==
  /\ Accepts("shutdown")
  /\ alive' = FALSE
  /\ stdin' = Tail(stdin)
  /\ UNCHANGED <<stdout, sessionVars, historyVars>>

\* An exception leaves the handler and main.
Escape ==
  /\ alive /\ stdin # <<>>
  /\ Verdict(Head(stdin)) = "exception"
  /\ alive' = FALSE
  /\ stdin' = Tail(stdin)
  /\ UNCHANGED <<stdout, sessionVars, historyVars>>

Handle ==
  \/ Reject \/ OpenSession \/ RegisterGrid \/ EvaluateBatch \/ CloseSession
  \/ Shutdown \/ Escape

\* std::getline fails at the end of the input.
EndOfInput ==
  /\ alive /\ eof /\ stdin = <<>>
  /\ alive' = FALSE
  /\ UNCHANGED <<stdin, stdout, sessionVars, historyVars>>

-----------------------------------------------------------------------------
(* The peer: any program that writes frames to stdin and reads stdout. *)

Submit(r) ==
  /\ alive /\ ~eof
  /\ sent < MaxRequests
  /\ Len(stdin) + Len(stdout) < MaxInFlight
  /\ stdin' = Append(stdin, [r EXCEPT !.rid = sent + 1])
  /\ sent' = sent + 1
  /\ UNCHANGED <<alive, eof, stdout, sessionVars, historyVars>>

Receive ==
  /\ stdout # <<>>
  /\ stdout' = Tail(stdout)
  /\ UNCHANGED <<alive, eof, stdin, sessionVars, sent, historyVars>>

HangUp ==
  /\ ~eof
  /\ eof' = TRUE
  /\ UNCHANGED <<serverVars, sent>>

Next ==
  \/ (Handle \/ EndOfInput) /\ UNCHANGED <<eof, sent>>
  \/ \E r \in Requests : Submit(r)
  \/ Receive
  \/ HangUp

Spec == Init /\ [][Next]_vars

-----------------------------------------------------------------------------
\* "Session admission is one-shot per process lifetime" and "one grid may be
\* registered per evaluator session": a session opens only if none ever did, gives
\* way to none and never to another, and its grid, once registered, stays, so that
\* an ordinal means the same candidate for as long as the process lives.
OneSessionOneGrid ==
  [][/\ session' # session => session' = "" \/ ~everOpened
     /\ grid # "" /\ session' # "" => grid' = grid /\ session' = session]_vars

\* "... are reported as errors without changing the active session": a peer that
\* takes an error to have changed nothing, and believes the other replies, never
\* thinks a session open or a grid registered that is not, whatever it sends; and it
\* knows exactly what is open, what is registered and whether the admission is spent
\* unless an open_session ran out of memory between installing its session and
\* replying.
RepliesTellTheState ==
  /\ told.session \in {"", session}
  /\ told.opened => everOpened
  /\ told.gridded => grid # ""
  /\ ~halfOpen => told = [session |-> session, opened |-> everOpened, gridded |-> (grid # "")]

\* Replies come in the order of the requests, one for each: the frames in the
\* two pipes are the last ones sent, so a peer can pair them by counting.
RepliesInOrder ==
  LET ids == [i \in DOMAIN stdout |-> stdout[i].rid] \o [i \in DOMAIN stdin |-> stdin[i].rid]
  IN  alive => \A i \in DOMAIN ids : ids[i] \in {Unknown, sent + i - Len(ids)}

\* "Results are sorted by ordinal", one for each candidate of the request, from
\* the session the request names.
ResultsMatchRequest ==
  [][Len(stdout') > Len(stdout) /\ Last(stdout').type = "batch_result" =>
       LET ords == Last(stdout').ordinals IN
       /\ \A i, j \in DOMAIN ords : i < j => ords[i] < ords[j]
       /\ ToSet(ords) = ToSet(Head(stdin).cands)
       /\ Head(stdin).sid = session]_vars

\* The documented error behaviour, for every request that is not a shutdown: it
\* is answered and the process goes on.
InvalidInputIsSurvived ==
  [][stdin # <<>> /\ Head(stdin).type # "shutdown" => alive']_vars
=============================================================================
