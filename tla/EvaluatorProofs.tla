-------------------------- MODULE EvaluatorProofs ---------------------------
(***************************************************************************)
(* Proofs about EvaluatorServer and EvaluatorClient, for any requests and  *)
(* any number of calls.  The server: what the verdict on a frame tells of  *)
(* its checks, what handling a frame does, and that the frames in the two  *)
(* pipes are numbered without a gap.  The client, with the server and the  *)
(* pipes between them, comes after.                                        *)
(***************************************************************************)
EXTENDS EvaluatorClient, FiniteSetTheorems, WellFoundedInduction, TLAPS

\* The values that occur in frames.
Types == {"open_session", "register_grid", "evaluate_batch", "close_session", "shutdown", "none", "start"}
           \cup {r.type : r \in Requests}
Sids == {""} \cup {r.sid : r \in Requests}
Grids == {""} \cup {r.grid : r \in Requests}
Lists == {<<>>} \cup {r.cands : r \in Requests}
Flaws == {{}} \cup {r.flaws : r \in Requests}

Frame == [rid : Nat, type : Types, sid : Sids, grid : Grids, cands : Lists, flaws : Flaws]

\* The errors of the protocol, and an exception that nobody catches.
Codes ==
  {"JSON_PARSE_ERROR", "FRAME_NOT_OBJECT", "PROTOCOL_MISMATCH", "UNKNOWN_MESSAGE_TYPE", "UNKNOWN_FIELD",
   "SESSION_ALREADY_INITIALIZED", "INVALID_ARGUMENT", "SESSION_INIT_FAILED", "NO_ACTIVE_SESSION",
   "SESSION_MISMATCH", "GRID_ALREADY_REGISTERED", "INVALID_GRID_ID", "INVALID_GRID", "GRID_MISMATCH",
   "INVALID_GRID_RANGES", "EMPTY_BATCH", "INVALID_OBSERVATION", "INVALID_CANDIDATE",
   "DUPLICATE_CANDIDATE", "INVALID_SCENARIO_ID", "exception"}

Line ==
  [type : {"hello", "error", "session_ready", "grid_ready", "batch_result", "session_closed", "torn"},
   rid : Nat, code : Codes \cup {""}, sid : Sids \cup {"none"},
   ordinals : {<<>>} \cup {Results(c) : c \in Lists}]

TypeOK ==
  /\ alive \in BOOLEAN /\ eof \in BOOLEAN
  /\ stdin \in Seq(Frame) /\ stdout \in Seq(Line)
  /\ session \in Sids /\ everOpened \in BOOLEAN /\ grid \in Grids
  /\ sent \in Nat /\ halfOpen \in BOOLEAN

ToldOK == told \in [session : Sids \cup {"none"}, opened : BOOLEAN, gridded : BOOLEAN]

\* A session and a grid have been opened and registered.
SessionInv ==
  /\ session # "" => everOpened
  /\ grid # "" => session # ""

\* The frames in and the lines out are those of the last of n numbers.
Numbered(in, out, n) ==
  /\ \A i \in 1 .. Len(in) : in[i].rid = n + i - Len(in)
  /\ \A i \in 1 .. Len(out) : out[i].rid \in {Unknown, n + i - (Len(out) + Len(in))}

PipesInv == alive => Numbered(stdin, stdout, sent)

ServerInv == TypeOK /\ SessionInv /\ PipesInv /\ ToldOK /\ RepliesTellTheState

-----------------------------------------------------------------------------
(* Sequences. *)

\* t is s without its first element; s with one more.
Rest(t, s) == Len(t) = Len(s) - 1 /\ \A i \in 1 .. Len(s) - 1 : t[i] = s[i + 1]
OneMore(t, s, e) == Len(t) = Len(s) + 1 /\ t[Len(s) + 1] = e /\ \A i \in 1 .. Len(s) : t[i] = s[i]

LEMMA Popped ==
  ASSUME NEW S, NEW s \in Seq(S), s # <<>>
  PROVE  /\ Head(s) \in S /\ Head(s) = s[1] /\ Tail(s) \in Seq(S)
         /\ Len(s) \in Nat \ {0} /\ Rest(Tail(s), s)
BY DEF Rest

LEMMA Pushed ==
  ASSUME NEW S, NEW s \in Seq(S), NEW e \in S
  PROVE  /\ Append(s, e) \in Seq(S) /\ Len(s) \in Nat /\ OneMore(Append(s, e), s, e)
         /\ Last(Append(s, e)) = e
BY DEF Last, OneMore

LEMMA Concatenated ==
  ASSUME NEW S, NEW s \in Seq(S), NEW t \in Seq(S)
  PROVE  /\ s \o t \in Seq(S) /\ Len(s \o t) = Len(s) + Len(t) /\ DOMAIN (s \o t) = 1 .. Len(s \o t)
         /\ \A i \in 1 .. Len(s) + Len(t) : (s \o t)[i] = IF i <= Len(s) THEN s[i] ELSE t[i - Len(s)]
OBVIOUS

\* A set of indices has a least one.
LEMMA MinIsLeast ==
  ASSUME NEW S \in SUBSET Nat, S # {}
  PROVE  Min(S) \in S
<1> DEFINE Less == {ss \in Nat \X Nat : ss[1] < ss[2]}
<1>1. IsWellFoundedOn(Less, Nat)
  BY NatLessThanWellFounded, Zenon DEF OpToRel
<1> HIDE DEF Less
<1>2. PICK x \in S : \A y \in S : ~(<<y, x>> \in Less)
  BY <1>1, WFMin, Zenon
<1>3. ASSUME NEW y \in S PROVE x <= y
  <2>1. <<y, x>> \in Less <=> y < x
    BY DEF Less
  <2> QED
    BY <1>2, <2>1
<1> QED
  BY <1>3 DEF Min

-----------------------------------------------------------------------------
(* The verdict. *)

\* A list of checks, each with its error; one that is passed.
Sound(s) == s \in Seq(BOOLEAN \X Codes)
Passed(s) == \A i \in 1 .. Len(s) : ~s[i][1]

LEMMA Joined ==
  ASSUME NEW s, NEW t, Sound(s), Sound(t)
  PROVE  Sound(s \o t) /\ (Passed(s \o t) => Passed(s) /\ Passed(t))
<1>1. /\ s \in Seq(BOOLEAN \X Codes) /\ t \in Seq(BOOLEAN \X Codes)
      /\ s \o t \in Seq(BOOLEAN \X Codes) /\ Len(s \o t) = Len(s) + Len(t)
      /\ Len(s) \in Nat /\ Len(t) \in Nat
      /\ \A i \in 1 .. Len(s) + Len(t) : (s \o t)[i] = IF i <= Len(s) THEN s[i] ELSE t[i - Len(s)]
  BY Concatenated DEF Sound
<1>2. \A i \in 1 .. Len(s) : (s \o t)[i] = s[i] /\ i \in 1 .. Len(s) + Len(t)
  BY <1>1
<1>3. \A i \in 1 .. Len(t) : (s \o t)[Len(s) + i] = t[i] /\ Len(s) + i \in 1 .. Len(s) + Len(t)
  BY <1>1
<1>4. Sound(s \o t)
  BY <1>1 DEF Sound
<1>5. Passed(s \o t) => Passed(s) /\ Passed(t)
  BY <1>1, <1>2, <1>3 DEF Passed
<1> QED
  BY <1>4, <1>5

LEMMA OneCheck ==
  ASSUME NEW a1 \in BOOLEAN,
         NEW c1 \in Codes
  PROVE  /\ Sound(<< <<a1, c1>> >>)
         /\ Passed(<< <<a1, c1>> >>) => ~a1
<1> DEFINE s == << <<a1, c1>> >>
<1>1. Len(s) = 1 /\ s \in Seq(BOOLEAN \X Codes)
  OBVIOUS
<1>2. s[1] = <<a1, c1>>
  OBVIOUS
<1> HIDE DEF s
<1>3. s[1][1] = a1
  BY <1>2
<1>4. \A i \in 1 .. Len(s) : i = 1
  BY <1>1
<1>5. Sound(s)
  BY <1>1, <1>3, <1>4 DEF Sound
<1>6. 1 \in 1 .. Len(s)
  BY <1>1
<1>7. Passed(s) => ~a1
  BY <1>3, <1>6 DEF Passed
<1> QED
  BY <1>5, <1>7 DEF s

LEMMA TwoChecks ==
  ASSUME NEW a1 \in BOOLEAN, NEW a2 \in BOOLEAN,
         NEW c1 \in Codes, NEW c2 \in Codes
  PROVE  /\ Sound(<< <<a1, c1>>, <<a2, c2>> >>)
         /\ Passed(<< <<a1, c1>>, <<a2, c2>> >>) => ~a1 /\ ~a2
<1> DEFINE s == << <<a1, c1>>, <<a2, c2>> >>
<1>1. Len(s) = 2 /\ s \in Seq(BOOLEAN \X Codes)
  OBVIOUS
<1>2. s[1] = <<a1, c1>> /\ s[2] = <<a2, c2>>
  OBVIOUS
<1> HIDE DEF s
<1>3. s[1][1] = a1 /\ s[2][1] = a2
  BY <1>2
<1>4. \A i \in 1 .. Len(s) : i = 1 \/ i = 2
  BY <1>1
<1>5. Sound(s)
  BY <1>1, <1>3, <1>4 DEF Sound
<1>6. 1 \in 1 .. Len(s) /\ 2 \in 1 .. Len(s)
  BY <1>1
<1>7. Passed(s) => ~a1 /\ ~a2
  BY <1>3, <1>6 DEF Passed
<1> QED
  BY <1>5, <1>7 DEF s

LEMMA ThreeChecks ==
  ASSUME NEW a1 \in BOOLEAN, NEW a2 \in BOOLEAN, NEW a3 \in BOOLEAN,
         NEW c1 \in Codes, NEW c2 \in Codes, NEW c3 \in Codes
  PROVE  /\ Sound(<< <<a1, c1>>, <<a2, c2>>, <<a3, c3>> >>)
         /\ Passed(<< <<a1, c1>>, <<a2, c2>>, <<a3, c3>> >>) => ~a1 /\ ~a2 /\ ~a3
<1> DEFINE s == << <<a1, c1>>, <<a2, c2>>, <<a3, c3>> >>
<1>1. Len(s) = 3 /\ s \in Seq(BOOLEAN \X Codes)
  OBVIOUS
<1>2. s[1] = <<a1, c1>> /\ s[2] = <<a2, c2>> /\ s[3] = <<a3, c3>>
  OBVIOUS
<1> HIDE DEF s
<1>3. s[1][1] = a1 /\ s[2][1] = a2 /\ s[3][1] = a3
  BY <1>2
<1>4. \A i \in 1 .. Len(s) : i = 1 \/ i = 2 \/ i = 3
  BY <1>1
<1>5. Sound(s)
  BY <1>1, <1>3, <1>4 DEF Sound
<1>6. 1 \in 1 .. Len(s) /\ 2 \in 1 .. Len(s) /\ 3 \in 1 .. Len(s)
  BY <1>1
<1>7. Passed(s) => ~a1 /\ ~a2 /\ ~a3
  BY <1>3, <1>6 DEF Passed
<1> QED
  BY <1>5, <1>7 DEF s

LEMMA Four == ASSUME NEW a, NEW b, NEW c, NEW d PROVE << a, b, c, d >> = << a, b >> \o << c, d >>
OBVIOUS

LEMMA Five ==
  ASSUME NEW a, NEW b, NEW c, NEW d, NEW e PROVE << a, b, c, d, e >> = << a, b >> \o << c, d, e >>
OBVIOUS

\* What a request that passes the checks of its kind is known to meet.
LEMMA EnvelopeFacts ==
  ASSUME NEW r \in Frame
  PROVE  Sound(EnvelopeChecks(r))
<1> DEFINE known == {"open_session", "register_grid", "evaluate_batch", "close_session", "shutdown"}
           a == <<"json" \in r.flaws, "JSON_PARSE_ERROR">>
           b == <<"object" \in r.flaws, "FRAME_NOT_OBJECT">>
           c == <<"protocol" \in r.flaws, "PROTOCOL_MISMATCH">>
           d == <<r.type \notin known, "UNKNOWN_MESSAGE_TYPE">>
           e == <<"field" \in r.flaws, "UNKNOWN_FIELD">>
<1>1. /\ ("json" \in r.flaws) \in BOOLEAN /\ ("object" \in r.flaws) \in BOOLEAN
      /\ ("protocol" \in r.flaws) \in BOOLEAN /\ ("field" \in r.flaws) \in BOOLEAN
      /\ (r.type \notin known) \in BOOLEAN
  OBVIOUS
<1>2. {"JSON_PARSE_ERROR", "FRAME_NOT_OBJECT", "PROTOCOL_MISMATCH", "UNKNOWN_MESSAGE_TYPE", "UNKNOWN_FIELD"}
        \subseteq Codes
  BY DEF Codes
<1>3. Sound(<<a, b>>)
  BY <1>1, <1>2, TwoChecks
<1>4. Sound(<<c, d, e>>)
  BY <1>1, <1>2, ThreeChecks
<1>5. EnvelopeChecks(r) = <<a, b, c, d, e>>
  BY DEF EnvelopeChecks
<1> HIDE DEF a, b, c, d, e
<1>6. EnvelopeChecks(r) = <<a, b>> \o <<c, d, e>>
  <2>1. <<a, b, c, d, e>> = <<a, b>> \o <<c, d, e>>
    BY Five
  <2> QED
    BY <1>5, <2>1, Zenon
<1> QED
  BY <1>3, <1>4, <1>6, Joined

LEMMA OpenFacts ==
  ASSUME NEW r \in Frame, TypeOK
  PROVE  Sound(OpenChecks(r)) /\ (Passed(OpenChecks(r)) => ~everOpened /\ r.sid # "")
<1> DEFINE a == <<everOpened, "SESSION_ALREADY_INITIALIZED">>
           b == <<r.sid = "", "INVALID_ARGUMENT">>
           c == <<"argument" \in r.flaws, "INVALID_ARGUMENT">>
           d == <<"load" \in r.flaws, "SESSION_INIT_FAILED">>
<1>1. /\ everOpened \in BOOLEAN /\ (r.sid = "") \in BOOLEAN
      /\ ("argument" \in r.flaws) \in BOOLEAN /\ ("load" \in r.flaws) \in BOOLEAN
  BY DEF TypeOK
<1>2. {"SESSION_ALREADY_INITIALIZED", "INVALID_ARGUMENT", "SESSION_INIT_FAILED"} \subseteq Codes
  BY DEF Codes
<1>3. Sound(<<a, b>>) /\ (Passed(<<a, b>>) => ~everOpened /\ r.sid # "")
  BY <1>1, <1>2, TwoChecks
<1>4. Sound(<<c, d>>)
  BY <1>1, <1>2, TwoChecks
<1>5. OpenChecks(r) = <<a, b, c, d>>
  BY DEF OpenChecks
<1> HIDE DEF a, b, c, d
<1>6. OpenChecks(r) = <<a, b>> \o <<c, d>>
  <2>1. <<a, b, c, d>> = <<a, b>> \o <<c, d>>
    BY Four
  <2> QED
    BY <1>5, <2>1, Zenon
<1> QED
  BY <1>3, <1>4, <1>6, Joined

LEMMA SessionFacts ==
  ASSUME NEW r \in Frame
  PROVE  Sound(SessionChecks(r)) /\ (Passed(SessionChecks(r)) => session # "" /\ r.sid = session)
<1>1. (session = "") \in BOOLEAN /\ (r.sid # session) \in BOOLEAN
  OBVIOUS
<1>2. {"NO_ACTIVE_SESSION", "SESSION_MISMATCH"} \subseteq Codes
  BY DEF Codes
<1> QED
  BY <1>1, <1>2, TwoChecks DEF SessionChecks

LEMMA RegisterFacts ==
  ASSUME NEW r \in Frame
  PROVE  /\ Sound(RegisterChecks(r))
         /\ Passed(RegisterChecks(r)) => session # "" /\ grid = "" /\ r.grid # ""
<1> DEFINE own == << <<grid # "", "GRID_ALREADY_REGISTERED">>, <<r.grid = "", "INVALID_GRID_ID">>,
                     <<"argument" \in r.flaws, "INVALID_GRID">> >>
<1>1. (grid # "") \in BOOLEAN /\ (r.grid = "") \in BOOLEAN /\ ("argument" \in r.flaws) \in BOOLEAN
  OBVIOUS
<1>2. {"GRID_ALREADY_REGISTERED", "INVALID_GRID_ID", "INVALID_GRID"} \subseteq Codes
  BY DEF Codes
<1>3. Sound(own) /\ (Passed(own) => grid = "" /\ r.grid # "")
  BY <1>1, <1>2, ThreeChecks
<1>4. RegisterChecks(r) = SessionChecks(r) \o own
  BY DEF RegisterChecks
<1> HIDE DEF own
<1> QED
  BY <1>3, <1>4, SessionFacts, Joined

LEMMA BatchFacts ==
  ASSUME NEW r \in Frame
  PROVE  /\ Sound(BatchChecks(r))
         /\ Passed(BatchChecks(r)) =>
              /\ session # "" /\ r.sid = session
              /\ r.grid = "" => ~Repeats(r.cands)
              /\ r.grid # "" => Ascending(r.cands)
<1>1. /\ ("argument" \in r.flaws) \in BOOLEAN /\ (r.grid \notin {"", grid}) \in BOOLEAN
      /\ ("ranges" \in r.flaws \/ (r.grid # "" /\ ~Ascending(r.cands))) \in BOOLEAN
      /\ (r.cands = <<>>) \in BOOLEAN
      /\ ("observation" \in r.flaws) \in BOOLEAN /\ ("candidate" \in r.flaws) \in BOOLEAN
      /\ (r.grid = "" /\ Repeats(r.cands)) \in BOOLEAN /\ ("not_finite" \in r.flaws) \in BOOLEAN
      /\ ("scenario" \in r.flaws) \in BOOLEAN /\ ("directory" \in r.flaws) \in BOOLEAN
  OBVIOUS
<1>2. {"INVALID_ARGUMENT", "GRID_MISMATCH", "INVALID_GRID_RANGES", "EMPTY_BATCH", "INVALID_OBSERVATION",
       "INVALID_CANDIDATE", "DUPLICATE_CANDIDATE", "exception", "INVALID_SCENARIO_ID"} \subseteq Codes
  BY DEF Codes
<1>3. Sound(FormChecks(r)) /\ (Passed(FormChecks(r)) => (r.grid # "" => Ascending(r.cands)))
  <2> DEFINE a == <<"argument" \in r.flaws, "INVALID_ARGUMENT">>
             b == <<r.grid \notin {"", grid}, "GRID_MISMATCH">>
             c == <<"ranges" \in r.flaws \/ (r.grid # "" /\ ~Ascending(r.cands)), "INVALID_GRID_RANGES">>
             d == <<r.cands = <<>>, "EMPTY_BATCH">>
             e == <<"observation" \in r.flaws, "INVALID_OBSERVATION">>
  <2>1. Sound(<<a, b>>)
    BY <1>1, <1>2, TwoChecks
  <2>2. Sound(<<c, d, e>>) /\ (Passed(<<c, d, e>>) => (r.grid # "" => Ascending(r.cands)))
    BY <1>1, <1>2, ThreeChecks
  <2>3. FormChecks(r) = <<a, b, c, d, e>>
    BY DEF FormChecks
  <2> HIDE DEF a, b, c, d, e
  <2>4. FormChecks(r) = <<a, b>> \o <<c, d, e>>
    BY <2>3, Five
  <2> QED
    BY <2>1, <2>2, <2>4, Joined
<1>4. Sound(CandidateChecks(r)) /\ (Passed(CandidateChecks(r)) => (r.grid = "" => ~Repeats(r.cands)))
  BY <1>1, <1>2, ThreeChecks DEF CandidateChecks
<1>5. Sound(SidecarChecks(r))
  BY <1>1, <1>2, TwoChecks DEF SidecarChecks
<1>6. /\ Sound(SessionChecks(r) \o FormChecks(r))
      /\ Passed(SessionChecks(r) \o FormChecks(r)) => Passed(SessionChecks(r)) /\ Passed(FormChecks(r))
  BY <1>3, SessionFacts, Joined
<1>7. /\ Sound((SessionChecks(r) \o FormChecks(r)) \o CandidateChecks(r))
      /\ Passed((SessionChecks(r) \o FormChecks(r)) \o CandidateChecks(r))
           => Passed(SessionChecks(r) \o FormChecks(r)) /\ Passed(CandidateChecks(r))
  BY <1>4, <1>6, Joined
<1>8. BatchChecks(r) = ((SessionChecks(r) \o FormChecks(r)) \o CandidateChecks(r)) \o SidecarChecks(r)
  BY DEF BatchChecks
<1> QED
  BY <1>3, <1>4, <1>5, <1>6, <1>7, <1>8, SessionFacts, Joined

LEMMA CloseFacts ==
  ASSUME NEW r \in Frame
  PROVE  Sound(CloseChecks(r))
<1>1. (session # "" /\ r.sid # session) \in BOOLEAN
  OBVIOUS
<1>2. "SESSION_MISMATCH" \in Codes
  BY DEF Codes
<1> QED
  BY <1>1, <1>2, OneCheck DEF CloseChecks

LEMMA ReplyFacts ==
  ASSUME NEW r \in Frame
  PROVE  Sound(ReplyChecks(r))
<1>1. ("reply" \in r.flaws) \in BOOLEAN
  OBVIOUS
<1>2. "exception" \in Codes
  BY DEF Codes
<1> QED
  BY <1>1, <1>2, OneCheck DEF ReplyChecks

\* The checks of a request are the envelope's and those of its type.
LEMMA ChecksFacts ==
  ASSUME NEW r \in Frame, TypeOK
  PROVE  /\ Sound(Checks(r))
         /\ Passed(Checks(r)) =>
              /\ r.type = "open_session" => Passed(OpenChecks(r))
              /\ r.type = "register_grid" => Passed(RegisterChecks(r))
              /\ r.type = "evaluate_batch" => Passed(BatchChecks(r))
<1>1. CASE r.type = "open_session"
  <2>1. Checks(r) = EnvelopeChecks(r) \o OpenChecks(r)
    BY <1>1 DEF Checks
  <2> QED
    BY <1>1, <2>1, EnvelopeFacts, OpenFacts, Joined
<1>2. CASE r.type = "register_grid"
  <2>1. Checks(r) = EnvelopeChecks(r) \o (RegisterChecks(r) \o ReplyChecks(r))
    BY <1>2 DEF Checks
  <2>2. /\ Sound(RegisterChecks(r) \o ReplyChecks(r))
        /\ Passed(RegisterChecks(r) \o ReplyChecks(r)) => Passed(RegisterChecks(r))
    BY RegisterFacts, ReplyFacts, Joined
  <2> QED
    BY <1>2, <2>1, <2>2, EnvelopeFacts, Joined
<1>3. CASE r.type = "evaluate_batch"
  <2>1. Checks(r) = EnvelopeChecks(r) \o (BatchChecks(r) \o ReplyChecks(r))
    BY <1>3 DEF Checks
  <2>2. /\ Sound(BatchChecks(r) \o ReplyChecks(r))
        /\ Passed(BatchChecks(r) \o ReplyChecks(r)) => Passed(BatchChecks(r))
    BY BatchFacts, ReplyFacts, Joined
  <2> QED
    BY <1>3, <2>1, <2>2, EnvelopeFacts, Joined
<1>4. CASE r.type = "close_session"
  <2>1. Checks(r) = EnvelopeChecks(r) \o (CloseChecks(r) \o ReplyChecks(r))
    BY <1>4 DEF Checks
  <2>2. /\ Sound(CloseChecks(r) \o ReplyChecks(r))
        /\ Passed(CloseChecks(r) \o ReplyChecks(r)) => Passed(CloseChecks(r))
    BY CloseFacts, ReplyFacts, Joined
  <2> QED
    BY <1>4, <2>1, <2>2, EnvelopeFacts, Joined
<1>5. CASE r.type \notin {"open_session", "register_grid", "evaluate_batch", "close_session"}
  <2>1. Checks(r) = EnvelopeChecks(r) \o <<>>
    BY <1>5 DEF Checks
  <2>2. EnvelopeChecks(r) \o <<>> = EnvelopeChecks(r)
    BY EnvelopeFacts DEF Sound
  <2> QED
    BY <1>5, <2>1, <2>2, EnvelopeFacts
<1> QED
  BY <1>1, <1>2, <1>3, <1>4, <1>5

\* "ok" is the verdict on requests that pass every check, and on no other.
LEMMA VerdictFacts ==
  ASSUME NEW r \in Frame, TypeOK
  PROVE  Verdict(r) \in Codes \cup {"ok"} /\ (Verdict(r) = "ok" => Passed(Checks(r)))
<1> DEFINE failed == {i \in DOMAIN Checks(r) : Checks(r)[i][1]}
<1>1. Sound(Checks(r))
  BY ChecksFacts
<1>2. DOMAIN Checks(r) = 1 .. Len(Checks(r)) /\ failed \subseteq Nat
  BY <1>1 DEF Sound
<1>3. CASE failed = {}
  BY <1>2, <1>3 DEF Verdict, Passed
<1>4. CASE failed # {}
  <2>1. Min(failed) \in failed
    BY <1>2, <1>4, MinIsLeast
  <2>2. Checks(r)[Min(failed)] \in BOOLEAN \X Codes /\ "ok" \notin Codes
    BY <1>1, <1>2, <2>1 DEF Sound, Codes
  <2>3. Verdict(r) = Checks(r)[Min(failed)][2]
    BY <1>4 DEF Verdict
  <2> QED
    BY <2>2, <2>3
<1> QED
  BY <1>3, <1>4

-----------------------------------------------------------------------------
(* What handling a frame does. *)

\* The frame at hand is answered with this line.
Answered(line) ==
  LET r == Head(stdin) IN
  /\ alive' = alive /\ stdout' = Append(stdout, line)
  /\ line.rid = r.rid \/ (line.rid = Unknown /\ line.type = "error")
  /\ told' = Heard(line)
  /\ \/ line.type = "error" /\ UNCHANGED <<sessionVars, halfOpen>>
     \/ /\ line.type = "error" /\ r.type = "open_session"
        /\ ~everOpened /\ r.sid # ""
        /\ session' = r.sid /\ everOpened' = TRUE /\ grid' = "" /\ halfOpen' = TRUE
     \/ /\ line.type = "session_ready" /\ r.type = "open_session"
        /\ ~everOpened /\ r.sid # "" /\ line.sid = r.sid
        /\ session' = r.sid /\ everOpened' = TRUE /\ grid' = "" /\ UNCHANGED halfOpen
     \/ /\ line.type = "grid_ready" /\ r.type = "register_grid"
        /\ session # "" /\ grid = "" /\ r.grid # "" /\ line.sid = session
        /\ grid' = r.grid /\ UNCHANGED <<session, everOpened, halfOpen>>
     \/ /\ line.type = "batch_result" /\ r.type = "evaluate_batch" /\ line.sid = session
        /\ UNCHANGED <<sessionVars, halfOpen>>
     \/ /\ line.type = "session_closed" /\ r.type = "close_session"
        /\ session' = "" /\ grid' = "" /\ UNCHANGED <<everOpened, halfOpen>>

\* The frame at hand is answered with a line of this type, for this session.
Replied(t, sid) ==
  /\ stdin' = Tail(stdin) /\ alive' = alive
  /\ \E line \in Line : /\ line.type = t /\ line.rid = Head(stdin).rid /\ line.sid = sid
                        /\ stdout' = Append(stdout, line) /\ told' = Heard(line)

\* A frame at the head that is accepted passes its checks.
LEMMA AcceptedFacts ==
  ASSUME TypeOK, NEW t, Accepts(t)
  PROVE  /\ alive /\ stdin # <<>> /\ Head(stdin) \in Frame /\ Head(stdin).type = t
         /\ t = "open_session" => ~everOpened /\ Head(stdin).sid # ""
         /\ t = "register_grid" => session # "" /\ grid = "" /\ Head(stdin).grid # ""
         /\ t = "evaluate_batch" =>
              /\ Head(stdin).sid = session
              /\ Ascending(Head(stdin).cands) \/ ~Repeats(Head(stdin).cands)
<1>1. /\ alive /\ stdin # <<>> /\ Head(stdin).type = t /\ Verdict(Head(stdin)) = "ok"
      /\ stdin \in Seq(Frame)
  BY DEF Accepts, TypeOK
<1>2. Head(stdin) \in Frame
  BY <1>1, Popped
<1>3. Passed(Checks(Head(stdin)))
  BY <1>1, <1>2, VerdictFacts
<1> QED
  BY <1>1, <1>2, <1>3, ChecksFacts, OpenFacts, RegisterFacts, BatchFacts

\* An accepted frame is answered under its own id.
LEMMA AnswerFacts ==
  ASSUME TypeOK, stdin # <<>>, NEW t \in {"session_ready", "grid_ready", "batch_result", "session_closed"},
         NEW sid \in Sids \cup {"none"}, NEW ords \in {<<>>} \cup {Results(c) : c \in Lists},
         Answer(t, sid, ords)
  PROVE  Replied(t, sid)
<1> DEFINE line == Reply(t, Head(stdin).rid, "", sid, ords)
<1>1. Head(stdin) \in Frame
  BY Popped DEF TypeOK
<1>2. Head(stdin).rid \in Nat
  BY <1>1 DEF Frame
<1>3. line \in Line /\ line.type = t /\ line.rid = Head(stdin).rid /\ line.sid = sid
  BY <1>2 DEF Line, Reply
<1>4. stdout' = Append(stdout, line) /\ stdin' = Tail(stdin) /\ alive' = alive /\ told' = Heard(line)
  BY DEF Answer, Write
<1> HIDE DEF line
<1> QED
  BY <1>3, <1>4 DEF Replied

\* An error frame.
LEMMA RefusalFacts ==
  ASSUME NEW r \in Frame, NEW code \in Codes
  PROVE  /\ Refusal(r, code) \in Line /\ Refusal(r, code).type = "error"
         /\ Refusal(r, code).rid \in {r.rid, Unknown}
<1>1. ErrorId(r) \in Nat /\ ErrorId(r) \in {r.rid, Unknown}
  BY DEF ErrorId, Unknown, Frame
<1> QED
  BY <1>1 DEF Refusal, Line, Reply, Sids

LEMMA HandleFacts ==
  ASSUME TypeOK, Handle
  PROVE  /\ alive /\ stdin # <<>> /\ stdin' = Tail(stdin) /\ Head(stdin) \in Frame
         /\ \/ alive' = FALSE /\ UNCHANGED <<stdout, sessionVars, historyVars>>
            \/ \E line \in Line : Answered(line)
<1>1. CASE Reject
  <2> DEFINE r == Head(stdin)
             line == Refusal(r, Verdict(r))
  <2>1. /\ alive /\ stdin # <<>> /\ stdin' = Tail(stdin) /\ UNCHANGED <<alive, sessionVars, halfOpen>>
        /\ stdout' = Append(stdout, line) /\ told' = Heard(line) /\ Verdict(r) # "ok"
    BY <1>1 DEF Reject, Refused, Write
  <2>2. r \in Frame
    BY <2>1, Popped DEF TypeOK
  <2>3. Verdict(r) \in Codes
    BY <2>1, <2>2, VerdictFacts
  <2>4. line \in Line /\ line.type = "error" /\ line.rid \in {r.rid, Unknown}
    BY <2>2, <2>3, RefusalFacts
  <2> HIDE DEF line
  <2>5. Answered(line)
    BY <2>1, <2>4 DEF Answered
  <2> QED
    BY <2>1, <2>2, <2>4, <2>5
<1>2. CASE OpenSession
  <2>1. /\ alive /\ stdin # <<>> /\ Head(stdin) \in Frame /\ Head(stdin).type = "open_session"
        /\ ~everOpened /\ Head(stdin).sid # ""
        /\ session' = Head(stdin).sid /\ everOpened' = TRUE /\ grid' = ""
    BY <1>2, AcceptedFacts DEF OpenSession
  <2>2. session' \in Sids
    BY <2>1 DEF Frame
  <2>3. CASE "reply" \notin Head(stdin).flaws
    <3>1. Answer("session_ready", session', <<>>) /\ UNCHANGED halfOpen
      BY <1>2, <2>3 DEF OpenSession
    <3>2. Replied("session_ready", session')
      BY <2>1, <2>2, <3>1, AnswerFacts
    <3> QED
      BY <2>1, <3>1, <3>2 DEF Answered, Replied
  <2>4. CASE "reply" \in Head(stdin).flaws
    <3> DEFINE line == Refusal(Head(stdin), "SESSION_INIT_FAILED")
    <3>1. /\ stdin' = Tail(stdin) /\ alive' = alive /\ stdout' = Append(stdout, line)
          /\ told' = Heard(line) /\ halfOpen' = TRUE
      BY <1>2, <2>4 DEF OpenSession, Write
    <3>2. line \in Line /\ line.type = "error" /\ line.rid \in {Head(stdin).rid, Unknown}
      BY <2>1, RefusalFacts DEF Codes
    <3> HIDE DEF line
    <3>3. Answered(line)
      BY <2>1, <3>1, <3>2 DEF Answered
    <3> QED
      BY <2>1, <3>1, <3>2, <3>3
  <2> QED
    BY <2>3, <2>4
<1>3. CASE RegisterGrid
  <2>1. /\ alive /\ stdin # <<>> /\ Head(stdin) \in Frame /\ Head(stdin).type = "register_grid"
        /\ session # "" /\ grid = "" /\ Head(stdin).grid # "" /\ grid' = Head(stdin).grid
        /\ UNCHANGED <<session, everOpened, halfOpen>>
        /\ session \in Sids
    BY <1>3, AcceptedFacts DEF RegisterGrid, TypeOK
  <2>2. Replied("grid_ready", session)
    BY <1>3, <2>1, AnswerFacts DEF RegisterGrid
  <2> QED
    BY <2>1, <2>2 DEF Answered, Replied
<1>4. CASE EvaluateBatch
  <2>1. /\ alive /\ stdin # <<>> /\ Head(stdin) \in Frame /\ Head(stdin).type = "evaluate_batch"
        /\ UNCHANGED <<sessionVars, halfOpen>> /\ session \in Sids
    BY <1>4, AcceptedFacts DEF EvaluateBatch, TypeOK
  <2>2. Results(Head(stdin).cands) \in {Results(c) : c \in Lists}
    BY <2>1 DEF Frame
  <2>3. Replied("batch_result", session)
    BY <1>4, <2>1, <2>2, AnswerFacts DEF EvaluateBatch
  <2> QED
    BY <2>1, <2>3 DEF Answered, Replied
<1>5. CASE CloseSession
  <2>1. /\ alive /\ stdin # <<>> /\ Head(stdin) \in Frame /\ Head(stdin).type = "close_session"
        /\ session' = "" /\ grid' = "" /\ UNCHANGED <<everOpened, halfOpen>>
    BY <1>5, AcceptedFacts DEF CloseSession
  <2>2. PICK sid \in Sids \cup {"none"} : Answer("session_closed", sid, <<>>)
    BY <1>5 DEF CloseSession, TypeOK
  <2>3. Replied("session_closed", sid)
    BY <2>1, <2>2, AnswerFacts
  <2> QED
    BY <2>1, <2>3 DEF Answered, Replied
<1>6. CASE Shutdown
  BY <1>6, AcceptedFacts DEF Shutdown
<1>7. CASE Escape
  <2>1. /\ alive /\ stdin # <<>> /\ stdin' = Tail(stdin) /\ alive' = FALSE
        /\ UNCHANGED <<stdout, sessionVars, historyVars>>
    BY <1>7 DEF Escape
  <2>2. Head(stdin) \in Frame
    BY <2>1, Popped DEF TypeOK
  <2> QED
    BY <2>1, <2>2
<1> QED
  BY <1>1, <1>2, <1>3, <1>4, <1>5, <1>6, <1>7 DEF Handle

\* What a peer concludes from a reply is so, and stays so.
LEMMA ToldFacts ==
  ASSUME TypeOK, SessionInv, ToldOK, RepliesTellTheState, NEW line \in Line, Answered(line)
  PROVE  ToldOK' /\ RepliesTellTheState'
<1>1. /\ told \in [session : Sids \cup {"none"}, opened : BOOLEAN, gridded : BOOLEAN]
      /\ told' = Heard(line) /\ everOpened \in BOOLEAN /\ halfOpen \in BOOLEAN
      /\ told.session \in {"", session} /\ (told.opened => everOpened) /\ (told.gridded => grid # "")
      /\ ~halfOpen => told = [session |-> session, opened |-> everOpened, gridded |-> (grid # "")]
      /\ (session # "" => everOpened) /\ (grid # "" => session # "")
      /\ line.sid \in Sids \cup {"none"} /\ "" \in Sids
  BY DEF ToldOK, RepliesTellTheState, SessionInv, Answered, TypeOK, Line, Sids
<1>2. ToldOK'
  BY <1>1 DEF ToldOK, Heard
<1>2a. ~halfOpen => told.opened = everOpened /\ told.gridded = (grid # "")
  <2> DEFINE gridded == grid # ""
             r == [session |-> session, opened |-> everOpened, gridded |-> gridded]
  <2>1. ~halfOpen => told = r
    BY DEF RepliesTellTheState
  <2> HIDE DEF gridded
  <2>2. r.opened = everOpened /\ r.gridded = gridded
    OBVIOUS
  <2> HIDE DEF r
  <2>3. ~halfOpen => told.opened = everOpened /\ told.gridded = gridded
    BY <2>1, <2>2
  <2> QED
    BY <2>3, Zenon DEF gridded
<1>3. ASSUME line.type = "error", UNCHANGED <<sessionVars, halfOpen>>
      PROVE  RepliesTellTheState'
  BY <1>1, <1>3 DEF RepliesTellTheState, Heard, sessionVars
<1>4. ASSUME line.type = "error", ~everOpened, everOpened' = TRUE, halfOpen' = TRUE
      PROVE  RepliesTellTheState'
  <2>1. told.session = "" /\ ~told.gridded /\ told' = told
    BY <1>1, <1>4 DEF Heard
  <2> QED
    BY <1>4, <2>1 DEF RepliesTellTheState
<1>5. ASSUME line.type = "session_ready", session' = line.sid, everOpened' = TRUE, grid' = ""
      PROVE  RepliesTellTheState'
  <2>1. told' = [session |-> session', opened |-> TRUE, gridded |-> FALSE]
    BY <1>1, <1>5 DEF Heard
  <2> QED
    BY <1>5, <2>1 DEF RepliesTellTheState
<1>6. ASSUME line.type = "grid_ready", session # "", line.sid = session, grid' # "",
             UNCHANGED <<session, everOpened, halfOpen>>
      PROVE  RepliesTellTheState'
  <2>1. told' = [told EXCEPT !.session = session, !.gridded = TRUE]
    BY <1>1, <1>6 DEF Heard
  <2>2. told' = [session |-> session, opened |-> told.opened, gridded |-> TRUE]
    BY <1>1, <2>1
  <2>3. told'.session = session /\ told'.opened = told.opened /\ told'.gridded = TRUE
    BY <2>2
  <2>4. (grid' # "") = TRUE /\ session' = session /\ everOpened' = everOpened /\ halfOpen' = halfOpen
    BY <1>6
  <2>6. ~halfOpen' => told' = [session |-> session', opened |-> everOpened', gridded |-> (grid' # "")]
    BY <1>2a, <2>2, <2>4
  <2> QED
    BY <1>1, <2>3, <2>4, <2>6 DEF RepliesTellTheState
<1>7. ASSUME line.type = "batch_result", line.sid = session, UNCHANGED <<sessionVars, halfOpen>>
      PROVE  RepliesTellTheState'
  <2>1. told' = [told EXCEPT !.session = session]
    BY <1>1, <1>7 DEF Heard
  <2>2. told' = [session |-> session, opened |-> told.opened, gridded |-> told.gridded]
    BY <1>1, <2>1
  <2>3. told'.session = session /\ told'.opened = told.opened /\ told'.gridded = told.gridded
    BY <2>2
  <2>4. (grid' # "") = (grid # "") /\ session' = session /\ everOpened' = everOpened /\ halfOpen' = halfOpen
    BY <1>7 DEF sessionVars
  <2>6. ~halfOpen' => told' = [session |-> session', opened |-> everOpened', gridded |-> (grid' # "")]
    BY <1>2a, <2>2, <2>4
  <2> QED
    BY <1>1, <2>3, <2>4, <2>6 DEF RepliesTellTheState
<1>8. ASSUME line.type = "session_closed", session' = "", grid' = "",
             UNCHANGED <<everOpened, halfOpen>>
      PROVE  RepliesTellTheState'
  <2>1. told' = [told EXCEPT !.session = "", !.gridded = FALSE]
    BY <1>1, <1>8 DEF Heard
  <2>2. told' = [session |-> "", opened |-> told.opened, gridded |-> FALSE]
    BY <1>1, <2>1
  <2>3. told'.session = "" /\ told'.opened = told.opened /\ told'.gridded = FALSE
    BY <2>2
  <2>4. (grid' # "") = FALSE /\ session' = "" /\ everOpened' = everOpened /\ halfOpen' = halfOpen
    BY <1>8
  <2>6. ~halfOpen' => told' = [session |-> session', opened |-> everOpened', gridded |-> (grid' # "")]
    BY <1>2a, <2>2, <2>4
  <2> QED
    BY <1>1, <2>3, <2>4, <2>6 DEF RepliesTellTheState
<1>9. RepliesTellTheState'
  BY <1>3, <1>4, <1>5, <1>6, <1>7, <1>8 DEF Answered
<1> QED
  BY <1>2, <1>9

\* Requests, numbered or not, are frames.
LEMMA RequestFacts ==
  ASSUME NEW r \in Requests, NEW n \in Nat
  PROVE  r \in Frame /\ [r EXCEPT !.rid = n] \in Frame /\ [r EXCEPT !.rid = n].rid = n
<1>1. r \in [rid : Nat, type : STRING, sid : STRING, grid : STRING, cands : Seq(Nat), flaws : SUBSET STRING]
  BY RequestsAssumption
<1>2. r.type \in Types /\ r.sid \in Sids /\ r.grid \in Grids /\ r.cands \in Lists /\ r.flaws \in Flaws
  BY DEF Types, Sids, Grids, Lists, Flaws
<1>3. r \in Frame
  BY <1>1, <1>2 DEF Frame
<1> QED
  BY <1>3 DEF Frame

LEMMA HelloIsLine == Hello \in Line /\ Hello.rid = Unknown /\ Hello.type = "hello"
BY DEF Hello, Reply, Line, Unknown, Sids

-----------------------------------------------------------------------------
(* The invariant. *)

LEMMA InitInv ==
  ASSUME Init
  PROVE  ServerInv
<1>1. TypeOK
  <2>1. stdout = <<Hello>> /\ stdin = <<>>
    BY DEF Init
  <2>2. \A S, e : <<>> \in Seq(S) /\ (e \in S => <<e>> \in Seq(S))
    OBVIOUS
  <2>3. stdout \in Seq(Line) /\ stdin \in Seq(Frame)
    BY <2>1, <2>2, HelloIsLine
  <2> QED
    BY <2>3 DEF Init, TypeOK, Sids, Grids
<1>3. ToldOK /\ RepliesTellTheState
  BY DEF Init, ToldOK, RepliesTellTheState, NothingTold, Sids
<1>2. PipesInv
  <2>1. Len(stdin) = 0 /\ Len(stdout) = 1 /\ stdout[1] = Hello
    BY DEF Init
  <2> QED
    BY <2>1, HelloIsLine DEF PipesInv, Numbered
<1> QED
  BY <1>1, <1>2, <1>3 DEF ServerInv, SessionInv, Init

\* The numbers stay in order when a frame is taken from one end and a line put at the other, ...
LEMMA NumberedHandled ==
  ASSUME NEW in \in Seq(Frame), NEW out \in Seq(Line), NEW n \in Nat, Numbered(in, out, n), in # <<>>,
         NEW line \in Line, line.rid \in {Unknown, Head(in).rid},
         NEW more \in Seq(Line), OneMore(more, out, line)
  PROVE  Numbered(Tail(in), more, n)
<1> DEFINE left == Tail(in)
<1>1. /\ Len(in) \in Nat \ {0} /\ Len(left) = Len(in) - 1 /\ Head(in) = in[1]
      /\ \A i \in 1 .. Len(in) - 1 : left[i] = in[i + 1]
  <2>1. Head(in) = in[1] /\ Len(in) \in Nat \ {0} /\ Rest(Tail(in), in)
    BY Popped, Zenon
  <2> QED
    BY <2>1, Zenon DEF Rest
<1>2. /\ Len(out) \in Nat /\ Len(more) = Len(out) + 1 /\ more[Len(out) + 1] = line
      /\ \A i \in 1 .. Len(out) : more[i] = out[i]
  BY DEF OneMore
<1> HIDE DEF left
<1>3. ASSUME NEW i \in 1 .. Len(left) PROVE left[i].rid = n + i - Len(left)
  <2>1. i \in 1 .. Len(in) - 1 /\ i \in Nat
    BY <1>1
  <2>2. left[i] = in[i + 1]
    BY <1>1, <2>1
  <2>3. i + 1 \in 1 .. Len(in)
    BY <1>1, <2>1
  <2>4. n + (i + 1) - Len(in) = n + i - Len(left)
    BY <1>1, <2>1
  <2> QED
    BY <2>2, <2>3, <2>4 DEF Numbered
<1>4. line.rid \in {Unknown, n + 1 - Len(in)}
  <2>1. 1 \in 1 .. Len(in)
    BY <1>1
  <2>2. in[1].rid = n + 1 - Len(in)
    BY <2>1 DEF Numbered
  <2> QED
    BY <1>1, <2>2
<1>5. \A i \in 1 .. Len(out) : n + i - (Len(more) + Len(left)) = n + i - (Len(out) + Len(in))
  BY <1>1, <1>2
<1>6. \A i \in 1 .. Len(out) : more[i].rid \in {Unknown, n + i - (Len(more) + Len(left))}
  BY <1>2, <1>5 DEF Numbered
<1>7. more[Len(more)].rid \in {Unknown, n + Len(more) - (Len(more) + Len(left))}
  BY <1>1, <1>2, <1>4
<1>8. \A i \in 1 .. Len(more) : more[i].rid \in {Unknown, n + i - (Len(more) + Len(left))}
  BY <1>2, <1>6, <1>7
<1> QED
  BY <1>3, <1>8 DEF Numbered, left

\* ... when a frame with the next number is sent, ...
LEMMA NumberedSent ==
  ASSUME NEW in \in Seq(Frame), NEW out \in Seq(Line), NEW n \in Nat, Numbered(in, out, n),
         NEW f \in Frame, f.rid = n + 1
  PROVE  Numbered(Append(in, f), out, n + 1)
<1> DEFINE more == Append(in, f)
<1>1. /\ Len(in) \in Nat /\ Len(more) = Len(in) + 1 /\ more[Len(in) + 1] = f
      /\ \A i \in 1 .. Len(in) : more[i] = in[i]
  BY Pushed DEF OneMore
<1>2. Len(out) \in Nat
  OBVIOUS
<1> HIDE DEF more
<1>3. ASSUME NEW i \in 1 .. Len(more) PROVE more[i].rid = n + 1 + i - Len(more)
  <2>1. CASE i = Len(in) + 1
    BY <1>1, <2>1
  <2>2. CASE i # Len(in) + 1
    <3>1. i \in 1 .. Len(in) /\ more[i] = in[i]
      BY <1>1, <2>2
    <3>2. in[i].rid = n + i - Len(in)
      BY <3>1 DEF Numbered
    <3> QED
      BY <1>1, <3>1, <3>2
  <2> QED
    BY <2>1, <2>2
<1>4. \A i \in 1 .. Len(out) : n + 1 + i - (Len(out) + Len(more)) = n + i - (Len(out) + Len(in))
  BY <1>1, <1>2
<1> QED
  BY <1>3, <1>4 DEF Numbered, more

\* ... and when a line is read.
LEMMA NumberedRead ==
  ASSUME NEW in \in Seq(Frame), NEW out \in Seq(Line), NEW n \in Nat, Numbered(in, out, n),
         NEW left \in Seq(Line), Rest(left, out)
  PROVE  Numbered(in, left, n)
<1>1. /\ Len(out) \in Nat /\ Len(left) \in Nat /\ Len(left) = Len(out) - 1 /\ Len(in) \in Nat
      /\ \A i \in 1 .. Len(out) - 1 : left[i] = out[i + 1]
  BY DEF Rest
<1>2. ASSUME NEW i \in 1 .. Len(left)
      PROVE  left[i].rid \in {Unknown, n + i - (Len(left) + Len(in))}
  <2>1. i + 1 \in 1 .. Len(out) /\ left[i] = out[i + 1]
    BY <1>1
  <2>2. out[i + 1].rid \in {Unknown, n + (i + 1) - (Len(out) + Len(in))}
    BY <2>1 DEF Numbered
  <2>3. n + (i + 1) - (Len(out) + Len(in)) = n + i - (Len(left) + Len(in))
    BY <1>1
  <2> QED
    BY <2>1, <2>2, <2>3
<1> QED
  BY <1>2 DEF Numbered

LEMMA NextInv ==
  ASSUME ServerInv, [Next]_vars
  PROVE  ServerInv'
<1> USE DEF ServerInv
<1>1. CASE Handle /\ UNCHANGED <<eof, sent>>
  <2>1. /\ alive /\ stdin # <<>> /\ stdin' = Tail(stdin) /\ Head(stdin) \in Frame
        /\ \/ alive' = FALSE /\ UNCHANGED <<stdout, sessionVars, historyVars>>
           \/ \E line \in Line : Answered(line)
    BY <1>1, HandleFacts
  <2>2. stdin' \in Seq(Frame)
    BY <2>1, Popped DEF TypeOK
  <2>3. CASE alive' = FALSE /\ UNCHANGED <<stdout, sessionVars, historyVars>>
    BY <1>1, <2>2, <2>3
       DEF TypeOK, SessionInv, PipesInv, ToldOK, RepliesTellTheState, sessionVars, historyVars
  <2>4. CASE \E line \in Line : Answered(line)
    <3>1. PICK line \in Line : Answered(line)
      BY <2>4
    <3>2. stdout' = Append(stdout, line) /\ line.rid \in {Unknown, Head(stdin).rid} /\ alive' = alive
      BY <3>1 DEF Answered
    <3>3. stdout' \in Seq(Line) /\ OneMore(stdout', stdout, line)
      BY <3>2, Pushed DEF TypeOK
    <3>4. PipesInv'
      BY <1>1, <2>1, <3>2, <3>3, NumberedHandled DEF TypeOK, PipesInv
    <3>5. Head(stdin).sid \in Sids /\ Head(stdin).grid \in Grids /\ "" \in Sids /\ "" \in Grids
      BY <2>1 DEF Frame, Sids, Grids
    <3>6. /\ session' \in {session, Head(stdin).sid, ""} /\ grid' \in {grid, Head(stdin).grid, ""}
          /\ everOpened' \in {everOpened, TRUE} /\ halfOpen' \in {halfOpen, TRUE} /\ SessionInv'
      <4>1. CASE UNCHANGED <<sessionVars, halfOpen>>
        BY <4>1 DEF SessionInv, sessionVars
      <4>2. CASE /\ ~everOpened /\ Head(stdin).sid # ""
                 /\ session' = Head(stdin).sid /\ everOpened' = TRUE /\ grid' = ""
                 /\ halfOpen' \in {halfOpen, TRUE}
        BY <4>2 DEF SessionInv
      <4>3. CASE session # "" /\ grid' = Head(stdin).grid /\ UNCHANGED <<session, everOpened, halfOpen>>
        BY <4>3 DEF SessionInv
      <4>4. CASE session' = "" /\ grid' = "" /\ UNCHANGED <<everOpened, halfOpen>>
        BY <4>4 DEF SessionInv
      <4> QED
        BY <3>1, <4>1, <4>2, <4>3, <4>4 DEF Answered
    <3>7. ToldOK' /\ RepliesTellTheState'
      BY <3>1, ToldFacts
    <3> QED
      BY <1>1, <2>2, <3>2, <3>3, <3>4, <3>5, <3>6, <3>7 DEF TypeOK
  <2> QED
    BY <2>1, <2>3, <2>4
<1>2. CASE EndOfInput /\ UNCHANGED <<eof, sent>>
  BY <1>2 DEF EndOfInput, TypeOK, SessionInv, PipesInv, ToldOK, RepliesTellTheState, sessionVars, historyVars
<1>3. ASSUME NEW r \in Requests, Submit(r) PROVE ServerInv'
  <2> DEFINE f == [r EXCEPT !.rid = sent + 1]
  <2>1. sent + 1 \in Nat
    BY DEF TypeOK
  <2>2. f \in Frame /\ f.rid = sent + 1
    BY <2>1, RequestFacts
  <2>3. /\ alive' = alive /\ eof' = eof /\ stdin' = Append(stdin, f) /\ stdout' = stdout
        /\ UNCHANGED <<sessionVars, historyVars>> /\ sent' = sent + 1
    BY <1>3 DEF Submit
  <2> HIDE DEF f
  <2>4. stdin' \in Seq(Frame)
    BY <2>2, <2>3, Pushed DEF TypeOK
  <2>5. PipesInv'
    BY <2>2, <2>3, NumberedSent DEF TypeOK, PipesInv
  <2> QED
    BY <2>1, <2>3, <2>4, <2>5
       DEF TypeOK, SessionInv, ToldOK, RepliesTellTheState, sessionVars, historyVars
<1>4. CASE Receive
  <2>1. stdout # <<>> /\ stdout' = Tail(stdout) /\ UNCHANGED <<alive, eof, stdin, sessionVars, sent, historyVars>>
    BY <1>4 DEF Receive
  <2>2. stdout' \in Seq(Line) /\ Rest(stdout', stdout)
    BY <2>1, Popped DEF TypeOK
  <2>3. PipesInv'
    BY <2>1, <2>2, NumberedRead DEF TypeOK, PipesInv
  <2> QED
    BY <2>1, <2>2, <2>3 DEF TypeOK, SessionInv, ToldOK, RepliesTellTheState, sessionVars, historyVars
<1>5. CASE HangUp
  BY <1>5 DEF HangUp, serverVars, sessionVars, historyVars, TypeOK, SessionInv, PipesInv, ToldOK,
     RepliesTellTheState
<1>6. CASE UNCHANGED vars
  BY <1>6 DEF vars, serverVars, sessionVars, historyVars, TypeOK, SessionInv, PipesInv, ToldOK,
     RepliesTellTheState
<1> QED
  BY <1>1, <1>2, <1>3, <1>4, <1>5, <1>6 DEF Next

LEMMA Invariance == Spec => []ServerInv
<1> QED
  BY InitInv, NextInv, PTL DEF Spec

-----------------------------------------------------------------------------
\* Replies come in the order of the requests, one for each, as long as the process lives
\* (run in main.cpp handles a frame to the end before it reads the next).
THEOREM RepliesPairUp == Spec => []RepliesInOrder
<1>1. ASSUME ServerInv PROVE RepliesInOrder
  <2> DEFINE outs == [i \in DOMAIN stdout |-> stdout[i].rid]
             ins == [i \in DOMAIN stdin |-> stdin[i].rid]
             ids == outs \o ins
  <2>1. /\ Len(stdout) \in Nat /\ Len(stdin) \in Nat /\ sent \in Nat
        /\ DOMAIN stdout = 1 .. Len(stdout) /\ DOMAIN stdin = 1 .. Len(stdin)
    BY <1>1 DEF ServerInv, TypeOK
  <2>2. \A i \in 1 .. Len(stdout) : stdout[i].rid \in Nat
    <3>1. \A i \in 1 .. Len(stdout) : stdout[i] \in Line
      BY <1>1 DEF ServerInv, TypeOK
    <3> QED
      BY <3>1 DEF Line
  <2>3. \A i \in 1 .. Len(stdin) : stdin[i].rid \in Nat
    <3>1. \A i \in 1 .. Len(stdin) : stdin[i] \in Frame
      BY <1>1 DEF ServerInv, TypeOK
    <3> QED
      BY <3>1 DEF Frame
  <2>4. outs \in Seq(Nat) /\ Len(outs) = Len(stdout) /\ ins \in Seq(Nat) /\ Len(ins) = Len(stdin)
    BY <2>1, <2>2, <2>3
  <2>5. \A i \in 1 .. Len(stdout) : outs[i] = stdout[i].rid
    BY <2>1
  <2>6. \A i \in 1 .. Len(stdin) : ins[i] = stdin[i].rid
    BY <2>1
  <2> HIDE DEF outs, ins
  <2>7. /\ DOMAIN ids = 1 .. Len(stdout) + Len(stdin) /\ Len(ids) = Len(stdout) + Len(stdin)
        /\ \A i \in 1 .. Len(stdout) : ids[i] = outs[i]
        /\ \A i \in 1 .. Len(stdin) : ids[Len(stdout) + i] = ins[i]
    <3>1. /\ Len(ids) = Len(outs) + Len(ins) /\ DOMAIN ids = 1 .. Len(ids)
          /\ \A i \in 1 .. Len(outs) + Len(ins) : ids[i] = IF i <= Len(outs) THEN outs[i] ELSE ins[i - Len(outs)]
      BY <2>4, Concatenated
    <3> HIDE DEF ids
    <3>2. \A i \in 1 .. Len(stdin) :
            /\ Len(stdout) + i \in 1 .. Len(outs) + Len(ins) /\ ~(Len(stdout) + i <= Len(outs))
            /\ Len(stdout) + i - Len(outs) = i
      BY <2>1, <2>4
    <3>3. \A i \in 1 .. Len(stdout) : ids[i] = outs[i]
      <4>1. \A i \in 1 .. Len(stdout) : i \in 1 .. Len(outs) + Len(ins) /\ i <= Len(outs)
        BY <2>1, <2>4
      <4> QED
        BY <3>1, <4>1
    <3>4. \A i \in 1 .. Len(stdin) : ids[Len(stdout) + i] = ins[i]
      BY <3>1, <3>2
    <3>5. Len(ids) = Len(stdout) + Len(stdin) /\ DOMAIN ids = 1 .. Len(ids)
      BY <2>4, <3>1, Zenon
    <3> QED
      BY <3>3, <3>4, <3>5
  <2> HIDE DEF ids
  <2>8. ASSUME alive, NEW i \in DOMAIN ids PROVE ids[i] \in {Unknown, sent + i - Len(ids)}
    <3>1. CASE i <= Len(stdout)
      BY <1>1, <2>1, <2>5, <2>7, <2>8, <3>1 DEF ServerInv, PipesInv, Numbered
    <3>2. CASE i > Len(stdout)
      <4>1. i - Len(stdout) \in 1 .. Len(stdin) /\ i = Len(stdout) + (i - Len(stdout))
        BY <2>1, <2>7, <2>8, <3>2
      <4>2. ids[i] = sent + (i - Len(stdout)) - Len(stdin)
        BY <1>1, <2>6, <2>7, <2>8, <4>1 DEF ServerInv, PipesInv, Numbered
      <4> QED
        BY <2>1, <2>7, <4>1, <4>2
    <3> QED
      BY <2>1, <2>7, <2>8, <3>1, <3>2
  <2> QED
    BY <2>8 DEF RepliesInOrder, ids, outs, ins
<1> QED
  BY <1>1, Invariance, PTL

\* A process opens one session in its life, which keeps the grid it is given
\* (handle_open_session, handle_register_grid).
THEOREM OneSession == Spec => OneSessionOneGrid
<1> DEFINE Keeps ==
             /\ session' # session => session' = "" \/ ~everOpened
             /\ grid # "" /\ session' # "" => grid' = grid /\ session' = session
<1>1. ASSUME ServerInv, [Next]_vars PROVE [Keeps]_vars
  <2>1. ASSUME Handle PROVE Keeps
    BY <1>1, <2>1, HandleFacts DEF ServerInv, Answered, SessionInv, sessionVars
  <2>2. ASSUME UNCHANGED sessionVars PROVE Keeps
    BY <2>2 DEF sessionVars
  <2> QED
    BY <1>1, <2>1, <2>2 DEF Next, EndOfInput, Submit, Receive, HangUp, serverVars
<1> QED
  BY <1>1, Invariance, PTL DEF Spec, OneSessionOneGrid

\* What a peer concludes from the replies, taking errors to have changed nothing, is so,
\* and is all there is to know unless an open_session failed after it had installed its
\* session (make_error_frame and the early returns of every handler; the try block of
\* handle_open_session).
THEOREM RepliesAreTrue == Spec => []RepliesTellTheState
<1>1. ServerInv => RepliesTellTheState
  BY DEF ServerInv
<1> QED
  BY <1>1, Invariance, PTL

\* Distinct ordinals can be put in order: each has its place, the number of those
\* that are not greater.
LEMMA OrderExists ==
  ASSUME NEW n \in Nat, NEW c \in [1 .. n -> Nat], ~Repeats(c)
  PROVE  \E p \in [1 .. n -> 1 .. n] :
           /\ \A i, j \in 1 .. n : p[i] = p[j] => i = j
           /\ \A i, j \in 1 .. n : i < j => c[p[i]] <= c[p[j]]
<1> DEFINE D == 1 .. n
           UpTo(i) == {j \in D : c[j] <= c[i]}
           place == [i \in D |-> Cardinality(UpTo(i))]
<1>1. IsFiniteSet(D) /\ Cardinality(D) = n
  BY FS_Interval
<1>2. \A i, j \in D : c[i] = c[j] => i = j
  BY DEF Repeats
<1>3. ASSUME NEW i \in D
      PROVE  IsFiniteSet(UpTo(i)) /\ Cardinality(UpTo(i)) \in D
  <2>1. IsFiniteSet(UpTo(i)) /\ Cardinality(UpTo(i)) \in Nat /\ Cardinality(UpTo(i)) <= n
    BY <1>1, FS_Subset, FS_CardinalityType
  <2>2. i \in UpTo(i)
    OBVIOUS
  <2>3. UpTo(i) # {}
    BY <2>2
  <2>4. Cardinality(UpTo(i)) # 0
    BY <2>1, <2>3, FS_EmptySet
  <2> QED
    BY <2>1, <2>4
<1>4. ASSUME NEW i \in D, NEW j \in D, c[i] < c[j]
      PROVE  Cardinality(UpTo(i)) < Cardinality(UpTo(j))
  <2>1. UpTo(i) \subseteq UpTo(j) /\ j \in UpTo(j) /\ j \notin UpTo(i)
    BY <1>4
  <2>2. UpTo(i) # UpTo(j)
    BY <2>1
  <2>3. /\ Cardinality(UpTo(i)) <= Cardinality(UpTo(j))
        /\ Cardinality(UpTo(i)) = Cardinality(UpTo(j)) => UpTo(i) = UpTo(j)
    BY <1>3, <2>1, FS_Subset
  <2>4. Cardinality(UpTo(i)) \in Nat /\ Cardinality(UpTo(j)) \in Nat
    <3> HIDE DEF UpTo
    <3>1. Cardinality(UpTo(i)) \in D /\ Cardinality(UpTo(j)) \in D
      BY <1>3, Zenon
    <3> QED
      BY <3>1
  <2> QED
    BY <2>2, <2>3, <2>4
<1> HIDE DEF UpTo
<1>5. place \in [D -> D] /\ \A i \in D : place[i] = Cardinality(UpTo(i))
  <2>1. \A i \in D : Cardinality(UpTo(i)) \in D
    BY <1>3
  <2> QED
    BY <2>1
<1> HIDE DEF place
<1>6. \A i, j \in D : place[i] = place[j] => i = j
  <2> SUFFICES ASSUME NEW i \in D, NEW j \in D, i # j PROVE place[i] # place[j]
    OBVIOUS
  <2>1. c[i] < c[j] \/ c[j] < c[i]
    BY <1>2
  <2>2. /\ place[i] = Cardinality(UpTo(i)) /\ place[j] = Cardinality(UpTo(j))
        /\ place[i] \in D /\ place[j] \in D
    BY <1>5
  <2>3. place[i] < place[j] \/ place[j] < place[i]
    BY <1>4, <2>1, <2>2
  <2> QED
    BY <2>2, <2>3
<1>7. place \in Surjection(D, D)
  <2>1. place \in Injection(D, D)
    BY <1>5, <1>6 DEF Injection, IsInjective
  <2> QED
    BY <1>1, <2>1, FS_Injection
<1>8. \A k \in D : \E i \in D : place[i] = k
  BY <1>7 DEF Surjection
<1> DEFINE p == [k \in D |-> CHOOSE i \in D : place[i] = k]
<1>9. p \in [D -> D] /\ \A k \in D : place[p[k]] = k
  BY <1>8
<1> HIDE DEF p
<1>10. ASSUME NEW i \in D, NEW j \in D, i < j PROVE c[p[i]] <= c[p[j]]
  <2>1. p[i] \in D /\ p[j] \in D /\ place[p[i]] = i /\ place[p[j]] = j
    BY <1>9
  <2>2. ASSUME c[p[j]] < c[p[i]] PROVE FALSE
    <3>1. Cardinality(UpTo(p[j])) < Cardinality(UpTo(p[i]))
      BY <1>4, <2>1, <2>2
    <3>2. Cardinality(UpTo(p[j])) = j /\ Cardinality(UpTo(p[i])) = i
      BY <1>5, <2>1
    <3> QED
      BY <1>10, <3>1, <3>2
  <2> QED
    BY <2>1, <2>2
<1> QED
  BY <1>9, <1>10

\* What sorting does to distinct ordinals.
LEMMA ResultsFacts ==
  ASSUME NEW c \in Seq(Nat), ~Repeats(c)
  PROVE  Ascending(Results(c)) /\ ToSet(Results(c)) = ToSet(c)
<1> DEFINE D == DOMAIN c
           Sorting(p) == /\ \A i, j \in D : p[i] = p[j] => i = j
                         /\ \A i, j \in D : i < j => c[p[i]] <= c[p[j]]
           order == CHOOSE p \in [D -> D] : Sorting(p)
<1>1. D = 1 .. Len(c) /\ Len(c) \in Nat /\ c \in [D -> Nat]
  OBVIOUS
<1>2. \E p \in [D -> D] : Sorting(p)
  BY <1>1, OrderExists
<1>3. order \in [D -> D] /\ Sorting(order)
  BY <1>2
<1>4. Results(c) = [i \in D |-> c[order[i]]]
  BY DEF Results
<1> HIDE DEF order
<1>5. \A i \in D : order[i] \in D
  BY <1>3
<1>6. Ascending(Results(c))
  <2>1. DOMAIN Results(c) = D /\ \A i \in D : Results(c)[i] = c[order[i]]
    BY <1>4
  <2> SUFFICES ASSUME NEW i \in D, NEW j \in D, i < j PROVE c[order[i]] < c[order[j]]
    BY <2>1 DEF Ascending
  <2>2. i \in Nat /\ j \in Nat /\ c[order[i]] \in Nat /\ c[order[j]] \in Nat
    BY <1>1, <1>5
  <2>3. c[order[i]] <= c[order[j]] /\ order[i] # order[j]
    BY <1>3, <2>2
  <2>4. c[order[i]] # c[order[j]]
    BY <1>5, <2>3 DEF Repeats
  <2> QED
    BY <2>2, <2>3, <2>4
<1>7. order \in Surjection(D, D)
  <2>1. order \in Injection(D, D)
    BY <1>3 DEF Injection, IsInjective
  <2>2. IsFiniteSet(D)
    BY <1>1, FS_Interval
  <2> QED
    BY <2>1, <2>2, FS_Injection
<1>8. \A k \in D : \E i \in D : order[i] = k
  BY <1>7 DEF Surjection
<1>9. ToSet(Results(c)) = ToSet(c)
  <2>1. ToSet(c) = {c[i] : i \in D} /\ ToSet(Results(c)) = {c[order[i]] : i \in D}
    BY <1>4 DEF ToSet
  <2>2. ASSUME NEW k \in D PROVE \E i \in D : c[order[i]] = c[k]
    BY <1>8
  <2>3. \A i \in D : \E k \in D : c[order[i]] = c[k]
    BY <1>5
  <2>4. \A x : x \in ToSet(c) <=> \E i \in D : x = c[i]
    BY <2>1
  <2>5. \A x : x \in ToSet(Results(c)) <=> \E i \in D : x = c[order[i]]
    BY <2>1
  <2> HIDE DEF D
  <2>6. ASSUME NEW x PROVE x \in ToSet(Results(c)) <=> x \in ToSet(c)
    <3>1. ASSUME NEW k \in D, x = c[k] PROVE \E i \in D : x = c[order[i]]
      BY <2>2, <3>1
    <3>2. ASSUME NEW i \in D, x = c[order[i]] PROVE \E k \in D : x = c[k]
      BY <2>3, <3>2
    <3> QED
      BY <2>4, <2>5, <3>1, <3>2
  <2> QED
    BY <2>6
<1> QED
  BY <1>6, <1>9

\* A batch is answered with one result for each of its candidates, in the order of
\* their ordinals, by the session it names (handle_evaluate_batch).
THEOREM ResultsBelong == Spec => ResultsMatchRequest
<1> DEFINE Match ==
             Len(stdout') > Len(stdout) /\ Last(stdout').type = "batch_result" =>
               LET ords == Last(stdout').ordinals IN
               /\ \A i, j \in DOMAIN ords : i < j => ords[i] < ords[j]
               /\ ToSet(ords) = ToSet(Head(stdin).cands)
               /\ Head(stdin).sid = session
<1>1. ASSUME ServerInv, [Next]_vars PROVE [Match]_vars
  <2>1. ASSUME EvaluateBatch PROVE Match
    <3> DEFINE c == Head(stdin).cands
               line == Reply("batch_result", Head(stdin).rid, "", session, Results(c))
    <3>1. /\ Head(stdin) \in Frame /\ Head(stdin).sid = session
          /\ Ascending(c) \/ ~Repeats(c)
      BY <1>1, <2>1, AcceptedFacts DEF ServerInv, EvaluateBatch
    <3>2. c \in Seq(Nat)
      <4>1. c \in Lists
        BY <3>1 DEF Frame
      <4>2. \A r \in Requests : r.cands \in Seq(Nat)
        BY RequestsAssumption
      <4>3. <<>> \in Seq(Nat)
        OBVIOUS
      <4> HIDE DEF c
      <4> QED
        BY <4>1, <4>2, <4>3 DEF Lists
    <3>3. ~Repeats(c)
      BY <3>1, <3>2 DEF Ascending, Repeats
    <3>4. Ascending(Results(c)) /\ ToSet(Results(c)) = ToSet(c)
      BY <3>2, <3>3, ResultsFacts
    <3>5. stdout' = Append(stdout, line) /\ stdout \in Seq(Line)
      BY <1>1, <2>1 DEF EvaluateBatch, Answer, Write, ServerInv, TypeOK
    <3>6. line.ordinals = Results(c)
      BY DEF Reply
    <3> HIDE DEF line, c
    <3>7. Last(stdout') = line
      BY <3>5 DEF Last
    <3>8. Last(stdout').ordinals = Results(c)
      BY <3>6, <3>7
    <3> QED
      BY <3>1, <3>4, <3>8 DEF Ascending, c
  <2>2. ASSUME Handle, ~EvaluateBatch PROVE Match
    <3>1. CASE UNCHANGED stdout
      BY <3>1
    <3>2. CASE \E type \in {"error", "session_ready", "grid_ready", "session_closed"} : \E line :
                 line.type = type /\ stdout' = Append(stdout, line)
      <4>1. PICK line : line.type # "batch_result" /\ stdout' = Append(stdout, line)
        BY <3>2
      <4>2. Last(stdout') = line
        BY <1>1, <4>1 DEF Last, ServerInv, TypeOK
      <4> QED
        BY <4>1, <4>2
    <3> QED
      BY <2>2, <3>1, <3>2
         DEF Handle, Reject, OpenSession, RegisterGrid, CloseSession, Shutdown, Escape, Answer, Write,
             Refusal, Reply
  <2>3. ASSUME UNCHANGED stdout PROVE Match
    BY <2>3
  <2>4. ASSUME stdout' = Tail(stdout), stdout # <<>> PROVE Match
    BY <1>1, <2>4 DEF ServerInv, TypeOK
  <2> QED
    BY <1>1, <2>1, <2>2, <2>3, <2>4 DEF Next, EndOfInput, Submit, Receive, HangUp, serverVars, vars
<1> QED
  BY <1>1, Invariance, PTL DEF Spec, ResultsMatchRequest

-----------------------------------------------------------------------------
(***************************************************************************)
(* EvaluatorClient.  What a process has written and the client not read is *)
(* one sequence, Out, in the client's buffer and the pipe.  As long as no  *)
(* call has given up on a process the pipes are empty between calls, and   *)
(* hold one frame or one line during them.  Afterwards there is always a   *)
(* line too many: the reply a call would need is never the first.          *)
(***************************************************************************)

Out == buf \o stdout

Waits == {"no", "hello", "send", "reply", "exit"}

ClientTypeOK ==
  /\ TypeOK
  /\ proc \in BOOLEAN /\ ready \in BOOLEAN /\ writing \in BOOLEAN /\ identity \in {"expected", "other"}
  /\ buf \in Seq(Line) /\ current \in Sids
  /\ call \in [req : Frame, waits : Waits]
  /\ verified \in BOOLEAN /\ desynced \in BOOLEAN

\* A call waits for something, and has a process; a process that has not said hello
\* has said nothing; a reply is awaited to the last request.
CallInv ==
  /\ call.waits = "no" <=> call = Idle
  /\ ~proc => current = "" /\ call = Idle
  /\ ~ready => buf = <<>> /\ stdout = <<>>
  /\ writing => alive /\ ready /\ stdout # <<>>
  /\ call.waits = "reply" => call.req.rid = sent /\ sent > 0

\* The first call on a process.
HelloInv ==
  call.waits = "hello" =>
    /\ ~desynced /\ session = "" /\ current = ""
    /\ stdin = <<>> /\ buf = <<>> /\ (ready => Len(stdout) = 1)

\* The session that the client knows of, or will.
Agrees(sid) == sid = session \/ (halfOpen /\ sid = "")

\* The session the client will know of when it has read this line.
Known(line) ==
  IF line.type # "error" /\ call.req.type = "open_session" THEN call.req.sid
  ELSE IF line.type # "error" /\ call.req.type = "close_session" THEN "" ELSE current

\* Client and process in step: nothing in the pipes before a frame is sent, ...
QuietInv ==
  proc /\ alive /\ ~desynced /\ call.waits \in {"no", "send"} =>
    ready /\ stdin = <<>> /\ stdout = <<>> /\ buf = <<>> /\ Agrees(current)

\* ... and the request or its reply afterwards.
BusyInv ==
  alive /\ ~desynced /\ call.waits = "reply" =>
    /\ ready /\ buf = <<>>
    /\ \/ stdin = <<call.req>> /\ stdout = <<>> /\ Agrees(current)
       \/ /\ stdin = <<>> /\ Len(stdout) = 1
          /\ \/ stdout[1].rid = call.req.rid
             \/ stdout[1].rid = Unknown /\ stdout[1].type = "error"
          /\ Agrees(Known(stdout[1]))

\* What is in the pipes, or will be once the process has started.
Pending == Len(Out) + Len(stdin) + (IF ready THEN 0 ELSE 1)

\* Out of step: always one more than there should be.
LagInv ==
  proc /\ alive /\ desynced =>
    /\ call.waits \in {"no", "send"} => Pending >= 1
    /\ call.waits = "reply" => Pending >= 2

NumberInv == proc /\ alive => Numbered(stdin, Out, sent)

\* So the first line is not the reply.
FirstInv ==
  desynced /\ call.waits = "reply" /\ Out # <<>> => Out[1].rid # call.req.rid

ClientInv ==
  /\ ClientTypeOK /\ SessionInv
  /\ CallInv /\ HelloInv /\ QuietInv /\ BusyInv /\ LagInv /\ NumberInv /\ FirstInv

-----------------------------------------------------------------------------
(* Sequences and frames. *)

LEMMA Joins ==
  ASSUME NEW S, NEW a \in Seq(S), NEW b \in Seq(S)
  PROVE  /\ a \o b \in Seq(S) /\ Len(a \o b) = Len(a) + Len(b) /\ Len(a) \in Nat /\ Len(b) \in Nat
         /\ a \o b = <<>> <=> a = <<>> /\ b = <<>>
         /\ a # <<>> => (a \o b)[1] = a[1]
         /\ a = <<>> => a \o b = b
         /\ \A i \in 1 .. Len(a) : (a \o b)[i] = a[i]
         /\ \A i \in 1 .. Len(b) : (a \o b)[Len(a) + i] = b[i]
<1>1. /\ a \o b \in Seq(S) /\ Len(a \o b) = Len(a) + Len(b) /\ Len(a) \in Nat /\ Len(b) \in Nat
      /\ \A i \in 1 .. Len(a) + Len(b) : (a \o b)[i] = IF i <= Len(a) THEN a[i] ELSE b[i - Len(a)]
  BY Concatenated
<1>2. \A i \in 1 .. Len(a) : (a \o b)[i] = a[i]
  BY <1>1
<1>3. \A i \in 1 .. Len(b) : /\ Len(a) + i \in 1 .. Len(a) + Len(b) /\ ~(Len(a) + i <= Len(a))
                             /\ Len(a) + i - Len(a) = i
  BY <1>1
<1>4. \A i \in 1 .. Len(b) : (a \o b)[Len(a) + i] = b[i]
  BY <1>1, <1>3
<1>5. \A s \in Seq(S) : s = <<>> <=> Len(s) = 0
  OBVIOUS
<1>6. a \o b = <<>> <=> a = <<>> /\ b = <<>>
  BY <1>1, <1>5
<1>7. a # <<>> => 1 \in 1 .. Len(a)
  BY <1>1, <1>5
<1>8. a = <<>> => a \o b = b
  OBVIOUS
<1> QED
  BY <1>1, <1>2, <1>4, <1>6, <1>7, <1>8

LEMMA Pulled ==
  ASSUME NEW S, NEW s \in Seq(S), NEW k \in 1 .. Len(s)
  PROVE  /\ SubSeq(s, 2, k) \in Seq(S) /\ Len(SubSeq(s, 2, k)) = k - 1
         /\ SubSeq(s, k + 1, Len(s)) \in Seq(S) /\ Len(SubSeq(s, k + 1, Len(s))) = Len(s) - k
         /\ \A i \in 1 .. k - 1 : SubSeq(s, 2, k)[i] = s[i + 1]
         /\ \A i \in 1 .. Len(s) - k : SubSeq(s, k + 1, Len(s))[i] = s[k + i]
OBVIOUS

\* What is left when some of the lines behind the first are pulled into the buffer.
LEMMA PulledRest ==
  ASSUME NEW s \in Seq(Line), NEW k \in 1 .. Len(s)
  PROVE  Rest(SubSeq(s, 2, k) \o SubSeq(s, k + 1, Len(s)), s)
<1> DEFINE a == SubSeq(s, 2, k)
           b == SubSeq(s, k + 1, Len(s))
<1>1. /\ a \in Seq(Line) /\ Len(a) = k - 1 /\ b \in Seq(Line) /\ Len(b) = Len(s) - k
      /\ \A i \in 1 .. k - 1 : a[i] = s[i + 1]
      /\ \A i \in 1 .. Len(s) - k : b[i] = s[k + i]
      /\ Len(s) \in Nat /\ k \in Nat
  BY Pulled
<1> HIDE DEF a, b
<1>2. /\ Len(a \o b) = Len(a) + Len(b)
      /\ \A i \in 1 .. Len(a) + Len(b) : (a \o b)[i] = IF i <= Len(a) THEN a[i] ELSE b[i - Len(a)]
  BY <1>1, Concatenated
<1>3. ASSUME NEW i \in 1 .. Len(s) - 1 PROVE (a \o b)[i] = s[i + 1]
  <2>1. CASE i <= k - 1
    BY <1>1, <1>2, <2>1
  <2>2. CASE i > k - 1
    <3>1. i - (k - 1) \in 1 .. Len(s) - k /\ k + (i - (k - 1)) = i + 1 /\ ~(i <= Len(a)) /\ i - Len(a) = i - (k - 1)
      BY <1>1, <2>2
    <3>2. (a \o b)[i] = b[i - Len(a)] /\ b[i - (k - 1)] = s[k + (i - (k - 1))]
      BY <1>1, <1>2, <3>1
    <3> QED
      BY <3>1, <3>2
  <2> QED
    BY <1>1, <2>1, <2>2
<1>4. Len(a \o b) = Len(s) - 1
  BY <1>1, <1>2
<1>5. Rest(a \o b, s)
  BY <1>3, <1>4 DEF Rest
<1> QED
  BY <1>5 DEF a, b

\* A line is taken from the front of what was written and not read.
LEMMA TakeFacts ==
  ASSUME buf \in Seq(Line), stdout \in Seq(Line), NEW line, TakeLine(line)
  PROVE  /\ buf' \in Seq(Line) /\ stdout' \in Seq(Line)
         /\ Out # <<>> /\ line = Out[1] /\ line \in Line
         /\ Rest(Out', Out)
         /\ writing /\ stdout # <<>> => stdout' # <<>>
<1>1. CASE buf # <<>>
  <2>1. line = Head(buf) /\ buf' = Tail(buf) /\ stdout' = stdout
    BY <1>1 DEF TakeLine
  <2>2. /\ line \in Line /\ line = buf[1] /\ buf' \in Seq(Line) /\ Len(buf) \in Nat \ {0}
        /\ Len(buf') = Len(buf) - 1 /\ \A i \in 1 .. Len(buf) - 1 : buf'[i] = buf[i + 1]
    BY <1>1, <2>1, Popped DEF Rest
  <2>3. Out # <<>> /\ Out[1] = buf[1]
    BY <1>1, Joins DEF Out
  <2>4. /\ Len(Out) = Len(buf) + Len(stdout) /\ Len(stdout) \in Nat
        /\ \A i \in 1 .. Len(buf) + Len(stdout) : Out[i] = IF i <= Len(buf) THEN buf[i] ELSE stdout[i - Len(buf)]
    BY Concatenated DEF Out
  <2>5. /\ Len(Out') = Len(buf') + Len(stdout)
        /\ \A i \in 1 .. Len(buf') + Len(stdout) :
             Out'[i] = IF i <= Len(buf') THEN buf'[i] ELSE stdout[i - Len(buf')]
    BY <2>1, <2>2, Concatenated DEF Out
  <2>6. ASSUME NEW i \in 1 .. Len(Out) - 1 PROVE Out'[i] = Out[i + 1]
    <3>1. CASE i <= Len(buf) - 1
      <4>1. i \in 1 .. Len(buf) - 1 /\ i <= Len(buf') /\ i \in 1 .. Len(buf') + Len(stdout)
            /\ i + 1 \in 1 .. Len(buf) + Len(stdout) /\ i + 1 <= Len(buf)
        BY <2>2, <2>4, <3>1
      <4> QED
        BY <2>2, <2>4, <2>5, <4>1
    <3>2. CASE i > Len(buf) - 1
      <4>1. ~(i <= Len(buf')) /\ i \in 1 .. Len(buf') + Len(stdout) /\ i - Len(buf') = i + 1 - Len(buf)
            /\ i + 1 \in 1 .. Len(buf) + Len(stdout) /\ ~(i + 1 <= Len(buf))
        BY <2>2, <2>4, <3>2
      <4> QED
        BY <2>4, <2>5, <4>1
    <3> QED
      BY <2>2, <2>4, <3>1, <3>2
  <2>7. Len(Out') = Len(Out) - 1
    BY <2>2, <2>4, <2>5
  <2> QED
    BY <2>1, <2>2, <2>3, <2>6, <2>7 DEF Rest
<1>2. CASE buf = <<>>
  <2>9. Ended > 0 /\ line = Head(stdout)
    BY <1>2, Zenon DEF TakeLine
  <2>1. stdout # <<>> /\ line = Head(stdout)
    BY <2>9 DEF Ended
  <2>2. PICK k \in 1 .. Ended :
          buf' = SubSeq(stdout, 2, k) /\ stdout' = SubSeq(stdout, k + 1, Len(stdout))
    BY <1>2, Zenon DEF TakeLine
  <2>7. k \in 1 .. Len(stdout) /\ (writing => k < Len(stdout)) /\ Len(stdout) \in Nat
    BY DEF Ended
  <2>3. buf' \in Seq(Line) /\ stdout' \in Seq(Line) /\ Len(stdout') = Len(stdout) - k
    BY <2>2, <2>7, Pulled
  <2>8. writing => stdout' # <<>>
    BY <2>3, <2>7
  <2>4. line \in Line /\ line = stdout[1]
    BY <2>1, Popped
  <2>5. Out = stdout
    BY <1>2, Joins DEF Out
  <2>6. Rest(buf' \o stdout', stdout)
    BY <2>2, <2>7, PulledRest
  <2> QED
    BY <2>1, <2>3, <2>4, <2>5, <2>6, <2>8 DEF Out
<1> QED
  BY <1>1, <1>2

LEMMA FrameFacts ==
  /\ NoRequest \in Frame /\ StartRequest \in Frame /\ ShutdownRequest \in Frame
  /\ Idle \in [req : Frame, waits : Waits] /\ Idle.waits = "no"
<1>1. NoRequest \in Frame
  BY DEF NoRequest, Frame, Types, Sids, Grids, Lists, Flaws
<1>2. StartRequest \in Frame
  BY <1>1 DEF StartRequest, NoRequest, Frame, Types
<1>3. ShutdownRequest \in Frame
  BY <1>1 DEF ShutdownRequest, NoRequest, Frame, Types
<1>4. Idle \in [req : Frame, waits : Waits] /\ Idle.waits = "no"
  BY <1>1 DEF Idle, Waits
<1> QED
  BY <1>1, <1>2, <1>3, <1>4

\* A call in one of its waits.
LEMMA CallFacts ==
  ASSUME NEW r \in Frame, NEW w \in Waits \ {"no"}
  PROVE  /\ [req |-> r, waits |-> w] \in [req : Frame, waits : Waits] /\ [req |-> r, waits |-> w] # Idle
         /\ [req |-> r, waits |-> w].req = r /\ [req |-> r, waits |-> w].waits = w
<1>1. [req |-> r, waits |-> w].waits # Idle.waits
  BY FrameFacts
<1> QED
  BY <1>1

LEMMA TornIsLine == Torn \in Line /\ Torn.rid = Unknown /\ Torn.type = "torn"
BY DEF Torn, Reply, Line, Unknown, Sids

LEMMA RenumberedFacts ==
  ASSUME NEW r \in Frame, NEW n \in Nat, NEW s \in Sids
  PROVE  /\ [r EXCEPT !.rid = n] \in Frame /\ [r EXCEPT !.rid = n].rid = n
         /\ [r EXCEPT !.rid = n].type = r.type /\ [r EXCEPT !.rid = n].sid = r.sid
         /\ [r EXCEPT !.sid = s] \in Frame
BY DEF Frame

\* With two or more in the pipes, the first line is not the reply to the last frame.
LEMMA FirstIsOld ==
  ASSUME NEW in \in Seq(Frame), NEW out \in Seq(Line), NEW n \in Nat \ {0}, Numbered(in, out, n),
         Len(in) + Len(out) >= 2, out # <<>>
  PROVE  out[1].rid # n
<1>1. Len(in) \in Nat /\ Len(out) \in Nat \ {0} /\ 1 \in 1 .. Len(out)
  OBVIOUS
<1>2. out[1].rid \in {Unknown, n + 1 - (Len(out) + Len(in))}
  BY <1>1 DEF Numbered
<1> QED
  BY <1>1, <1>2 DEF Unknown

-----------------------------------------------------------------------------
(* The invariant, step by step. *)

\* A call that waits has a process, and one that waits for a reply has sent the last frame.
LEMMA CallHas ==
  ASSUME CallInv
  PROVE  /\ call.waits # "no" => proc /\ call # Idle
         /\ call.waits = "reply" => call.req.rid = sent /\ sent > 0
         /\ buf # <<>> \/ stdout # <<>> => ready
         /\ writing => alive /\ ready /\ stdout # <<>>
BY FrameFacts, Zenon DEF CallInv

\* What of the invariant speaks of a living process, of a first call, or of a lag
\* that does not matter any more.
LEMMA DeadInv ==
  ASSUME ClientTypeOK', SessionInv', CallInv', ~alive' \/ ~proc', call'.waits \notin {"hello", "reply"}
  PROVE  ClientInv'
BY DEF ClientInv, HelloInv, QuietInv, BusyInv, LagInv, NumberInv, FirstInv

\* A step that changes nothing the invariant speaks of.
LEMMA StutterInv ==
  ASSUME ClientInv,
         UNCHANGED <<alive, eof, stdin, stdout, session, everOpened, grid, halfOpen, sent, proc, ready,
                     writing, identity, buf, call, current, verified, desynced>>
  PROVE  ClientInv'
<1>1. ClientTypeOK' /\ SessionInv'
  BY DEF ClientInv, ClientTypeOK, TypeOK, SessionInv
<1>2. CallInv' /\ HelloInv'
  BY DEF ClientInv, CallInv, HelloInv
<1>3. QuietInv' /\ BusyInv'
  BY DEF ClientInv, QuietInv, BusyInv, Known, Agrees
<1>4. LagInv' /\ NumberInv' /\ FirstInv'
  BY DEF ClientInv, LagInv, NumberInv, FirstInv, Out, Pending
<1> QED
  BY <1>1, <1>2, <1>3, <1>4 DEF ClientInv

LEMMA ClientInitInv ==
  ASSUME ClientInit
  PROVE  ClientInv
<1>1. /\ call = Idle /\ ~proc /\ ~alive /\ ~writing /\ buf = <<>> /\ stdout = <<>> /\ stdin = <<>>
      /\ current = "" /\ session = "" /\ grid = "" /\ sent = 0 /\ ~desynced
  BY DEF ClientInit
<1>2. \A S : <<>> \in Seq(S)
  OBVIOUS
<1>3. ClientTypeOK
  <2>1. buf \in Seq(Line) /\ stdout \in Seq(Line) /\ stdin \in Seq(Frame)
    BY <1>1, <1>2
  <2>2. TypeOK
    <3>1. /\ alive = FALSE /\ eof = FALSE /\ everOpened = FALSE /\ session = "" /\ grid = "" /\ sent = 0
          /\ halfOpen = FALSE
      BY DEF ClientInit
    <3>2. session \in Sids /\ grid \in Grids
      BY <3>1 DEF Sids, Grids
    <3> QED
      BY <2>1, <3>1, <3>2 DEF TypeOK
  <2>3. call \in [req : Frame, waits : Waits]
    BY <1>1, FrameFacts
  <2>4. current \in Sids
    BY <1>1 DEF Sids
  <2> QED
    BY <2>1, <2>2, <2>3, <2>4 DEF ClientInit, ClientTypeOK
<1> QED
  BY <1>1, <1>3, FrameFacts DEF ClientInv, SessionInv, CallInv, HelloInv, QuietInv, BusyInv, LagInv, NumberInv,
     FirstInv

LEMMA SpawnInv ==
  ASSUME ClientInv, NEW r \in Frame, Spawn(r)
  PROVE  ClientInv'
<1>1. /\ ~proc /\ proc' = TRUE /\ ready' = FALSE /\ writing' = FALSE /\ identity' \in {"expected", "other"}
      /\ alive' = TRUE /\ stdin' = <<>> /\ stdout' = <<>> /\ session' = "" /\ everOpened' = FALSE
      /\ grid' = "" /\ halfOpen' = FALSE /\ buf' = <<>> /\ verified' = FALSE /\ desynced' = FALSE
      /\ call' = [req |-> r, waits |-> "hello"] /\ UNCHANGED <<eof, sent, current>>
  BY DEF Spawn
<1>2. current' = ""
  BY <1>1 DEF ClientInv, CallInv
<1>3. call' \in [req : Frame, waits : Waits] /\ call'.waits = "hello" /\ call' # Idle
  BY <1>1, CallFacts DEF Waits
<1>4. \A S : <<>> \in Seq(S)
  OBVIOUS
<1>5. ClientTypeOK'
  <2>1. eof \in BOOLEAN /\ sent \in Nat
    BY DEF ClientInv, ClientTypeOK, TypeOK
  <2> QED
    BY <1>1, <1>2, <1>3, <1>4, <2>1 DEF ClientTypeOK, TypeOK, Sids, Grids
<1>6. NumberInv'
  <2>1. Out' = <<>>
    BY <1>1, <1>4, Joins DEF Out
  <2>2. Numbered(<<>>, <<>>, sent)
    BY DEF Numbered
  <2> QED
    BY <1>1, <2>1, <2>2 DEF NumberInv
<1>7. SessionInv' /\ CallInv'
  BY <1>1, <1>3 DEF SessionInv, CallInv
<1>8. HelloInv'
  BY <1>1, <1>2 DEF HelloInv
<1> QED
  BY <1>1, <1>3, <1>5, <1>6, <1>7, <1>8 DEF ClientInv, QuietInv, BusyInv, LagInv, FirstInv

LEMMA BootInv ==
  ASSUME ClientInv, Boot
  PROVE  ClientInv'
<1>1. /\ alive /\ ~ready /\ ready' = TRUE /\ stdout' = <<Hello>> /\ writing' \in BOOLEAN
      /\ UNCHANGED <<alive, eof, stdin, session, everOpened, grid, halfOpen, sent, proc, identity, buf, call,
                     current, verified, desynced>>
  BY DEF Boot, memoryVars, sessionVars, historyVars, clientVars
<1>2. buf = <<>> /\ stdout = <<>>
  BY <1>1 DEF ClientInv, CallInv
<1>3. stdout' \in Seq(Line) /\ Len(stdout') = 1 /\ stdout'[1] = Hello /\ stdout' # <<>>
  <2>1. \A S, e : e \in S => <<e>> \in Seq(S)
    OBVIOUS
  <2> QED
    BY <1>1, <2>1, HelloIsLine
<1>4. Out' = stdout' /\ Out = <<>>
  BY <1>1, <1>2, <1>3, Joins DEF Out, ClientInv, ClientTypeOK
<1>5. ClientTypeOK' /\ SessionInv'
  BY <1>1, <1>3 DEF ClientInv, ClientTypeOK, TypeOK, SessionInv
<1>6. CallInv' /\ HelloInv'
  BY <1>1, <1>2, <1>3 DEF ClientInv, CallInv, HelloInv
<1>7. QuietInv' /\ BusyInv'
  BY <1>1 DEF ClientInv, QuietInv, BusyInv
<1>8. LagInv'
  <2>1. Len(stdin) \in Nat /\ Len(Out) = 0 /\ Len(Out') = 1
    BY <1>3, <1>4 DEF ClientInv, ClientTypeOK, TypeOK
  <2>2. Pending' = Pending
    BY <1>1, <2>1 DEF Pending
  <2> QED
    BY <1>1, <2>2 DEF ClientInv, LagInv
<1>9. NumberInv'
  BY <1>1, <1>3, <1>4, HelloIsLine DEF ClientInv, NumberInv, Numbered
<1>10. FirstInv'
  <2>1. call.waits = "reply" => call.req.rid # Unknown
    BY CallHas DEF ClientInv, Unknown
  <2> QED
    BY <1>1, <1>3, <1>4, <2>1, HelloIsLine DEF FirstInv
<1> QED
  BY <1>5, <1>6, <1>7, <1>8, <1>9, <1>10 DEF ClientInv

LEMMA FinishLineInv ==
  ASSUME ClientInv, FinishLine
  PROVE  ClientInv'
<1>1. /\ writing' = FALSE
      /\ UNCHANGED <<alive, eof, stdin, stdout, session, everOpened, grid, halfOpen, sent, proc, ready,
                     identity, buf, call, current, verified, desynced>>
  BY DEF FinishLine, pipeVars, memoryVars, sessionVars, historyVars, clientVars
<1>2. ClientTypeOK' /\ SessionInv'
  BY <1>1 DEF ClientInv, ClientTypeOK, TypeOK, SessionInv
<1>3. CallInv' /\ HelloInv'
  BY <1>1 DEF ClientInv, CallInv, HelloInv
<1>4. QuietInv' /\ BusyInv'
  BY <1>1 DEF ClientInv, QuietInv, BusyInv, Known, Agrees
<1>5. LagInv' /\ NumberInv' /\ FirstInv'
  BY <1>1 DEF ClientInv, LagInv, NumberInv, FirstInv, Out, Pending
<1> QED
  BY <1>2, <1>3, <1>4, <1>5 DEF ClientInv

LEMMA DiesInv ==
  ASSUME ClientInv, Dies
  PROVE  ClientInv'
<1>1. /\ alive' = FALSE /\ writing' = FALSE
      /\ UNCHANGED <<eof, stdin, session, everOpened, grid, halfOpen, sent, proc, ready, identity, buf, call,
                     current, verified, desynced>>
  BY DEF Dies, memoryVars, sessionVars, historyVars, clientVars
<1>2. buf \in Seq(Line) /\ stdout \in Seq(Line)
  BY DEF ClientInv, ClientTypeOK, TypeOK
<1>3. stdout' = stdout \/ (ready /\ stdout' = [stdout EXCEPT ![Len(stdout)] = Torn])
  BY DEF Dies, ClientInv, CallInv
<1>4. /\ stdout' \in Seq(Line) /\ Len(stdout') = Len(stdout)
      /\ stdout # <<>> => stdout'[1] \in {stdout[1], Torn}
  BY <1>2, <1>3, TornIsLine
<1>5. ClientTypeOK' /\ SessionInv'
  BY <1>1, <1>4 DEF ClientInv, ClientTypeOK, TypeOK, SessionInv
<1>6. CallInv' /\ HelloInv'
  BY <1>1, <1>3, <1>4 DEF ClientInv, CallInv, HelloInv
<1>7. FirstInv'
  <2> SUFFICES ASSUME desynced, call.waits = "reply", Out' # <<>> PROVE Out'[1].rid # call.req.rid
    BY <1>1 DEF FirstInv
  <2>1. call.req.rid # Unknown
    BY CallHas DEF ClientInv, Unknown
  <2>2. CASE buf # <<>>
    <3>1. Out # <<>> /\ Out[1] = buf[1] /\ Out'[1] = buf[1]
      BY <1>1, <1>2, <1>4, <2>2, Joins DEF Out
    <3> QED
      BY <3>1 DEF ClientInv, FirstInv
  <2>3. CASE buf = <<>>
    <3>1. Out = stdout /\ Out' = stdout'
      BY <1>1, <1>2, <1>4, <2>3, Joins DEF Out
    <3>2. stdout # <<>>
      BY <1>2, <1>4, <3>1
    <3>3. Out'[1] \in {Out[1], Torn} /\ Out # <<>>
      BY <1>4, <3>1, <3>2
    <3> QED
      BY <2>1, <3>3, TornIsLine DEF ClientInv, FirstInv
  <2> QED
    BY <2>2, <2>3
<1> QED
  BY <1>1, <1>5, <1>6, <1>7 DEF ClientInv, QuietInv, BusyInv, LagInv, NumberInv

LEMMA ServeInv ==
  ASSUME ClientInv, Serve
  PROVE  ClientInv'
<1>1. /\ ready /\ Handle
      /\ writing' \in BOOLEAN /\ (writing' => Len(stdout') > Len(stdout))
      /\ UNCHANGED <<eof, sent, proc, ready, identity, buf, call, current, verified, desynced>>
  BY DEF Serve, clientVars
<1>2. /\ alive /\ stdin # <<>> /\ stdin' = Tail(stdin) /\ Head(stdin) \in Frame
      /\ \/ alive' = FALSE /\ UNCHANGED <<stdout, sessionVars, halfOpen>>
         \/ \E line \in Line : Answered(line)
  BY <1>1, HandleFacts DEF ClientInv, ClientTypeOK, historyVars
<1>3. /\ Head(stdin) = stdin[1] /\ stdin' \in Seq(Frame) /\ Len(stdin) \in Nat \ {0}
      /\ Len(stdin') = Len(stdin) - 1
  BY <1>2, Popped DEF ClientInv, ClientTypeOK, TypeOK, Rest
<1>4. call.waits # "hello"
  BY <1>2 DEF ClientInv, HelloInv
<1>5. CASE alive' = FALSE /\ UNCHANGED <<stdout, sessionVars, halfOpen>>
  <2>1. ClientTypeOK' /\ SessionInv'
    BY <1>1, <1>3, <1>5 DEF ClientInv, ClientTypeOK, TypeOK, SessionInv, sessionVars
  <2>2. ~writing'
    BY <1>1, <1>5 DEF ClientInv, ClientTypeOK, TypeOK
  <2>3. CallInv' /\ HelloInv' /\ FirstInv'
    BY <1>1, <1>4, <1>5, <2>2 DEF ClientInv, CallInv, HelloInv, FirstInv, Out
  <2> QED
    BY <1>5, <2>1, <2>3 DEF ClientInv, QuietInv, BusyInv, LagInv, NumberInv
<1>6. CASE \E line \in Line : Answered(line)
  <2>1. PICK line \in Line : Answered(line)
    BY <1>6
  <2>2. /\ alive' = alive /\ stdout' = Append(stdout, line)
        /\ line.rid = Head(stdin).rid \/ (line.rid = Unknown /\ line.type = "error")
    BY <2>1 DEF Answered
  <2>3. /\ stdout' \in Seq(Line) /\ OneMore(stdout', stdout, line) /\ Len(stdout) \in Nat
    BY <2>2, Pushed DEF ClientInv, ClientTypeOK, TypeOK
  <2>4. /\ session' \in {session, Head(stdin).sid, ""} /\ grid' \in {grid, Head(stdin).grid, ""}
        /\ everOpened' \in {everOpened, TRUE} /\ halfOpen' \in {halfOpen, TRUE}
    BY <2>1 DEF Answered, sessionVars
  <2>5. ClientTypeOK'
    <3>1. Head(stdin).sid \in Sids /\ Head(stdin).grid \in Grids /\ "" \in Sids /\ "" \in Grids
      BY <1>2 DEF Frame, Sids, Grids
    <3>2. TypeOK /\ ClientTypeOK
      BY DEF ClientInv, ClientTypeOK
    <3>3. session' \in Sids /\ grid' \in Grids /\ everOpened' \in BOOLEAN /\ halfOpen' \in BOOLEAN
      BY <2>4, <3>1, <3>2, Zenon DEF TypeOK
    <3>4. alive' \in BOOLEAN /\ UNCHANGED <<eof, sent>>
      BY <1>1, <2>2, <3>2 DEF TypeOK
    <3>5. TypeOK'
      BY <1>3, <2>3, <3>2, <3>3, <3>4 DEF TypeOK
    <3> QED
      BY <1>1, <3>2, <3>5 DEF ClientTypeOK
  <2>14. SessionInv'
    <3>1. (session # "" => everOpened) /\ (grid # "" => session # "")
      BY DEF ClientInv, SessionInv
    <3>2. \/ UNCHANGED <<session, everOpened, grid>>
          \/ session' # "" /\ everOpened' /\ grid' = ""
          \/ session # "" /\ UNCHANGED <<session, everOpened>>
          \/ session' = "" /\ grid' = ""
      BY <2>1 DEF Answered, sessionVars
    <3> QED
      BY <3>1, <3>2 DEF SessionInv
  <2>15. stdout' # <<>>
    BY <2>3 DEF OneMore
  <2>6. CallInv' /\ HelloInv'
    BY <1>1, <1>2, <1>4, <2>2, <2>15 DEF ClientInv, CallInv, HelloInv
  <2>7. QuietInv'
    BY <1>1, <1>2, <2>2 DEF ClientInv, QuietInv
  <2>8. Out \in Seq(Line) /\ Out' \in Seq(Line) /\ OneMore(Out', Out, line)
    <3>1. buf \in Seq(Line) /\ stdout \in Seq(Line) /\ Len(buf) \in Nat
      BY DEF ClientInv, ClientTypeOK, TypeOK
    <3>2. /\ Out \in Seq(Line) /\ Len(Out) = Len(buf) + Len(stdout)
          /\ \A i \in 1 .. Len(buf) + Len(stdout) : Out[i] = IF i <= Len(buf) THEN buf[i] ELSE stdout[i - Len(buf)]
      BY <3>1, Concatenated DEF Out
    <3>3. /\ Out' \in Seq(Line) /\ Len(Out') = Len(buf) + Len(stdout')
          /\ \A i \in 1 .. Len(buf) + Len(stdout') :
               Out'[i] = IF i <= Len(buf) THEN buf[i] ELSE stdout'[i - Len(buf)]
      BY <1>1, <2>3, <3>1, Concatenated DEF Out
    <3>4. Len(stdout') = Len(stdout) + 1 /\ stdout'[Len(stdout) + 1] = line
          /\ \A i \in 1 .. Len(stdout) : stdout'[i] = stdout[i]
      BY <2>3 DEF OneMore
    <3>5. Out'[Len(Out) + 1] = line
      <4>1. Len(Out) + 1 \in 1 .. Len(buf) + Len(stdout') /\ ~(Len(Out) + 1 <= Len(buf))
            /\ Len(Out) + 1 - Len(buf) = Len(stdout) + 1
        BY <2>3, <3>1, <3>2, <3>4
      <4> QED
        BY <3>3, <3>4, <4>1
    <3>6. ASSUME NEW i \in 1 .. Len(Out) PROVE Out'[i] = Out[i]
      <4>1. i \in 1 .. Len(buf) + Len(stdout) /\ i \in 1 .. Len(buf) + Len(stdout')
            /\ (~(i <= Len(buf)) => i - Len(buf) \in 1 .. Len(stdout))
        BY <2>3, <3>1, <3>2, <3>4
      <4> QED
        BY <3>2, <3>3, <3>4, <4>1
    <3>7. Len(Out') = Len(Out) + 1
      BY <2>3, <3>1, <3>2, <3>3, <3>4
    <3> QED
      BY <3>2, <3>3, <3>5, <3>6, <3>7 DEF OneMore
  <2>9. NumberInv'
    <3> SUFFICES ASSUME proc PROVE Numbered(stdin', Out', sent')
      BY <1>1 DEF NumberInv
    <3>1. Numbered(stdin, Out, sent) /\ stdin \in Seq(Frame) /\ sent \in Nat
      BY <1>2 DEF ClientInv, ClientTypeOK, TypeOK, NumberInv
    <3>2. line.rid \in {Unknown, Head(stdin).rid}
      BY <2>2
    <3>3. Numbered(Tail(stdin), Out', sent)
      BY <1>2, <2>8, <3>1, <3>2, NumberedHandled
    <3> QED
      BY <1>1, <1>2, <3>3
  <2>10. Pending' = Pending /\ Len(Out') \in Nat \ {0} /\ Len(Out') + Len(stdin') = Pending'
    <3>1. Len(Out) \in Nat /\ Len(Out') = Len(Out) + 1
      BY <2>8 DEF OneMore
    <3> QED
      BY <1>1, <1>3, <3>1 DEF Pending
  <2>11. LagInv'
    BY <1>1, <1>2, <2>2, <2>10 DEF ClientInv, LagInv
  <2>12. FirstInv'
    <3> SUFFICES ASSUME desynced', call'.waits = "reply" PROVE Out'[1].rid # call'.req.rid
      BY DEF FirstInv
    <3>4. call.waits = "reply" /\ UNCHANGED <<sent, call, proc>>
      BY <1>1
    <3>5. sent > 0 /\ call.req.rid = sent /\ proc
      BY <3>4, CallHas DEF ClientInv
    <3>6. sent' \in Nat /\ stdin' \in Seq(Frame) /\ alive'
      BY <1>2, <2>2, <2>5 DEF ClientTypeOK, TypeOK
    <3>1. sent' \in Nat \ {0} /\ call'.req.rid = sent' /\ alive' /\ proc' /\ stdin' \in Seq(Frame)
      BY <3>4, <3>5, <3>6
    <3>2. Len(stdin') + Len(Out') >= 2
      BY <1>3, <2>10, <2>11, <3>1 DEF LagInv
    <3>3. Out' # <<>> /\ Numbered(stdin', Out', sent')
      BY <2>9, <2>10, <3>1 DEF NumberInv
    <3> QED
      BY <2>8, <3>1, <3>2, <3>3, FirstIsOld
  <2>13. BusyInv'
    <3> SUFFICES ASSUME ~desynced, call.waits = "reply"
                 PROVE  /\ ready' /\ buf' = <<>> /\ stdin' = <<>> /\ Len(stdout') = 1
                        /\ \/ stdout'[1].rid = call.req.rid
                           \/ stdout'[1].rid = Unknown /\ stdout'[1].type = "error"
                        /\ Known(stdout'[1]) = session' \/ (halfOpen' /\ Known(stdout'[1]) = "")
      BY <1>1 DEF BusyInv, Known, Agrees
    <3>1. /\ ready /\ buf = <<>> /\ stdin = <<call.req>> /\ stdout = <<>>
          /\ current = session \/ (halfOpen /\ current = "")
      BY <1>2 DEF ClientInv, BusyInv, Agrees
    <3>2. stdin[1] = call.req /\ Len(stdin) = 1 /\ Len(stdout) = 0
      BY <3>1
    <3>3. stdin' = <<>>
      BY <1>3, <3>2
    <3>4. Len(stdout') = 1 /\ stdout'[1] = line
      BY <2>3, <3>2 DEF OneMore
    <3>5. Known(line) = session' \/ (halfOpen' /\ Known(line) = "")
      BY <1>3, <2>1, <3>1, <3>2 DEF Answered, Known, sessionVars, ClientInv, SessionInv
    <3> QED
      BY <1>1, <1>3, <2>2, <3>1, <3>2, <3>3, <3>4, <3>5
  <2> QED
    BY <2>5, <2>14, <2>6, <2>7, <2>9, <2>11, <2>12, <2>13 DEF ClientInv
<1> QED
  BY <1>2, <1>5, <1>6

\* A call on a process that is there.
LEMMA AsksInv ==
  ASSUME ClientInv, NEW r \in Frame, Asks(r)
  PROVE  ClientInv'
<1>1. /\ call = Idle /\ proc /\ call' = [req |-> r, waits |-> "send"]
      /\ UNCHANGED <<alive, eof, stdin, stdout, session, everOpened, grid, halfOpen, sent, proc, ready,
                     writing, identity, buf, current, verified, desynced>>
  BY DEF Asks, Begins, Sends, processVars, pipeVars, memoryVars, sessionVars, historyVars
<1>2. /\ call' \in [req : Frame, waits : Waits] /\ call'.waits = "send" /\ call' # Idle
      /\ call.waits = "no"
  BY <1>1, CallFacts, FrameFacts DEF Waits
<1>3. ClientTypeOK' /\ SessionInv'
  BY <1>1, <1>2 DEF ClientInv, ClientTypeOK, TypeOK, SessionInv
<1>4. CallInv' /\ HelloInv' /\ BusyInv' /\ FirstInv'
  BY <1>1, <1>2 DEF ClientInv, CallInv, HelloInv, BusyInv, FirstInv
<1>5. QuietInv'
  BY <1>1, <1>2 DEF ClientInv, QuietInv, Agrees
<1>6. LagInv' /\ NumberInv'
  BY <1>1, <1>2 DEF ClientInv, LagInv, NumberInv, Pending, Out
<1> QED
  BY <1>3, <1>4, <1>5, <1>6 DEF ClientInv

LEMMA CallInvs ==
  ASSUME ClientInv, Start \/ ShutdownCall \/ \E r \in Requests : OpenCall(r) \/ SessionCall(r)
  PROVE  ClientInv'
<1>1. CASE Start
  BY <1>1, FrameFacts, SpawnInv DEF Start
<1>2. CASE ShutdownCall
  BY <1>2, FrameFacts, AsksInv DEF ShutdownCall
<1>3. ASSUME NEW r \in Requests, OpenCall(r) PROVE ClientInv'
  <2>1. r \in Frame
    BY RequestFacts
  <2> QED
    BY <1>3, <2>1, SpawnInv, AsksInv DEF OpenCall
<1>4. ASSUME NEW r \in Requests, SessionCall(r) PROVE ClientInv'
  <2> DEFINE sid == IF r.sid # "" THEN r.sid ELSE current
             named == [r EXCEPT !.sid = sid]
  <2>1. r \in Frame /\ 0 \in Nat
    BY RequestFacts
  <2>2. sid \in Sids
    BY <2>1 DEF Frame, ClientInv, ClientTypeOK
  <2>3. named \in Frame
    BY <2>1, <2>2, RenumberedFacts
  <2>4. Asks(named)
    BY <1>4 DEF SessionCall
  <2> HIDE DEF named
  <2> QED
    BY <2>3, <2>4, AsksInv
<1> QED
  BY <1>1, <1>2, <1>3, <1>4

\* The pipe takes the frame.
LEMMA SentInv ==
  ASSUME ClientInv, Sent
  PROVE  ClientInv'
<1> DEFINE f == [call.req EXCEPT !.rid = sent + 1]
           w == IF f.type = "shutdown" THEN "exit" ELSE "reply"
<1>1. /\ call.waits = "send" /\ alive /\ sent' = sent + 1 /\ stdin' = Append(stdin, f)
      /\ call' = [req |-> f, waits |-> w]
      /\ UNCHANGED <<alive, eof, stdout, session, everOpened, grid, halfOpen, proc, ready, writing, identity,
                     buf, current, verified, desynced>>
  BY DEF Sent, processVars, memoryVars, sessionVars, historyVars
<1>2. sent \in Nat /\ sent + 1 \in Nat /\ call.req \in Frame /\ call # Idle /\ proc
  <2>1. call # Idle /\ proc
    BY <1>1, CallHas DEF ClientInv
  <2>2. sent \in Nat /\ call.req \in Frame
    BY DEF ClientInv, ClientTypeOK, TypeOK
  <2> QED
    BY <2>1, <2>2
<1>3. f \in Frame /\ f.rid = sent + 1
  <2>1. "" \in Sids
    BY DEF Sids
  <2> QED
    BY <1>2, <2>1, RenumberedFacts
<1>4. w \in {"exit", "reply"}
  OBVIOUS
<1> HIDE DEF f, w
<1>5. /\ call' \in [req : Frame, waits : Waits] /\ call' # Idle
      /\ call'.req = f /\ call'.waits = w
  <2>1. w \in Waits \ {"no"}
    BY <1>4 DEF Waits
  <2> QED
    BY <1>1, <1>3, <2>1, CallFacts
<1>6. stdin' \in Seq(Frame) /\ OneMore(stdin', stdin, f) /\ Len(stdin) \in Nat
  BY <1>1, <1>3, Pushed DEF ClientInv, ClientTypeOK, TypeOK
<1>7. ClientTypeOK' /\ SessionInv'
  BY <1>1, <1>2, <1>5, <1>6 DEF ClientInv, ClientTypeOK, TypeOK, SessionInv
<1>8. CallInv'
  BY <1>1, <1>2, <1>3, <1>4, <1>5 DEF ClientInv, CallInv
<1>9. HelloInv' /\ QuietInv'
  BY <1>4, <1>5 DEF HelloInv, QuietInv
<1>10. Out' = Out /\ Out \in Seq(Line) /\ Len(Out) \in Nat
  BY <1>1, Joins DEF ClientInv, ClientTypeOK, TypeOK, Out
<1>11. NumberInv'
  BY <1>1, <1>2, <1>3, <1>10, NumberedSent DEF ClientInv, ClientTypeOK, TypeOK, NumberInv
<1>12. Pending' = Pending + 1 /\ Pending \in Nat
  BY <1>1, <1>6, <1>10 DEF Pending, OneMore
<1>13. LagInv'
  <2>1. desynced => Pending >= 1
    BY <1>1, <1>2 DEF ClientInv, LagInv
  <2> QED
    BY <1>1, <1>4, <1>5, <1>12, <2>1 DEF LagInv
<1>14. FirstInv'
  <2> SUFFICES ASSUME desynced', call'.waits = "reply", Out' # <<>> PROVE Out'[1].rid # call'.req.rid
    BY DEF FirstInv
  <2>1. ready
    <3>1. buf # <<>> \/ stdout # <<>>
      BY <1>10, Joins DEF ClientInv, ClientTypeOK, TypeOK, Out
    <3> QED
      BY <3>1, CallHas DEF ClientInv
  <2>2. Pending' >= 2
    BY <1>1, <1>2, <1>13 DEF LagInv
  <2>3. Len(stdin') + Len(Out') >= 2
    <3>1. Len(stdin') \in Nat /\ Len(Out') \in Nat /\ ready'
      BY <1>1, <1>6, <1>10, <2>1
    <3> QED
      BY <2>2, <3>1 DEF Pending
  <2>4. sent' \in Nat \ {0} /\ Numbered(stdin', Out', sent')
    BY <1>1, <1>2, <1>11 DEF NumberInv
  <2>5. Out'[1].rid # sent'
    BY <1>6, <1>10, <2>3, <2>4, FirstIsOld
  <2> QED
    BY <1>1, <1>3, <1>5, <2>5
<1>15. BusyInv'
  <2> SUFFICES ASSUME ~desynced
               PROVE  ready' /\ buf' = <<>> /\ stdin' = <<call'.req>> /\ stdout' = <<>> /\ Agrees(current)'
    BY <1>1 DEF BusyInv
  <2>1. ready /\ stdin = <<>> /\ stdout = <<>> /\ buf = <<>> /\ Agrees(current)
    BY <1>1, <1>2 DEF ClientInv, QuietInv
  <2>2. stdin' = <<f>>
    BY <1>1, <2>1
  <2> QED
    BY <1>1, <1>5, <2>1, <2>2 DEF Agrees
<1> QED
  BY <1>7, <1>8, <1>9, <1>11, <1>13, <1>14, <1>15 DEF ClientInv

\* A call that ends on a dead process without reading a line.
LEMMA DiedInv ==
  ASSUME ClientInv, ~alive, call' = Idle,
         UNCHANGED <<alive, eof, stdin, stdout, session, everOpened, grid, halfOpen, sent, proc, ready,
                     writing, identity, buf, current, verified, desynced>>
  PROVE  ClientInv'
<1>1. ClientTypeOK' /\ SessionInv'
  BY FrameFacts DEF ClientInv, ClientTypeOK, TypeOK, SessionInv
<1>2. CallInv'
  BY FrameFacts DEF ClientInv, CallInv
<1> QED
  BY <1>1, <1>2, FrameFacts, DeadInv

\* The process is forgotten, dead or alive.
LEMMA ForgetsInv ==
  ASSUME ClientInv, Forgets,
         UNCHANGED <<alive, eof, stdin, stdout, session, everOpened, grid, halfOpen, sent, ready, writing,
                     identity, verified, desynced>>
  PROVE  ClientInv'
<1>1. proc' = FALSE /\ current' = "" /\ buf' = <<>> /\ call' = Idle
  BY DEF Forgets, Ends
<1>2. ClientTypeOK' /\ SessionInv'
  <2>1. <<>> \in Seq(Line) /\ "" \in Sids
    BY DEF Sids
  <2> QED
    BY <1>1, <2>1, FrameFacts DEF ClientInv, ClientTypeOK, TypeOK, SessionInv
<1>3. CallInv'
  BY <1>1, FrameFacts DEF ClientInv, CallInv
<1> QED
  BY <1>1, <1>2, <1>3, FrameFacts, DeadInv

LEMMA EndedInv ==
  ASSUME ClientInv, SendFails \/ ReadEof \/ Exited \/ Kill
  PROVE  ClientInv'
<1> USE DEF processVars, pipeVars, memoryVars, sessionVars, historyVars
<1>1. CASE SendFails
  <2>1. CASE call.req.type = "shutdown"
    BY <1>1, <2>1, ForgetsInv DEF SendFails
  <2>2. CASE call.req.type # "shutdown"
    BY <1>1, <2>2, DiedInv DEF SendFails, Ends
  <2> QED
    BY <2>1, <2>2
<1>2. CASE ReadEof
  BY <1>2, DiedInv DEF ReadEof, Ends
<1>3. CASE Exited
  BY <1>3, ForgetsInv DEF Exited
<1>4. CASE Kill
  BY <1>4, ForgetsInv DEF Kill
<1> QED
  BY <1>1, <1>2, <1>3, <1>4

LEMMA TimeOutInv ==
  ASSUME ClientInv, TimeOut
  PROVE  ClientInv'
<1>1. /\ call.waits \in {"hello", "reply"} /\ alive /\ stdout = <<>> /\ call' = Idle /\ desynced' = TRUE
      /\ UNCHANGED <<alive, eof, stdin, stdout, session, everOpened, grid, halfOpen, sent, proc, ready,
                     writing, identity, buf, current, verified>>
  BY DEF TimeOut, Ends, Readable, processVars, pipeVars, memoryVars, sessionVars, historyVars
<1>2. ClientTypeOK' /\ SessionInv'
  BY <1>1, FrameFacts DEF ClientInv, ClientTypeOK, TypeOK, SessionInv
<1>3. CallInv'
  BY <1>1, FrameFacts DEF ClientInv, CallInv
<1>4. Out' = Out /\ Len(Out) \in Nat /\ Len(stdin) \in Nat /\ Pending' = Pending
  BY <1>1, Joins DEF ClientInv, ClientTypeOK, TypeOK, Out, Pending
<1>5. Pending >= 1
  <2>1. CASE call.waits = "hello"
    <3>2. Len(stdout) # 1
      BY <1>1
    <3>1. ~ready
      BY <2>1, <3>2 DEF ClientInv, HelloInv
    <3> QED
      BY <1>4, <3>1 DEF Pending
  <2>2. CASE call.waits = "reply" /\ ~desynced
    <3>1. stdin = <<call.req>>
      BY <1>1, <2>2 DEF ClientInv, BusyInv
    <3>2. Len(stdin) = 1
      BY <3>1
    <3> QED
      BY <1>4, <3>2 DEF Pending
  <2>3. CASE call.waits = "reply" /\ desynced
    <3>1. proc
      BY <2>3, FrameFacts DEF ClientInv, CallInv
    <3> QED
      BY <1>1, <1>4, <2>3, <3>1 DEF ClientInv, LagInv, Pending
  <2> QED
    BY <1>1, <2>1, <2>2, <2>3
<1>6. NumberInv' /\ LagInv'
  BY <1>1, <1>4, <1>5, FrameFacts DEF ClientInv, NumberInv, LagInv
<1> QED
  BY <1>1, <1>2, <1>3, <1>6, FrameFacts DEF ClientInv, HelloInv, QuietInv, BusyInv, FirstInv

\* Reading the hello frame empties the pipe.
LEMMA HelloRead ==
  ASSUME ClientInv, call.waits = "hello", NEW line, TakeLine(line)
  PROVE  ready /\ ~writing /\ buf' = <<>> /\ stdout' = <<>>
<1>1. buf \in Seq(Line) /\ stdout \in Seq(Line) /\ (writing => stdout # <<>>)
  BY DEF ClientInv, ClientTypeOK, TypeOK, CallInv
<1>2. /\ buf' \in Seq(Line) /\ stdout' \in Seq(Line) /\ Out # <<>> /\ Rest(Out', Out)
      /\ writing => stdout' # <<>>
  BY <1>1, TakeFacts
<1>3. buf = <<>> /\ (ready => Len(stdout) = 1)
  BY DEF ClientInv, HelloInv
<1>4. Out = stdout
  BY <1>1, <1>3, Joins DEF Out
<1>5. ready /\ Len(Out) = 1
  <2>1. ready
    BY <1>2, <1>4, CallHas DEF ClientInv
  <2> QED
    BY <1>3, <1>4, <2>1
<1>6. Len(buf') + Len(stdout') = 0
  BY <1>2, <1>5, Concatenated DEF Out, Rest
<1>7. buf' = <<>> /\ stdout' = <<>>
  BY <1>2, <1>6
<1> QED
  BY <1>2, <1>5, <1>7

LEMMA ReadHelloInv ==
  ASSUME ClientInv, ReadHello
  PROVE  ClientInv'
<1>1. /\ call.waits = "hello" /\ \E line \in Lines : TakeLine(line)
      /\ UNCHANGED <<alive, eof, stdin, session, everOpened, grid, halfOpen, sent, proc, ready, writing,
                     identity, current, desynced>>
  BY DEF ReadHello, processVars, memoryVars, sessionVars, historyVars
<1>2. ready /\ ~writing /\ buf' = <<>> /\ stdout' = <<>>
  BY <1>1, HelloRead
<1>3. ~desynced /\ session = "" /\ current = "" /\ stdin = <<>>
  BY <1>1 DEF ClientInv, HelloInv
<1>4. Out' = <<>> /\ buf' \in Seq(Line) /\ stdout' \in Seq(Line)
  <2>1. \A S : <<>> \in Seq(S)
    OBVIOUS
  <2> QED
    BY <1>2, <2>1, Joins DEF Out
<1>5. verified' \in BOOLEAN
  BY DEF ReadHello, ClientInv, ClientTypeOK
<1>6. call' = Idle \/ call' = [req |-> call.req, waits |-> "send"]
  BY DEF ReadHello, Ends, Sends
<1>7. /\ call' \in [req : Frame, waits : Waits] /\ call'.waits \in {"no", "send"}
      /\ call'.waits = "no" <=> call' = Idle
  <2>1. call.req \in Frame
    BY DEF ClientInv, ClientTypeOK
  <2> QED
    BY <1>6, <2>1, CallFacts, FrameFacts DEF Waits
<1>8. proc
  BY <1>1, FrameFacts DEF ClientInv, CallInv
<1>9. ClientTypeOK' /\ SessionInv'
  BY <1>1, <1>4, <1>5, <1>7 DEF ClientInv, ClientTypeOK, TypeOK, SessionInv
<1>10. CallInv'
  BY <1>1, <1>2, <1>7, <1>8 DEF CallInv
<1>11. HelloInv' /\ BusyInv' /\ LagInv' /\ FirstInv'
  BY <1>1, <1>3, <1>7 DEF HelloInv, BusyInv, LagInv, FirstInv
<1>12. QuietInv'
  BY <1>1, <1>2, <1>3 DEF QuietInv, Agrees
<1>13. NumberInv'
  <2>1. Numbered(<<>>, <<>>, sent)
    BY DEF Numbered
  <2> QED
    BY <1>1, <1>3, <1>4, <2>1 DEF NumberInv
<1> QED
  BY <1>9, <1>10, <1>11, <1>12, <1>13 DEF ClientInv

\* What is read in step is the reply, and tells the client the session; out of step it is not.
LEMMA ReplyRead ==
  ASSUME ClientInv, call.waits = "reply", NEW line, TakeLine(line)
  PROVE  /\ alive /\ ~desynced =>
              /\ ready /\ stdin = <<>> /\ buf' = <<>> /\ stdout' = <<>> /\ Agrees(Known(line))
              /\ line.rid = call.req.rid \/ (line.rid = Unknown /\ line.type = "error")
         /\ desynced => line.rid # call.req.rid
<1>1. buf \in Seq(Line) /\ stdout \in Seq(Line)
  BY DEF ClientInv, ClientTypeOK, TypeOK
<1>2. buf' \in Seq(Line) /\ stdout' \in Seq(Line) /\ Out # <<>> /\ line = Out[1] /\ Rest(Out', Out)
  BY <1>1, TakeFacts
<1>3. ASSUME alive, ~desynced
      PROVE  /\ ready /\ stdin = <<>> /\ buf' = <<>> /\ stdout' = <<>> /\ Agrees(Known(line))
             /\ line.rid = call.req.rid \/ (line.rid = Unknown /\ line.type = "error")
  <2>1. buf = <<>> /\ Out = stdout
    BY <1>1, <1>3, Joins DEF ClientInv, BusyInv, Out
  <2>2. /\ ready /\ stdin = <<>> /\ Len(stdout) = 1 /\ Agrees(Known(stdout[1]))
        /\ stdout[1].rid = call.req.rid \/ (stdout[1].rid = Unknown /\ stdout[1].type = "error")
    BY <1>2, <1>3, <2>1 DEF ClientInv, BusyInv
  <2>3. Len(buf') + Len(stdout') = 0
    <3>1. Len(Out') = Len(Out) - 1 /\ Len(Out) = 1
      BY <1>2, <2>1, <2>2 DEF Rest
    <3>2. Len(Out') = Len(buf') + Len(stdout')
      BY <1>2, Concatenated DEF Out
    <3> QED
      BY <3>1, <3>2
  <2>4. buf' = <<>> /\ stdout' = <<>>
    BY <1>2, <2>3
  <2> QED
    BY <1>2, <2>1, <2>2, <2>4
<1>4. desynced => line.rid # call.req.rid
  BY <1>2 DEF ClientInv, FirstInv
<1> QED
  BY <1>3, <1>4

LEMMA ReadReplyInv ==
  ASSUME ClientInv, ReadReply
  PROVE  ClientInv'
<1> DEFINE result(line) == IF ~IsReplyTo(line, call.req) THEN "violation"
                           ELSE IF line.type = "error" THEN line.code ELSE "ok"
<1>1. PICK line : /\ TakeLine(line) /\ current' = SessionAfter(result(line), call.req)
  BY DEF ReadReply
<1>2. /\ call.waits = "reply" /\ call' = Idle
      /\ UNCHANGED <<alive, eof, stdin, session, everOpened, grid, halfOpen, sent, proc, ready, writing,
                     identity, verified, desynced>>
  BY DEF ReadReply, Ends, processVars, memoryVars, sessionVars, historyVars
<1>3. buf \in Seq(Line) /\ stdout \in Seq(Line) /\ (writing => alive /\ ready /\ stdout # <<>>)
  BY DEF ClientInv, ClientTypeOK, TypeOK, CallInv
<1>4. /\ buf' \in Seq(Line) /\ stdout' \in Seq(Line) /\ line \in Line /\ Rest(Out', Out)
      /\ writing => stdout' # <<>>
  BY <1>1, <1>3, TakeFacts
<1>5. current' \in {current, call.req.sid, ""}
  BY <1>1 DEF SessionAfter
<1>6. ClientTypeOK' /\ SessionInv'
  <2>1. call.req.sid \in Sids /\ "" \in Sids /\ current \in Sids
    BY DEF ClientInv, ClientTypeOK, Frame, Sids
  <2>2. current' \in Sids
    BY <1>5, <2>1
  <2> QED
    BY <1>2, <1>4, <2>2, FrameFacts DEF ClientInv, ClientTypeOK, TypeOK, SessionInv
<1>7. CallInv'
  <2>1. proc /\ ready
    <3>1. Out # <<>>
      BY <1>1, <1>3, TakeFacts
    <3>2. buf # <<>> \/ stdout # <<>>
      BY <1>3, <3>1, Joins DEF Out
    <3>3. ready
      BY <3>2 DEF ClientInv, CallInv
    <3>4. call # Idle
      BY <1>2, FrameFacts
    <3> QED
      BY <3>3, <3>4 DEF ClientInv, ClientTypeOK, CallInv
  <2> QED
    BY <1>2, <1>3, <1>4, <2>1, FrameFacts DEF CallInv
<1>8. /\ Out \in Seq(Line) /\ Out' \in Seq(Line) /\ Len(Out) \in Nat /\ Len(Out') = Len(Out) - 1
      /\ Len(stdin) \in Nat
  BY <1>3, <1>4, Joins DEF ClientInv, ClientTypeOK, TypeOK, Out, Rest
<1>9. QuietInv'
  <2> SUFFICES ASSUME alive, ~desynced
               PROVE  ready' /\ stdin' = <<>> /\ stdout' = <<>> /\ buf' = <<>> /\ Agrees(current)'
    BY <1>2 DEF QuietInv
  <2>1. /\ ready /\ stdin = <<>> /\ buf' = <<>> /\ stdout' = <<>> /\ Agrees(Known(line))
        /\ line.rid = call.req.rid \/ (line.rid = Unknown /\ line.type = "error")
    BY <1>1, <1>2, ReplyRead
  <2>2. line.type = "error" => result(line) # "ok"
    <3>1. line.code \in Codes \cup {""} /\ "ok" \notin Codes \cup {""} /\ "violation" # "ok"
      BY <1>4 DEF Line, Codes
    <3> QED
      BY <3>1
  <2>3. line.type # "error" => result(line) = "ok"
    BY <2>1 DEF IsReplyTo
  <2>4. SessionAfter(result(line), call.req) = Known(line)
    BY <2>2, <2>3 DEF SessionAfter, Known
  <2> QED
    BY <1>1, <1>2, <2>1, <2>4 DEF Agrees
<1>10. LagInv'
  <2>1. proc /\ alive /\ desynced => Pending >= 2
    BY <1>2 DEF ClientInv, LagInv
  <2>2. Pending' = Pending - 1 /\ Pending \in Nat
    BY <1>2, <1>8 DEF Pending
  <2> QED
    BY <1>2, <2>1, <2>2, FrameFacts DEF LagInv
<1>11. NumberInv'
  <2>1. stdin \in Seq(Frame) /\ sent \in Nat
    BY DEF ClientInv, ClientTypeOK, TypeOK
  <2> QED
    BY <1>2, <1>4, <1>8, <2>1, NumberedRead DEF ClientInv, NumberInv
<1>12. HelloInv' /\ BusyInv' /\ FirstInv'
  BY <1>2, FrameFacts DEF HelloInv, BusyInv, FirstInv
<1> QED
  BY <1>6, <1>7, <1>9, <1>10, <1>11, <1>12 DEF ClientInv

LEMMA ClientNextInv ==
  ASSUME ClientInv, [ClientNext]_allVars
  PROVE  ClientInv'
<1>1. CASE UNCHANGED allVars \/ Refuse
  <2>1. UNCHANGED <<alive, eof, stdin, stdout, session, everOpened, grid, halfOpen, sent, proc, ready,
                    writing, identity, buf, call, current, verified, desynced>>
    BY <1>1 DEF Refuse, Begins, Ends, allVars, processVars, pipeVars, memoryVars, sessionVars, historyVars,
       clientVars
  <2> QED
    BY <2>1, StutterInv
<1> QED
  BY <1>1, CallInvs, SentInv, EndedInv, ReadHelloInv, ReadReplyInv, TimeOutInv, BootInv, ServeInv,
     FinishLineInv, DiesInv DEF ClientNext, Waiting

LEMMA ClientInvariance == ClientSpec => []ClientInv
<1> QED
  BY ClientInitInv, ClientNextInv, PTL DEF ClientSpec

-----------------------------------------------------------------------------
\* Between calls the client's idea of the open session is the evaluator's, unless an
\* open_session failed after it had installed one (_current_session_id in client.py).
THEOREM SessionsStayAgreed == ClientSpec => []SessionsAgree
<1>1. ClientInv => SessionsAgree
  BY FrameFacts DEF ClientInv, QuietInv, SessionsAgree, Agrees
<1> QED
  BY <1>1, ClientInvariance, PTL

\* Once a call has timed out no later call on the same process succeeds: a late reply is
\* never taken for another's (_call and _read_line in client.py).
THEOREM LateRepliesAreRefused == ClientSpec => TimeoutFailsClosed
<1>1. ASSUME ClientInv, [ClientNext]_allVars PROVE [Succeeds => ~desynced]_allVars
  <2>1. CASE ReadHello
    BY <1>1, <2>1 DEF ReadHello, ClientInv, HelloInv
  <2>2. CASE ReadReply
    <3>1. PICK line : /\ TakeLine(line) /\ call.waits = "reply"
                      /\ ~IsReplyTo(line, call.req) => outcome'.result = "violation"
      BY <2>2 DEF ReadReply, Ends
    <3>2. desynced => ~IsReplyTo(line, call.req)
      BY <1>1, <3>1, ReplyRead DEF IsReplyTo
    <3> QED
      BY <3>1, <3>2 DEF Succeeds
  <2>3. CASE SendFails \/ ReadEof \/ TimeOut \/ Exited \/ Kill
    <3>1. ASSUME NEW t, NEW r, Ends(t, r) PROVE outcome'.type = t /\ outcome'.result = r
      BY <3>1 DEF Ends
    <3>2. outcome'.result = "died" \/ outcome'.result = "timeout" \/ outcome'.type = "shutdown"
      BY <2>3, <3>1 DEF SendFails, ReadEof, TimeOut, Exited, Kill, Forgets
    <3> QED
      BY <3>2 DEF Succeeds
  <2>4. CASE Refuse \/ Start \/ ShutdownCall \/ \E r \in Requests : OpenCall(r) \/ SessionCall(r)
    <3>1. call = Idle
      BY <2>4 DEF Refuse, Start, ShutdownCall, OpenCall, SessionCall, Asks, Begins
    <3> QED
      BY <3>1 DEF Succeeds
  <2>5. CASE Sent
    <3>1. call'.waits # "no"
      BY <2>5 DEF Sent
    <3> QED
      BY <3>1, FrameFacts DEF Succeeds
  <2>6. CASE Boot \/ Serve \/ FinishLine \/ Dies \/ UNCHANGED allVars
    BY <2>6 DEF Boot, Serve, FinishLine, Dies, clientVars, allVars, Succeeds
  <2> QED
    BY <1>1, <2>1, <2>2, <2>3, <2>4, <2>5, <2>6 DEF ClientNext, Waiting
<1> QED
  BY <1>1, ClientInvariance, PTL DEF ClientSpec, TimeoutFailsClosed
=============================================================================
