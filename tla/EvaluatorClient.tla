--------------------------- MODULE EvaluatorClient ---------------------------
(***************************************************************************)
(* EvaluatorClient (client.py): the synchronous Python client, with the    *)
(* evaluator processes it spawns one after another.  _lock is held for a   *)
(* whole call, so there is one call at a time, and a call's steps are its  *)
(* waits: for the hello frame, for the pipe to take its frame, for a reply,*)
(* for the process to exit.                                                *)
(*                                                                         *)
(* Nothing bounds how long the evaluator works on a frame, so a time limit *)
(* may expire whenever the thing waited for is not there.  Only the waits  *)
(* for a first byte (select) and for the exit have one: a write blocks     *)
(* while the pipe is full, and readline until the line it has begun ends.  *)
(***************************************************************************)
EXTENDS EvaluatorServer

VARIABLES
  proc,                \* _proc is not None
  ready,               \* the process has written its hello frame
  writing,             \* the last line in stdout is there in part
  killed,              \* the process was sent SIGKILL
  identity,            \* what that frame says: "expected" or "other"
  buf,                 \* lines pulled out of the pipe by an earlier readline
  call,                \* the call in progress: its request and its wait
  current,             \* _current_session_id, "" for None
  calls,               \* number of calls made
  outcome,             \* the last call's type and result
  opener,              \* history: the type of the call that spawned this process
  verified,            \* history: this process passed the identity check
  desynced             \* history: a call gave up on this process' output

processVars == <<alive, ready, writing, killed, identity>>
pipeVars == <<eof, stdin, stdout>>
memoryVars == <<sessionVars, historyVars>>
clientVars == <<proc, buf, call, current, calls, outcome, opener, verified, desynced>>
allVars == <<processVars, pipeVars, memoryVars, sent, clientVars>>

NoRequest == [rid |-> 0, type |-> "none", sid |-> "", grid |-> "", cands |-> <<>>, flaws |-> {}]
StartRequest == [NoRequest EXCEPT !.type = "start"]
ShutdownRequest == [NoRequest EXCEPT !.type = "shutdown"]

Idle == [req |-> NoRequest, waits |-> "no"]

ClientInit ==
  /\ alive = FALSE /\ ready = FALSE /\ writing = FALSE /\ killed = FALSE
  /\ identity = "expected"
  /\ eof = FALSE /\ stdin = <<>> /\ stdout = <<>>
  /\ session = "" /\ everOpened = FALSE /\ grid = ""
  /\ told = NothingTold /\ halfOpen = FALSE
  /\ sent = 0
  /\ proc = FALSE /\ buf = <<>> /\ call = Idle /\ current = ""
  /\ calls = 0 /\ outcome = [type |-> "none", result |-> "none"]
  /\ opener = "none" /\ verified = FALSE /\ desynced = FALSE

-----------------------------------------------------------------------------
(* The process. *)

\* Popen: a new process of some build of the evaluator, with pipes of its own.  It
\* shares nothing with a killed one, so it may as well wait until that is gone.
Spawn(r) ==
  /\ ~proc /\ ~alive
  /\ alive' = TRUE /\ ready' = FALSE /\ writing' = FALSE /\ killed' = FALSE
  /\ identity' \in {"expected", "other"}
  /\ stdin' = <<>> /\ stdout' = <<>>
  /\ session' = "" /\ everOpened' = FALSE /\ grid' = ""
  /\ told' = NothingTold /\ halfOpen' = FALSE
  /\ proc' = TRUE /\ buf' = <<>>
  /\ opener' = r.type /\ verified' = FALSE /\ desynced' = FALSE
  /\ call' = [req |-> r, waits |-> "hello"]
  /\ UNCHANGED <<eof, sent, current, outcome>>

\* A line is put into the pipe at once, or the part of it for which there is room.
Boot ==
  /\ alive /\ ~ready
  /\ ready' = TRUE
  /\ stdout' = <<Hello>> /\ writing' \in BOOLEAN
  /\ UNCHANGED <<alive, killed, identity, eof, stdin, memoryVars, sent, clientVars>>

Serve ==
  /\ ready /\ ~writing
  /\ Handle
  /\ writing' \in BOOLEAN
  /\ writing' => Len(stdout') > Len(stdout)
  /\ UNCHANGED <<ready, killed, identity, eof, sent, clientVars>>

\* The rest of the line follows as the client reads.
FinishLine ==
  /\ alive /\ writing
  /\ call.waits \in {"hello", "reply"}
  /\ writing' = FALSE
  /\ UNCHANGED <<alive, ready, killed, identity, pipeVars, memoryVars, sent, clientVars>>

\* A line that lacks its end, and not only the newline.
Torn == Reply("torn", Unknown, "", "", <<>>)

\* The process is killed, by the client or from outside, or dies of an error in a
\* simulation; a line it was writing ends there.
Dies ==
  /\ alive
  /\ alive' = FALSE /\ writing' = FALSE
  /\ stdout' \in {stdout} \cup IF writing THEN {[stdout EXCEPT ![Len(stdout)] = Torn]} ELSE {}
  /\ UNCHANGED <<ready, killed, identity, eof, stdin, memoryVars, sent, clientVars>>

-----------------------------------------------------------------------------
(* A call begins.  r.sid is the session_id argument, "" if it was not given. *)

Begins == call = Idle /\ calls < MaxRequests /\ calls' = calls + 1

Ends(type, result) ==
  /\ call' = Idle
  /\ outcome' = [type |-> type, result |-> result]

\* _send_frame begins to write.
Sends(r) == call' = [req |-> r, waits |-> "send"]

\* An argument is rejected, or the evaluator cannot be spawned or is running.
Refuse ==
  /\ Begins
  /\ Ends("none", "refused")
  /\ UNCHANGED <<processVars, pipeVars, memoryVars, sent, proc, buf, current, opener, verified, desynced>>

Start ==
  /\ Begins
  /\ Spawn(StartRequest)

\* A call on the process that is there.
Asks(r) ==
  /\ Begins
  /\ proc
  /\ Sends(r)
  /\ UNCHANGED <<processVars, pipeVars, memoryVars, sent, proc, buf, current, outcome, opener, verified,
                 desynced>>

OpenCall(r) ==
  /\ r.type = "open_session"
  /\ (Begins /\ Spawn(r)) \/ Asks(r)

\* register_grid, evaluate_batch and close_session, for the session given or
\* the current one.
SessionCall(r) ==
  LET sid == IF r.sid # "" THEN r.sid ELSE current IN
  /\ r.type \in {"register_grid", "evaluate_batch", "close_session"}
  /\ sid # ""
  /\ Asks([r EXCEPT !.sid = sid])

ShutdownCall == Asks(ShutdownRequest)

-----------------------------------------------------------------------------
(* _send_frame *)

\* The pipe has taken the frame, under a fresh request id.
Sent ==
  LET frame == [call.req EXCEPT !.rid = sent + 1] IN
  /\ call.waits = "send" /\ alive
  /\ sent' = sent + 1
  /\ stdin' = Append(stdin, frame)
  /\ call' = [req |-> frame, waits |-> IF frame.type = "shutdown" THEN "exit" ELSE "reply"]
  /\ UNCHANGED <<processVars, eof, stdout, memoryVars, proc, buf, current, calls, outcome, opener, verified,
                 desynced>>

\* The evaluator is in getline: nothing keeps the frame from being taken.
EvaluatorReads == ready /\ ~writing /\ stdin = <<>>

\* shutdown's finally; the client's ends of the pipes are closed.
Forgets ==
  /\ proc' = FALSE /\ current' = "" /\ buf' = <<>>
  /\ Ends("shutdown", "ok")

\* With nobody left to read it the write raises; in shutdown that leads to kill,
\* which finds nothing to kill.
SendFails ==
  /\ call.waits = "send" /\ ~alive
  /\ IF call.req.type = "shutdown" THEN Forgets
     ELSE Ends(call.req.type, "died") /\ UNCHANGED <<proc, current, buf>>
  /\ UNCHANGED <<processVars, pipeVars, memoryVars, sent, calls, opener, verified, desynced>>

-----------------------------------------------------------------------------
(* _read_line *)

\* What the selector sees is the pipe; a line in buf does not make it readable, and
\* the first bytes of a line do.
Readable == stdout # <<>> \/ ~alive

\* The lines in the pipe that have ended.
Ended == IF writing THEN Len(stdout) - 1 ELSE Len(stdout)

\* readline returns a buffered line, or pulls at least one line out of the pipe.
TakeLine(line) ==
  /\ Readable
  /\ IF buf # <<>>
     THEN line = Head(buf) /\ buf' = Tail(buf) /\ UNCHANGED stdout
     ELSE /\ Ended > 0
          /\ line = Head(stdout)
          /\ \E k \in 1 .. Ended :
               /\ buf' = SubSeq(stdout, 2, k)
               /\ stdout' = SubSeq(stdout, k + 1, Len(stdout))

Lines == ToSet(buf) \cup ToSet(stdout)

\* The process has exited and all it wrote was read.
ReadEof ==
  /\ call.waits \in {"hello", "reply"}
  /\ ~alive /\ stdout = <<>> /\ buf = <<>>
  /\ Ends(call.req.type, "died")
  /\ UNCHANGED <<processVars, pipeVars, memoryVars, sent, proc, buf, current, calls, opener, verified, desynced>>

TimeOut ==
  /\ call.waits \in {"hello", "reply"}
  /\ ~Readable
  /\ desynced' = TRUE
  /\ Ends(call.req.type, "timeout")
  /\ UNCHANGED <<processVars, pipeVars, memoryVars, sent, proc, buf, current, calls, opener, verified>>

\* The hello frame is read and checked; open_session goes on to send its frame.
ReadHello ==
  /\ call.waits = "hello"
  /\ \E line \in Lines :
       /\ TakeLine(line)
       /\ LET result == IF line.type # "hello" THEN "violation"
                        ELSE IF identity = "other" THEN "mismatch" ELSE "ok" IN
          /\ verified' = (verified \/ result = "ok")
          /\ IF result = "ok" /\ call.req.type = "open_session"
             THEN Sends(call.req) /\ UNCHANGED outcome
             ELSE Ends(call.req.type, result)
  /\ UNCHANGED <<processVars, eof, stdin, memoryVars, sent, proc, current, calls, opener, desynced>>

\* Mutant of IsReplyTo: any frame of the protocol is taken for the reply.
AnyFrame(line, req) == line.type # "hello"

IsReplyTo(line, req) == line.rid = req.rid

\* Mutant of SessionAfter: the session is recorded whatever the evaluator said.
SessionAfterSending(result, req) ==
  IF req.type = "open_session" THEN req.sid
  ELSE IF req.type = "close_session" THEN "" ELSE current

SessionAfter(result, req) ==
  IF result = "ok" /\ req.type = "open_session" THEN req.sid
  ELSE IF result = "ok" /\ req.type = "close_session" THEN "" ELSE current

ReadReply ==
  /\ call.waits = "reply"
  /\ \E line \in Lines :
       LET result == IF ~IsReplyTo(line, call.req) THEN "violation"
                     ELSE IF line.type = "error" THEN line.code ELSE "ok" IN
       /\ TakeLine(line)
       /\ Ends(call.req.type, result)
       /\ current' = SessionAfter(result, call.req)
  /\ UNCHANGED <<processVars, eof, stdin, memoryVars, sent, proc, calls, opener, verified, desynced>>

-----------------------------------------------------------------------------
(* shutdown waits for the process to exit. *)

Exited ==
  /\ call.waits = "exit" /\ ~alive
  /\ Forgets
  /\ UNCHANGED <<processVars, pipeVars, memoryVars, sent, calls, opener, verified, desynced>>

\* Mutants of Kill: the wait has no time limit; the process is let go without being
\* killed.
KillNever ==
  /\ call.waits = "exit" /\ ~alive
  /\ Forgets
  /\ UNCHANGED <<processVars, pipeVars, memoryVars, sent, calls, opener, verified, desynced>>

KillForgets ==
  /\ call.waits = "exit" /\ alive
  /\ Forgets
  /\ UNCHANGED <<processVars, pipeVars, memoryVars, sent, calls, opener, verified, desynced>>

\* The time limit of the wait expires.  kill sends a signal and does not wait for
\* its effect.
Kill ==
  /\ call.waits = "exit" /\ alive
  /\ killed' = TRUE
  /\ Forgets
  /\ UNCHANGED <<alive, ready, writing, identity, pipeVars, memoryVars, sent, calls, opener, verified, desynced>>

-----------------------------------------------------------------------------
Waiting ==
  \/ Sent /\ EvaluatorReads
  \/ SendFails \/ ReadHello \/ ReadReply \/ ReadEof \/ TimeOut \/ Exited \/ Kill

ClientNext ==
  \/ Refuse \/ Start \/ ShutdownCall
  \/ \E r \in Requests : OpenCall(r) \/ SessionCall(r)
  \/ Sent \/ Waiting
  \/ Boot \/ Serve \/ FinishLine \/ Dies

\* A call that can go on does, and time limits expire; a frame is taken by an
\* evaluator that reads, a line of which a part is written is written to its end
\* while the client reads, and a killed process dies.  The evaluator owes nothing
\* else: it need not start, answer or exit.
ClientSpec ==
  /\ ClientInit /\ [][ClientNext]_allVars
  /\ WF_allVars(Waiting) /\ WF_allVars(FinishLine) /\ WF_allVars(killed /\ Dies)

-----------------------------------------------------------------------------
\* A call that had to reach the evaluator returns normally.
Succeeds ==
  /\ call # Idle /\ call' = Idle
  /\ outcome'.result = "ok" /\ outcome'.type # "shutdown"

\* Once a call has given up on a process, no later call on that process succeeds:
\* the late reply is never taken for the reply to another request, and the lag
\* it causes never closes, whatever is read, buffered or sent afterwards.
TimeoutFailsClosed == [][Succeeds => ~desynced]_allVars

\* Between calls the client's idea of the open session is the evaluator's, on a
\* process no call has given up on.  The one exception is the session that was
\* installed by an open_session that failed: the client knows of none.
SessionsAgree ==
  call = Idle /\ proc /\ alive /\ ~desynced
    => current = session \/ (halfOpen /\ current = "")

\* A call returns or raises although the evaluator may never answer, unless it has
\* to write to a process that an earlier call gave up on: then the write may block
\* for ever, with _lock held, on an evaluator that hangs or is itself blocked
\* writing the reply nobody came back for.
CallsReturn == call # Idle ~> call = Idle \/ (call.waits = "send" /\ desynced)

\* "Send graceful shutdown frame and terminate child process": whatever the evaluator
\* is doing, a shutdown that gets its frame into the pipe or fails to ends the process.
ShutdownEnds ==
  call.req.type = "shutdown" ~> ~alive \/ (call.waits = "send" /\ desynced)

\* "Start the evaluator subprocess, read the hello frame, and verify identity":
\* what a client gets from an evaluator that start has spawned comes from one that
\* passed the check.
StartVerifies == [][Succeeds /\ opener = "start" => verified']_allVars
=============================================================================
