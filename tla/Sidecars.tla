------------------------------ MODULE Sidecars ------------------------------
(***************************************************************************)
(* The sidecar files of one full-trace candidate (main.cpp): each batch    *)
(* that evaluates it writes the same two paths anew, through temporary     *)
(* files, and the reply names what was written.  The process may die at    *)
(* any step, as it does when the file system throws, and be started again. *)
(***************************************************************************)
EXTENDS Naturals

CONSTANT MaxBatches    \* bound: batches evaluated

ASSUME MaxBatchesAssumption == MaxBatches \in Nat

VARIABLES
  disk, temp,          \* the sidecars and their temporaries
  batch,               \* number of batches so far
  withActions,         \* this batch has an action log
  pc, path,            \* where in the handler, and the file it writes
  preexisting,         \* the path had a file before it was written
  written,             \* written_paths
  reply,               \* what the last reply names, {} for "artifacts": null
  found, stuck         \* history: the sidecars when the batch began, and files of
                       \* its own that a failed batch could not remove

vars == <<disk, temp, batch, withActions, pc, path, preexisting, written, reply, found, stuck>>

Paths == {"trace", "actions"}

\* A file is known by the batch that wrote it, and by whether it is all there.
Absent == [batch |-> 0, whole |-> FALSE]

Exists(f) == f.batch # 0

Init ==
  /\ disk = [p \in Paths |-> Absent] /\ temp = disk
  /\ batch = 0 /\ withActions = FALSE
  /\ pc = "idle" /\ path = "trace" /\ preexisting = FALSE
  /\ written = {} /\ reply = {} /\ found = disk /\ stuck = {}

-----------------------------------------------------------------------------
\* A batch has run and its result is to be written.
Begin(actions) ==
  /\ pc = "idle" /\ batch < MaxBatches
  /\ batch' = batch + 1 /\ withActions' = actions
  /\ pc' = "open" /\ path' = "trace"
  /\ written' = {} /\ reply' = {} /\ stuck' = {}
  /\ found' = disk
  /\ UNCHANGED <<disk, temp, preexisting>>

\* write_atomic_file: the temporary is opened and truncated, ...
OpenTemp ==
  /\ pc = "open"
  /\ preexisting' = Exists(disk[path])
  /\ \/ /\ temp' = [temp EXCEPT ![path] = [batch |-> batch, whole |-> FALSE]]
        /\ pc' = "write"
     \/ pc' = "cleanup" /\ UNCHANGED temp
  /\ UNCHANGED <<disk, batch, withActions, path, written, reply, found, stuck>>

\* ... written and flushed, which may fall short and is not looked at, ...
WriteTemp ==
  /\ pc = "write"
  /\ \E whole \in BOOLEAN : temp' = [temp EXCEPT ![path].whole = whole]
  /\ pc' = "rename"
  /\ UNCHANGED <<disk, batch, withActions, path, preexisting, written, reply, found, stuck>>

\* Mutant of Created: the paths that existed before are recorded as well.
CreatedAlways == written \cup {path}

\* written_paths, when path is in place.
Created == IF preexisting THEN written ELSE written \cup {path}

\* Mutant of Rename: the reply is made up when the trace is in place.
RenameRepliesEarly ==
  /\ pc = "rename"
  /\ disk' = [disk EXCEPT ![path] = temp[path]]
  /\ temp' = [temp EXCEPT ![path] = Absent]
  /\ written' = Created
  /\ reply' = IF withActions THEN Paths ELSE {"trace"}
  /\ IF path = "trace" /\ withActions THEN path' = "actions" /\ pc' = "open"
     ELSE pc' = "idle" /\ UNCHANGED path
  /\ UNCHANGED <<batch, withActions, preexisting, found, stuck>>

\* ... and put in place.  The actions follow the trace; then the reply is sent.
Rename ==
  /\ pc = "rename"
  /\ disk' = [disk EXCEPT ![path] = temp[path]]
  /\ temp' = [temp EXCEPT ![path] = Absent]
  /\ written' = Created
  /\ IF path = "trace" /\ withActions
     THEN path' = "actions" /\ pc' = "open" /\ UNCHANGED reply
     ELSE /\ reply' = IF withActions THEN Paths ELSE {"trace"}
          /\ pc' = "idle" /\ UNCHANGED path
  /\ UNCHANGED <<batch, withActions, preexisting, found, stuck>>

\* The temporary cannot be put in place; removing it may fail as well.
RenameFails ==
  /\ pc = "rename"
  /\ \E left \in {temp[path], Absent} : temp' = [temp EXCEPT ![path] = left]
  /\ pc' = "cleanup"
  /\ UNCHANGED <<disk, batch, withActions, path, preexisting, written, reply, found, stuck>>

\* cleanup_sidecars; a file that cannot be removed is left.
Cleanup ==
  /\ pc = "cleanup"
  /\ \E left \in SUBSET written :
       /\ disk' = [p \in Paths |-> IF p \in written \ left THEN Absent ELSE disk[p]]
       /\ stuck' = left
  /\ pc' = "idle" /\ reply' = {}
  /\ UNCHANGED <<temp, batch, withActions, path, preexisting, written, found>>

\* The process ends without a reply, and another one is started.
Die ==
  /\ pc # "idle"
  /\ pc' = "idle" /\ reply' = {}
  /\ stuck' = written
  /\ UNCHANGED <<disk, temp, batch, withActions, path, preexisting, written, found>>

Next ==
  \/ \E actions \in BOOLEAN : Begin(actions)
  \/ OpenTemp \/ WriteTemp \/ Rename \/ RenameFails \/ Cleanup
  \/ Die

Spec == Init /\ [][Next]_vars

-----------------------------------------------------------------------------
\* A reply that names artifacts names files of its own batch, both of them if
\* there are two: never one that an earlier batch has left at that path.
ReplyNamesItsFiles == \A p \in reply : disk[p].batch = batch

\* What a batch that fails leaves.  At every moment a path holds what the batch found
\* there or a file of the batch's own, and one that had a file has one.  When the reply
\* says there are no artifacts, or the process has died, every path is as it was found,
\* contents included, with two exceptions: a file of its own that the batch could not
\* remove, or died before it could; and a trace that replaced an earlier one before the
\* actions failed, which stays and is then next to the actions of another batch
\* (written_paths and cleanup_sidecars, main.cpp:1075 and 1090).
FailureLeavesOwnTrace ==
  /\ \A p \in Paths : disk[p] = found[p] \/ disk[p].batch = batch
  /\ \A p \in Paths : Exists(found[p]) => Exists(disk[p])
  /\ pc = "idle" /\ reply = {} =>
       \A p \in Paths \ stuck : disk[p] # found[p] =>
         p = "trace" /\ withActions /\ Exists(found[p]) /\ disk[p].batch = batch

\* "Full observation writes an atomic trace sidecar": a file that a reply names
\* is all there.
NamedSidecarsAreWhole == \A p \in reply : disk[p].whole
=============================================================================
