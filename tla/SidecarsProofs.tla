--------------------------- MODULE SidecarsProofs ---------------------------
(***************************************************************************)
(* Sidecars, proved for any number of batches.  While a batch is being     *)
(* written, a path it has recorded in written_paths had no file before and *)
(* holds one of its own now, and any other path is as the batch found it,  *)
(* unless it is the trace, in place before the actions; what cleanup       *)
(* removes is therefore exactly what the batch has added.                  *)
(***************************************************************************)
EXTENDS Sidecars, TLAPS

File == {Absent} \cup [batch : Nat \ {0}, whole : BOOLEAN]

\* The types of the variables of the handler and of the disk.
TypeOK ==
  /\ disk \in [Paths -> File] /\ temp \in [Paths -> File] /\ found \in [Paths -> File]
  /\ batch \in Nat /\ withActions \in BOOLEAN
  /\ pc \in {"idle", "open", "write", "rename", "cleanup"}
  /\ path \in Paths /\ preexisting \in BOOLEAN
  /\ written \subseteq Paths /\ reply \subseteq Paths /\ stuck \subseteq Paths

\* What write_atomic_file has got hold of: the temporary is this batch's, and it was
\* noticed whether it replaces a file.
TempIsOurs ==
  /\ pc # "idle" => batch # 0 /\ reply = {}
  /\ pc \in {"write", "rename"} =>
       temp[path].batch = batch /\ (preexisting <=> Exists(disk[path]))

\* The actions are written only when they are asked for and the trace is in place.
TraceFirst ==
  pc # "idle" =>
    /\ written \subseteq {"trace"}
    /\ path = "trace" => written = {}
    /\ path = "actions" => withActions /\ disk["trace"].batch = batch

\* A trace that has taken the place of another's.
Replaced(p) == p = "trace" /\ path = "actions" /\ Exists(found[p]) /\ disk[p].batch = batch

\* What was recorded is new, and all else is as it was found.
Accounted ==
  pc # "idle" =>
    /\ \A p \in written : ~Exists(found[p]) /\ disk[p].batch = batch
    /\ \A p \in Paths \ written : disk[p] = found[p] \/ Replaced(p)

IInv ==
  TypeOK /\ TempIsOurs /\ TraceFirst /\ Accounted /\ ReplyNamesItsFiles /\ FailureLeavesOwnTrace

-----------------------------------------------------------------------------
LEMMA FileFacts ==
  /\ Absent \in File /\ ~Exists(Absent)
  /\ \A f \in File : f.batch \in Nat /\ (~Exists(f) <=> f = Absent)
BY DEF File, Absent, Exists

LEMMA InitIInv ==
  ASSUME Init
  PROVE  IInv
<1>1. \A p \in Paths : disk[p] = Absent /\ found[p] = Absent
  BY DEF Init
<1>2. disk \in [Paths -> File] /\ temp \in [Paths -> File] /\ found \in [Paths -> File]
  BY FileFacts DEF Init
<1>3. TypeOK
  BY <1>2 DEF Init, TypeOK, Paths
<1> QED
  BY <1>1, <1>3, FileFacts DEF Init, IInv, TempIsOurs, TraceFirst, Accounted,
     ReplyNamesItsFiles, FailureLeavesOwnTrace

\* The batch finds what is there.
LEMMA BeginIInv ==
  ASSUME IInv, NEW actions \in BOOLEAN, Begin(actions)
  PROVE  IInv'
<1>1. TypeOK' /\ batch' # 0 /\ pc' = "open" /\ path' = "trace" /\ written' = {} /\ reply' = {}
  BY DEF IInv, TypeOK, Begin, Paths
<1>2. disk' = disk /\ found' = disk
  BY DEF Begin
<1> QED
  BY <1>1, <1>2 DEF IInv, TempIsOurs, TraceFirst, Accounted, ReplyNamesItsFiles,
     FailureLeavesOwnTrace

\* Opening, short writes and a failed rename leave the sidecars alone.
LEMMA SidecarsKept ==
  ASSUME IInv, pc # "idle", pc' # "idle", TypeOK', TempIsOurs',
         UNCHANGED <<disk, batch, withActions, path, written, reply, found, stuck>>
  PROVE  IInv'
BY DEF IInv, TempIsOurs, TraceFirst, Accounted, Replaced, ReplyNamesItsFiles,
   FailureLeavesOwnTrace, Exists

LEMMA OpenIInv ==
  ASSUME IInv, OpenTemp
  PROVE  IInv'
<1>1. batch # 0 /\ [batch |-> batch, whole |-> FALSE] \in File
  BY DEF IInv, TypeOK, TempIsOurs, File, OpenTemp
<1>2. TypeOK'
  BY <1>1 DEF IInv, TypeOK, OpenTemp, Exists
<1>3. pc' = "write" => temp'[path].batch = batch
  BY DEF IInv, TypeOK, OpenTemp
<1>4. preexisting' <=> Exists(disk[path])
  BY DEF OpenTemp
<1>5. TempIsOurs'
  BY <1>3, <1>4 DEF IInv, OpenTemp, TempIsOurs, Exists
<1> QED
  BY <1>2, <1>5, SidecarsKept DEF OpenTemp

LEMMA WriteIInv ==
  ASSUME IInv, WriteTemp
  PROVE  IInv'
<1>1. PICK whole \in BOOLEAN : temp' = [temp EXCEPT ![path].whole = whole]
  BY DEF WriteTemp
<1>2. temp[path] \in [batch : Nat \ {0}, whole : BOOLEAN] /\ temp[path].batch = batch
  BY DEF IInv, TypeOK, TempIsOurs, File, Absent, WriteTemp
<1>3. [temp[path] EXCEPT !.whole = whole] \in File
      /\ [temp[path] EXCEPT !.whole = whole].batch = batch
  BY <1>2 DEF File
<1>4. temp' \in [Paths -> File] /\ temp'[path].batch = batch
  BY <1>1, <1>3 DEF IInv, TypeOK
<1>5. TypeOK'
  BY <1>4 DEF IInv, TypeOK, WriteTemp
<1>6. TempIsOurs'
  BY <1>4 DEF IInv, WriteTemp, TempIsOurs, Exists
<1> QED
  BY <1>5, <1>6, SidecarsKept DEF WriteTemp

LEMMA RenameFailsIInv ==
  ASSUME IInv, RenameFails
  PROVE  IInv'
<1>1. temp[path] \in File
  BY DEF IInv, TypeOK
<1>2. TypeOK'
  BY <1>1, FileFacts DEF IInv, TypeOK, RenameFails
<1>3. TempIsOurs'
  BY DEF IInv, RenameFails, TempIsOurs
<1> QED
  BY <1>2, <1>3, SidecarsKept DEF RenameFails

\* A sidecar that was not there when it was opened is recorded when it is put in place.
LEMMA RenameIInv ==
  ASSUME IInv, Rename
  PROVE  IInv'
<1>1. /\ disk' = [disk EXCEPT ![path] = temp[path]] /\ temp[path].batch = batch /\ batch # 0
      /\ UNCHANGED <<batch, withActions, found, stuck>> /\ batch \in Nat /\ path \in Paths
      /\ disk \in [Paths -> File]
  BY DEF IInv, TypeOK, TempIsOurs, Rename
<1>2. TypeOK'
  <2>1. temp[path] \in File
    BY DEF IInv, TypeOK
  <2>2. disk' \in [Paths -> File] /\ temp' \in [Paths -> File]
    BY <2>1, FileFacts DEF IInv, TypeOK, Rename
  <2> QED
    BY <2>2 DEF IInv, TypeOK, Rename, Created, Paths
<1>3. disk'[path].batch = batch /\ \A p \in Paths \ {path} : disk'[p] = disk[p]
  BY <1>1
\* Before, the path was as the batch had found it.
<1>4. path \notin written /\ disk[path] = found[path]
  BY <1>1 DEF IInv, TraceFirst, Accounted, Replaced, Rename
<1>5. preexisting <=> Exists(found[path])
  BY <1>4 DEF IInv, TempIsOurs, Rename
<1>6. written' = IF Exists(found[path]) THEN written ELSE written \cup {path}
  BY <1>5 DEF Rename, Created
<1>7. CASE path = "trace" /\ withActions
  <2>1. path' = "actions" /\ pc' = "open" /\ UNCHANGED reply /\ written = {} /\ reply = {}
    BY <1>7 DEF IInv, TraceFirst, TempIsOurs, Rename
  <2>2. TempIsOurs' /\ TraceFirst'
    BY <1>1, <1>3, <1>6, <1>7, <2>1 DEF TempIsOurs, TraceFirst
  <2>3. Accounted'
    BY <1>1, <1>3, <1>4, <1>6, <1>7, <2>1 DEF IInv, Accounted, Replaced, Exists, Rename
  <2>4. ReplyNamesItsFiles'
    BY <2>1 DEF ReplyNamesItsFiles
  <2>5. FailureLeavesOwnTrace'
    BY <1>1, <1>3, <2>1 DEF IInv, FailureLeavesOwnTrace, Exists
  <2> QED
    BY <1>2, <2>2, <2>3, <2>4, <2>5 DEF IInv
<1>8. CASE ~(path = "trace" /\ withActions)
  <2>1. pc' = "idle" /\ path' = path /\ reply' = IF withActions THEN Paths ELSE {"trace"}
    BY <1>8 DEF Rename
  <2>2. TempIsOurs' /\ TraceFirst' /\ Accounted'
    BY <2>1 DEF TempIsOurs, TraceFirst, Accounted
  <2>3. \A p \in reply' : disk'[p].batch = batch
    <3>1. CASE withActions
      <4>1. path = "actions" /\ disk["trace"].batch = batch
        BY <1>1, <1>8, <3>1 DEF IInv, TraceFirst, Rename, Paths
      <4> QED
        BY <4>1, <1>3, <2>1 DEF Paths
    <3>2. CASE ~withActions
      <4>1. path = "trace"
        BY <1>1, <3>2 DEF IInv, TraceFirst, Rename, Paths
      <4> QED
        BY <4>1, <3>2, <1>3, <2>1
    <3> QED
      BY <3>1, <3>2
  <2>4. ReplyNamesItsFiles'
    BY <2>3, <1>1 DEF ReplyNamesItsFiles
  <2>5. FailureLeavesOwnTrace'
    BY <1>1, <1>3, <2>1 DEF IInv, FailureLeavesOwnTrace, Exists, Paths
  <2> QED
    BY <1>2, <2>2, <2>4, <2>5 DEF IInv
<1> QED
  BY <1>7, <1>8

\* cleanup_sidecars removes what was recorded, and that was not there before.
LEMMA CleanupIInv ==
  ASSUME IInv, Cleanup
  PROVE  IInv'
<1>1. PICK left \in SUBSET written :
        /\ disk' = [p \in Paths |-> IF p \in written \ left THEN Absent ELSE disk[p]]
        /\ stuck' = left
  BY DEF Cleanup
<1>2. TypeOK'
  <2>1. disk' \in [Paths -> File]
    BY <1>1, FileFacts DEF IInv, TypeOK
  <2> QED
    BY <1>1, <2>1 DEF IInv, TypeOK, Cleanup
<1>3. /\ UNCHANGED <<batch, found, path, withActions, written>> /\ pc' = "idle" /\ reply' = {}
  BY DEF Cleanup
<1>4. \A p \in written \ left : disk'[p] = found[p] /\ found[p] = Absent
  <2>1. \A p \in written : ~Exists(found[p]) /\ found[p] \in File
    BY DEF IInv, TypeOK, Accounted, Cleanup
  <2> QED
    BY <1>1, <2>1, FileFacts DEF IInv, TypeOK
<1>5. \A p \in Paths \ (written \ left) : disk'[p] = disk[p]
  BY <1>1
<1>6. \A p \in Paths \ written : disk[p] = found[p] \/ (Replaced(p) /\ withActions)
  BY DEF IInv, TypeOK, Accounted, Replaced, TraceFirst, Cleanup
<1>7. FailureLeavesOwnTrace'
  <2>1. \A p \in Paths : disk'[p] = found[p] \/ disk'[p].batch = batch
    BY <1>4, <1>5 DEF IInv, FailureLeavesOwnTrace
  <2>2. \A p \in Paths : Exists(found[p]) => Exists(disk'[p])
    BY <1>4, <1>5, FileFacts DEF IInv, FailureLeavesOwnTrace
  <2>3. \A p \in Paths \ left : disk'[p] # found[p] =>
          p = "trace" /\ withActions /\ Exists(found[p]) /\ disk'[p].batch = batch
    BY <1>4, <1>5, <1>6 DEF Replaced
  <2> QED
    BY <1>1, <1>3, <2>1, <2>2, <2>3 DEF FailureLeavesOwnTrace, Exists
<1> QED
  BY <1>2, <1>3, <1>7 DEF IInv, TempIsOurs, TraceFirst, Accounted, ReplyNamesItsFiles

\* The process dies: what it had recorded stays.
LEMMA DieIInv ==
  ASSUME IInv, Die
  PROVE  IInv'
<1>1. TypeOK'
  BY DEF IInv, TypeOK, Die
<1>2. /\ UNCHANGED <<disk, batch, found, path, withActions, written>>
      /\ pc' = "idle" /\ reply' = {} /\ stuck' = written
  BY DEF Die
<1>3. \A p \in Paths \ written : disk[p] = found[p] \/ (Replaced(p) /\ withActions)
  BY DEF IInv, TypeOK, Accounted, Replaced, TraceFirst, Die
<1>4. FailureLeavesOwnTrace'
  BY <1>2, <1>3 DEF IInv, FailureLeavesOwnTrace, Replaced, Exists
<1> QED
  BY <1>1, <1>2, <1>4 DEF IInv, TempIsOurs, TraceFirst, Accounted, ReplyNamesItsFiles

LEMMA StutterIInv ==
  ASSUME IInv, UNCHANGED vars
  PROVE  IInv'
BY DEF IInv, TypeOK, vars, TempIsOurs, TraceFirst, Accounted, Replaced, ReplyNamesItsFiles,
   FailureLeavesOwnTrace, Exists

LEMMA Invariance == Spec => []IInv
<1>1. ASSUME IInv, [Next]_vars PROVE IInv'
  BY <1>1, BeginIInv, OpenIInv, WriteIInv, RenameIInv, RenameFailsIInv, CleanupIInv, DieIInv,
     StutterIInv DEF Next
<1> QED
  BY <1>1, InitIInv, PTL DEF Spec

-----------------------------------------------------------------------------
\* Whatever fails, a reply names only files of its own batch
\* (handle_evaluate_batch, main.cpp).
THEOREM RepliesNameOwnFiles == Spec => []ReplyNamesItsFiles
<1>1. IInv => ReplyNamesItsFiles
  BY DEF IInv
<1> QED
  BY <1>1, Invariance, PTL

\* Whatever fails and wherever the process dies, what a failed batch leaves is what it
\* found, contents included, except a file of its own that it could not remove and a
\* trace that had replaced an earlier one (FailureLeavesOwnTrace; cleanup_sidecars and
\* written_paths, main.cpp).
THEOREM FailuresLeaveOwnTrace == Spec => []FailureLeavesOwnTrace
<1>1. IInv => FailureLeavesOwnTrace
  BY DEF IInv
<1> QED
  BY <1>1, Invariance, PTL
=============================================================================
