------------------------- MODULE ResultWriterProofs -------------------------
(***************************************************************************)
(* For any number of writers, directories and events: the result is never  *)
(* seen in part, the protected directory is never touched, a call that     *)
(* refuses withdraws its result and removes its candidate unless the       *)
(* system refuses the removal, and a writer that is left alone publishes   *)
(* all or refuses.                                                         *)
(*                                                                         *)
(* None of these is inductive alone.  WriterInv says where a writer's file *)
(* can be - under its temporary name before the rename, under the target's *)
(* name after it, both in the bound directory - and what is settled by the *)
(* time the call gets there.  AloneInv is the same for one writer that     *)
(* nobody interferes with, and says in addition what its result will be.   *)
(***************************************************************************)
EXTENDS ResultWriter, TLAPS

\* Between the comparison of the two directories and the return.
Guarded == Labels \ {"mkdir", "openprot", "openout", "out1", "prot1", "done"}
\* Between the sync and the rename.
Written == {"target2", "out2", "prot2", "rename"}
\* Before the candidate is created, and after it was renamed.
NoCandidate == {"mkdir", "openprot", "openout", "out1", "prot1", "target1", "create",
                "identity", "out3", "prot3", "unpublish", "commit"}
\* After the rename, unless the result was withdrawn or replaced.
Published == {"identity", "out3", "prot3", "unpublish", "commit", "cleanup", "done"}

DirectoriesApart ==
    \A w \in Writers : /\ pc[w] \in Guarded => boundOut[w] # boundProt[w]
                       /\ pc[w] \in Guarded \cup {"out1", "prot1"} => boundOut[w] \in Dirs
DataSynced ==
    \A w \in Writers : /\ pc[w] \in Written \cup {"sync"} => data[w] = "full"
                       /\ pc[w] \in Written => synced[w]
CandidatePlace ==
    \A w \in Writers, d \in Dirs :
       /\ temp[d][w] \in {w, "absent", "other"}
       /\ temp[d][w] # "absent" => /\ d = boundOut[w]
                                   /\ pc[w] \notin NoCandidate
                                   /\ pc[w] = "cleanup" => result[w] = "error"
                                   /\ pc[w] = "done" => \/ result[w] = "killed"
                                                        \/ "temp" \in kept[w] /\ result[w] = "error"
TargetPlace ==
    \A w \in Writers, d \in Dirs :
       target[d] = w => /\ d = boundOut[w]
                        /\ pc[w] \in Published
                        /\ data[w] = "full" /\ synced[w]
                        /\ pc[w] \in {"cleanup", "done"} => result[w] # "error" \/ "target" \in kept[w]

WriterInv == DirectoriesApart /\ DataSynced /\ CandidatePlace /\ TargetPlace
Inv == TypeOK /\ WriterInv

-----------------------------------------------------------------------------
(* Type correctness *)

\* Only the two removals can be refused, and only to the call that asks.
LEMMA KeptStep ==
    ASSUME NEW w \in Writers, Step(w)
    PROVE  pc[w] \notin {"unpublish", "cleanup"} => kept' = kept
BY DEF Step, Unpublish, Cleanup

\* Others refuse nothing.
LEMMA KeptOthers ==
    ASSUME Others
    PROVE  kept' = kept
BY DEF Others, RebindPaths, ChangeTarget, ChangeTemp, Kill, PowerLoss, Event

\* Every step of a call keeps the types.
LEMMA StepType ==
    ASSUME TypeOK, NEW w \in Writers, Step(w)
    PROVE  TypeOK'
<1> USE WriterAssumption DEF Goto, Fail, Looks, Bound, fileVars, TypeOK, Entries, Labels
<1>0. \A label \in Labels : IOError(w, label) =>
         /\ pc' \in [Writers -> Labels]
         /\ result' \in [Writers -> {"none", "ok", "error", "unsettled", "killed"}]
  BY DEF IOError
<1>k. pc[w] \notin {"unpublish", "cleanup"} => kept' = kept
  BY KeptStep
<1>1. CASE MkdirAll(w)             BY <1>k, <1>0, <1>1 DEF MkdirAll
<1>2. CASE OpenProtected(w)        BY <1>k, <1>0, <1>2, SMTT(30) DEF OpenProtected
<1>3. CASE OpenOutput(w)           BY <1>k, <1>0, <1>3 DEF OpenOutput
<1>4. CASE validateBoundDirectories(w) BY <1>k, <1>0, <1>4, SMTT(30) DEF validateBoundDirectories, CheckOutput, CheckProtected
<1>5. CASE validateResultTarget(w) BY <1>k, <1>0, <1>5 DEF validateResultTarget, CheckTarget
<1>6. CASE CreateTemp(w)           BY <1>k, <1>0, <1>6, SMTT(30) DEF CreateTemp
<1>7. CASE WriteData(w)            BY <1>k, <1>0, <1>7 DEF WriteData
<1>8. CASE Sync(w)                 BY <1>k, <1>0, <1>8 DEF Sync
<1>9. CASE Rename(w)
  <2>1. CASE IOError(w, "cleanup") /\ Looks
    BY <1>0, <1>k, <1>9, <2>1 DEF Rename
  <2>2. CASE ~(IOError(w, "cleanup") /\ Looks)
    <3>1. /\ target' = [target EXCEPT ![boundOut[w]] = temp[boundOut[w]][w]]
          /\ temp' = [temp EXCEPT ![boundOut[w]][w] = "absent"]
          /\ UNCHANGED <<outPath, protPath, data, synced, boundOut, boundProt, result, kept>>
          /\ pc[w] = "rename" /\ pc' = [pc EXCEPT ![w] = "identity"]
      BY <1>k, <1>9, <2>2 DEF Rename
    <3>2. temp' \in [Dirs -> [Writers -> Writers \cup {"absent", "other"}]]
      BY <3>1
    <3>3. target' \in [Dirs -> Entries]
      <4>1. boundOut[w] \in Dirs => temp[boundOut[w]][w] \in Entries
        OBVIOUS
      <4> QED  BY <3>1, <4>1
    <3> QED  BY <3>1, <3>2, <3>3
  <2> QED  BY <2>1, <2>2
<1>10. CASE CheckIdentity(w)       BY <1>k, <1>0, <1>10 DEF CheckIdentity
<1>11. CASE Unpublish(w)
  <2>1. target' \in [Dirs -> Entries]
    BY <1>11 DEF Unpublish
  <2>2. kept' \in [Writers -> SUBSET {"target", "temp"}]
    BY <1>11 DEF Unpublish
  <2>3. pc' \in [Writers -> Labels]
    BY <1>11 DEF Unpublish
  <2>4. UNCHANGED <<outPath, protPath, temp, data, synced, boundOut, boundProt, result>>
    BY <1>11 DEF Unpublish
  <2> QED  BY <2>1, <2>2, <2>3, <2>4
<1>12. CASE Commit(w)              BY <1>k, <1>0, <1>12 DEF Commit
<1>13. CASE Cleanup(w)
  <2>1. temp' \in [Dirs -> [Writers -> Writers \cup {"absent", "other"}]]
    BY <1>13 DEF Cleanup
  <2>2. kept' \in [Writers -> SUBSET {"target", "temp"}]
    BY <1>13 DEF Cleanup
  <2>3. pc' \in [Writers -> Labels]
    BY <1>13 DEF Cleanup
  <2>4. UNCHANGED <<outPath, protPath, target, data, synced, boundOut, boundProt, result>>
    BY <1>13 DEF Cleanup
  <2> QED  BY <2>1, <2>2, <2>3, <2>4
<1> QED
  BY <1>1, <1>2, <1>3, <1>4, <1>5, <1>6, <1>7, <1>8, <1>9, <1>10, <1>11, <1>12, <1>13 DEF Step

\* So does everything others do.
LEMMA OthersType ==
    ASSUME TypeOK, Others
    PROVE  TypeOK'
<1> USE WriterAssumption DEF TypeOK, Entries, Labels
<1>0. kept' = kept  BY KeptOthers
<1>1. CASE RebindPaths             BY <1>0, <1>1 DEF RebindPaths, callVars
<1>2. CASE ChangeTarget            BY <1>0, <1>2 DEF ChangeTarget, callVars
<1>3. CASE ChangeTemp              BY <1>0, <1>3 DEF ChangeTemp, callVars
<1>4. ASSUME NEW v \in Writers, Kill(v) PROVE TypeOK'
  BY <1>0, <1>4 DEF Kill, fileVars
<1>5. CASE PowerLoss               BY <1>0, <1>5 DEF PowerLoss
<1> QED
  BY <1>1, <1>2, <1>3, <1>4, <1>5 DEF Others

-----------------------------------------------------------------------------
(* The inductive invariant *)

\* The two bound directories differ from the comparison on, and stay bound.
LEMMA ApartStep ==
    ASSUME TypeOK, DirectoriesApart, NEW w \in Writers, Step(w)
    PROVE  DirectoriesApart'
<1> USE WriterAssumption DEF Goto, Fail, IOError, Looks, Bound, fileVars, TypeOK, Entries, Labels, DirectoriesApart, Guarded
<1>1. CASE MkdirAll(w)             BY <1>1 DEF MkdirAll
<1>2. CASE OpenProtected(w)        BY <1>2 DEF OpenProtected
<1>3. CASE OpenOutput(w)           BY <1>3 DEF OpenOutput
<1>4. CASE validateBoundDirectories(w) BY <1>4 DEF validateBoundDirectories, CheckOutput, CheckProtected
<1>5. CASE validateResultTarget(w) BY <1>5 DEF validateResultTarget, CheckTarget
<1>6. CASE CreateTemp(w)           BY <1>6 DEF CreateTemp
<1>7. CASE WriteData(w)            BY <1>7 DEF WriteData
<1>8. CASE Sync(w)                 BY <1>8 DEF Sync
<1>9. CASE Rename(w)               BY <1>9 DEF Rename
<1>10. CASE CheckIdentity(w)       BY <1>10 DEF CheckIdentity
<1>11. CASE Unpublish(w)           BY <1>11 DEF Unpublish
<1>12. CASE Commit(w)              BY <1>12 DEF Commit
<1>13. CASE Cleanup(w)             BY <1>13 DEF Cleanup
<1> QED
  BY <1>1, <1>2, <1>3, <1>4, <1>5, <1>6, <1>7, <1>8, <1>9, <1>10, <1>11, <1>12, <1>13 DEF Step

\* Others kill writers, which leaves the guarded region, and bind nothing.
LEMMA ApartOthers ==
    ASSUME TypeOK, DirectoriesApart, Others
    PROVE  DirectoriesApart'
<1> USE WriterAssumption DEF TypeOK, Entries, Labels, DirectoriesApart, Guarded
<1>1. CASE RebindPaths             BY <1>1 DEF RebindPaths, callVars
<1>2. CASE ChangeTarget            BY <1>2 DEF ChangeTarget, callVars
<1>3. CASE ChangeTemp              BY <1>3 DEF ChangeTemp, callVars
<1>4. ASSUME NEW v \in Writers, Kill(v) PROVE DirectoriesApart'
  BY <1>4 DEF Kill, fileVars
<1>5. CASE PowerLoss               BY <1>5 DEF PowerLoss
<1> QED
  BY <1>1, <1>2, <1>3, <1>4, <1>5 DEF Others

\* What is about to be renamed is complete and on disk.
LEMMA SyncedStep ==
    ASSUME TypeOK, DataSynced, NEW w \in Writers, Step(w)
    PROVE  DataSynced'
<1> USE WriterAssumption DEF Goto, Fail, IOError, Looks, Bound, fileVars, TypeOK, Entries, Labels, DataSynced, Written
<1>1. CASE MkdirAll(w)             BY <1>1 DEF MkdirAll
<1>2. CASE OpenProtected(w)        BY <1>2 DEF OpenProtected
<1>3. CASE OpenOutput(w)           BY <1>3 DEF OpenOutput
<1>4. CASE validateBoundDirectories(w) BY <1>4 DEF validateBoundDirectories, CheckOutput, CheckProtected
<1>5. CASE validateResultTarget(w) BY <1>5 DEF validateResultTarget, CheckTarget
<1>6. CASE CreateTemp(w)           BY <1>6 DEF CreateTemp
<1>7. CASE WriteData(w)            BY <1>7 DEF WriteData
<1>8. CASE Sync(w)                 BY <1>8 DEF Sync
<1>9. CASE Rename(w)               BY <1>9 DEF Rename
<1>10. CASE CheckIdentity(w)       BY <1>10 DEF CheckIdentity
<1>11. CASE Unpublish(w)           BY <1>11 DEF Unpublish
<1>12. CASE Commit(w)              BY <1>12 DEF Commit
<1>13. CASE Cleanup(w)             BY <1>13 DEF Cleanup
<1> QED
  BY <1>1, <1>2, <1>3, <1>4, <1>5, <1>6, <1>7, <1>8, <1>9, <1>10, <1>11, <1>12, <1>13 DEF Step

\* Losing power costs only data that was not synced.
LEMMA SyncedOthers ==
    ASSUME TypeOK, DataSynced, Others
    PROVE  DataSynced'
<1> USE WriterAssumption DEF TypeOK, Entries, Labels, DataSynced, Written
<1>1. CASE RebindPaths             BY <1>1 DEF RebindPaths, callVars
<1>2. CASE ChangeTarget            BY <1>2 DEF ChangeTarget, callVars
<1>3. CASE ChangeTemp              BY <1>3 DEF ChangeTemp, callVars
<1>4. ASSUME NEW v \in Writers, Kill(v) PROVE DataSynced'
  BY <1>4 DEF Kill, fileVars
<1>5. CASE PowerLoss               BY <1>5 DEF PowerLoss
<1> QED
  BY <1>1, <1>2, <1>3, <1>4, <1>5 DEF Others

\* A candidate is where its writer created it, until the rename or the return.
LEMMA CandidateStep ==
    ASSUME TypeOK, DirectoriesApart, CandidatePlace, NEW w \in Writers, Step(w)
    PROVE  CandidatePlace'
<1> USE WriterAssumption DEF Goto, Fail, IOError, Looks, Bound, fileVars,
           TypeOK, Entries, Labels, DirectoriesApart, Guarded, CandidatePlace, NoCandidate
<1>k. pc[w] \notin {"unpublish", "cleanup"} => kept' = kept
  BY KeptStep
<1>1. CASE MkdirAll(w)             BY <1>k, <1>1, SMTT(30) DEF MkdirAll
<1>2. CASE OpenProtected(w)        BY <1>k, <1>2, SMTT(30) DEF OpenProtected
<1>3. CASE OpenOutput(w)           BY <1>k, <1>3 DEF OpenOutput
<1>4. CASE validateBoundDirectories(w) BY <1>k, <1>4 DEF validateBoundDirectories, CheckOutput, CheckProtected
<1>5. CASE validateResultTarget(w) BY <1>k, <1>5 DEF validateResultTarget, CheckTarget
<1>6. CASE CreateTemp(w)
  <2>1. CASE IOError(w, "done") /\ Looks
    BY <1>k, <1>6, <2>1 DEF CreateTemp
  <2>2. CASE ~(IOError(w, "done") /\ Looks)
    <3>1. /\ temp' = [temp EXCEPT ![boundOut[w]][w] = w]
          /\ pc[w] = "create" /\ pc' = [pc EXCEPT ![w] = "write"]
          /\ UNCHANGED <<boundOut, result, kept>>
      BY <1>k, <1>6, <2>2 DEF CreateTemp
    <3> QED  BY <3>1
  <2> QED  BY <2>1, <2>2
<1>7. CASE WriteData(w)            BY <1>k, <1>7 DEF WriteData
<1>8. CASE Sync(w)                 BY <1>k, <1>8 DEF Sync
<1>9. CASE Rename(w)
  <2>1. CASE IOError(w, "cleanup") /\ Looks
    BY <1>k, <1>9, <2>1 DEF Rename
  <2>2. CASE ~(IOError(w, "cleanup") /\ Looks)
    <3>1. /\ target' = [target EXCEPT ![boundOut[w]] = temp[boundOut[w]][w]]
          /\ temp' = [temp EXCEPT ![boundOut[w]][w] = "absent"]
          /\ UNCHANGED <<outPath, protPath, data, synced, boundOut, boundProt, result, kept>>
          /\ pc[w] = "rename" /\ pc' = [pc EXCEPT ![w] = "identity"]
      BY <1>k, <1>9, <2>2 DEF Rename
    <3>2. temp' \in [Dirs -> [Writers -> Writers \cup {"absent", "other"}]]
      BY <3>1
    <3>3. target' \in [Dirs -> Entries]
      BY <3>1, SMTT(30)
    <3> QED  BY <3>1, <3>2, <3>3
  <2> QED  BY <2>1, <2>2
<1>10. CASE CheckIdentity(w)       BY <1>k, <1>10 DEF CheckIdentity
<1>11. CASE Unpublish(w)           BY <1>k, <1>11 DEF Unpublish
<1>12. CASE Commit(w)              BY <1>k, <1>12 DEF Commit
<1>13. CASE Cleanup(w)             BY <1>k, <1>13 DEF Cleanup
<1> QED
  BY <1>1, <1>2, <1>3, <1>4, <1>5, <1>6, <1>7, <1>8, <1>9, <1>10, <1>11, <1>12, <1>13 DEF Step

\* Others lose or replace a candidate where it is.
LEMMA CandidateOthers ==
    ASSUME TypeOK, DirectoriesApart, CandidatePlace, Others
    PROVE  CandidatePlace'
<1> USE WriterAssumption DEF TypeOK, Entries, Labels, DirectoriesApart, Guarded, CandidatePlace, NoCandidate
<1>0. kept' = kept  BY KeptOthers
<1>1. CASE RebindPaths             BY <1>0, <1>1 DEF RebindPaths, callVars
<1>2. CASE ChangeTarget            BY <1>0, <1>2 DEF ChangeTarget, callVars
<1>3. CASE ChangeTemp              BY <1>0, <1>3 DEF ChangeTemp, callVars
<1>4. ASSUME NEW v \in Writers, Kill(v) PROVE CandidatePlace'
  BY <1>0, <1>4 DEF Kill, fileVars
<1>5. CASE PowerLoss               BY <1>0, <1>5 DEF PowerLoss
<1> QED
  BY <1>1, <1>2, <1>3, <1>4, <1>5 DEF Others

\* A writer's file gets under the target's name by its own rename only.
LEMMA TargetStep ==
    ASSUME TypeOK, DirectoriesApart, DataSynced, CandidatePlace, TargetPlace, NEW w \in Writers, Step(w)
    PROVE  TargetPlace'
<1> USE WriterAssumption DEF Goto, Fail, IOError, Looks, Bound, fileVars,
           TypeOK, Entries, Labels, DirectoriesApart, Guarded, DataSynced, Written,
           CandidatePlace, NoCandidate, TargetPlace, Published
<1>k. pc[w] \notin {"unpublish", "cleanup"} => kept' = kept
  BY KeptStep
<1>1. CASE MkdirAll(w)             BY <1>k, <1>1, SMTT(30) DEF MkdirAll
<1>2. CASE OpenProtected(w)        BY <1>k, <1>2, SMTT(30) DEF OpenProtected
<1>3. CASE OpenOutput(w)           BY <1>k, <1>3, SMTT(30) DEF OpenOutput
<1>4. CASE validateBoundDirectories(w) BY <1>k, <1>4 DEF validateBoundDirectories, CheckOutput, CheckProtected
<1>5. CASE validateResultTarget(w) BY <1>k, <1>5 DEF validateResultTarget, CheckTarget
<1>6. CASE CreateTemp(w)           BY <1>k, <1>6, SMTT(30) DEF CreateTemp
<1>7. CASE WriteData(w)            BY <1>k, <1>7 DEF WriteData
<1>8. CASE Sync(w)                 BY <1>k, <1>8 DEF Sync
<1>9. CASE Rename(w)               BY <1>k, <1>9 DEF Rename
<1>10. CASE CheckIdentity(w)       BY <1>k, <1>10 DEF CheckIdentity
<1>11. CASE Unpublish(w)           BY <1>k, <1>11 DEF Unpublish
<1>12. CASE Commit(w)              BY <1>k, <1>12 DEF Commit
<1>13. CASE Cleanup(w)             BY <1>k, <1>13 DEF Cleanup
<1> QED
  BY <1>1, <1>2, <1>3, <1>4, <1>5, <1>6, <1>7, <1>8, <1>9, <1>10, <1>11, <1>12, <1>13 DEF Step

\* Others put nothing of a writer's under the target's name.
LEMMA TargetOthers ==
    ASSUME TypeOK, DirectoriesApart, DataSynced, CandidatePlace, TargetPlace, Others
    PROVE  TargetPlace'
<1> USE WriterAssumption DEF TypeOK, Entries, Labels, DirectoriesApart, Guarded, DataSynced, Written,
           CandidatePlace, NoCandidate, TargetPlace, Published
<1>0. kept' = kept  BY KeptOthers
<1>1. CASE RebindPaths             BY <1>0, <1>1 DEF RebindPaths, callVars
<1>2. CASE ChangeTarget            BY <1>0, <1>2 DEF ChangeTarget, callVars
<1>3. CASE ChangeTemp              BY <1>0, <1>3 DEF ChangeTemp, callVars
<1>4. ASSUME NEW v \in Writers, Kill(v) PROVE TargetPlace'
  BY <1>0, <1>4 DEF Kill, fileVars
<1>5. CASE PowerLoss               BY <1>0, <1>5 DEF PowerLoss
<1> QED
  BY <1>1, <1>2, <1>3, <1>4, <1>5 DEF Others
-----------------------------------------------------------------------------
(* The results *)

\* The invariant holds initially and every step keeps it.
LEMMA InvInitially == Init => Inv
BY WriterAssumption
   DEF Init, Inv, TypeOK, Entries, Labels, WriterInv, DirectoriesApart, DataSynced,
       CandidatePlace, TargetPlace, Guarded, Written, NoCandidate, Published

\* Every step, of a writer or of others, keeps the inductive invariant.
LEMMA InvStep == Inv /\ [Next]_vars => Inv'
<1> SUFFICES ASSUME Inv, [Next]_vars PROVE Inv'  OBVIOUS
<1>1. CASE \E w \in Writers : Step(w)
  BY <1>1, StepType, ApartStep, SyncedStep, CandidateStep, TargetStep DEF Inv, WriterInv
<1>2. CASE Others
  BY <1>2, OthersType, ApartOthers, SyncedOthers, CandidateOthers, TargetOthers DEF Inv, WriterInv
<1>3. CASE UNCHANGED vars
  BY <1>3 DEF vars, fileVars, callVars, Inv, TypeOK, WriterInv, DirectoriesApart,
              DataSynced, CandidatePlace, TargetPlace
<1> QED  BY <1>1, <1>2, <1>3 DEF Next

\* The inductive invariant holds in every reachable state.
LEMMA AlwaysInv == Spec => []Inv
BY InvInitially, InvStep, PTL DEF Spec

\* The variables of writeResultFile and of the directories keep their types.
THEOREM ResultWriterTypeCorrect == Spec => []TypeOK
<1>1. Inv => TypeOK  BY DEF Inv
<1> QED  BY <1>1, AlwaysInv, PTL

\* However many writers, exchanges, kills and power losses: what is under the
\* target's name is never a part of a result.
THEOREM ResultNeverPartial == Spec => []TargetComplete
<1>1. Inv => TargetComplete  BY DEF Inv, WriterInv, TargetPlace, TargetComplete
<1> QED  BY <1>1, AlwaysInv, PTL

\* A call that returned an error has nothing of its own published, unless the
\* system has refused the withdrawal (output.go:140).
THEOREM ErrorWithdraws == Spec => []FailsClosed
<1>1. Inv => FailsClosed  BY DEF Inv, WriterInv, TargetPlace, FailsClosed
<1> QED  BY <1>1, AlwaysInv, PTL

\* A call that returned has removed or renamed its candidate, unless it
\* returned an error and the system has refused the removal (output.go:94).
THEOREM ReturnCleansUp == Spec => []NoLeftovers
<1>1. Inv => NoLeftovers
  BY DEF Inv, WriterInv, CandidatePlace, NoLeftovers
<1> QED  BY <1>1, AlwaysInv, PTL

\* What one step of a writer may do to its protected directory: nothing.
ProtectedStep ==
    \A w \in Writers : pc'[w] # pc[w] /\ boundProt[w] \in Dirs =>
       /\ temp'[boundProt[w]][w] = temp[boundProt[w]][w]
       /\ target'[boundProt[w]] = target[boundProt[w]]

\* A call's own steps stay out of its protected directory: every one that
\* changes an entry is taken after the comparison of the two directories.
LEMMA ProtectedKept ==
    ASSUME Inv, NEW w \in Writers, Step(w), boundProt[w] \in Dirs
    PROVE  /\ temp'[boundProt[w]][w] = temp[boundProt[w]][w]
           /\ target'[boundProt[w]] = target[boundProt[w]]
<1> USE DEF Inv, TypeOK, WriterInv, DirectoriesApart, Guarded, Labels
<1>1. CASE CreateTemp(w) \/ Cleanup(w)
  BY <1>1 DEF CreateTemp, Cleanup, Looks, fileVars
<1>2. CASE Rename(w) \/ Unpublish(w)
  BY <1>2 DEF Rename, Unpublish, Looks, fileVars
<1>3. CASE ~(CreateTemp(w) \/ Cleanup(w) \/ Rename(w) \/ Unpublish(w))
  <2>1. temp' = temp /\ target' = target
    BY <1>3 DEF Step, MkdirAll, OpenProtected, OpenOutput, validateBoundDirectories,
                CheckOutput, CheckProtected, validateResultTarget, CheckTarget,
                WriteData, Sync, CheckIdentity, Commit, Looks, fileVars
  <2> QED  BY <2>1
<1> QED  BY <1>1, <1>2, <1>3

\* A step of one writer is no step of another.
LEMMA StepIsOwn ==
    ASSUME Inv, NEW v \in Writers, Step(v), NEW w \in Writers, pc'[w] # pc[w]
    PROVE  v = w
<1>1. \E label \in Labels : pc' = [pc EXCEPT ![v] = label]
  BY DEF Labels, Step, MkdirAll, OpenProtected, OpenOutput, validateBoundDirectories,
         CheckOutput, CheckProtected, validateResultTarget, CheckTarget, CreateTemp,
         WriteData, Sync, Rename, CheckIdentity, Unpublish, Commit, Cleanup, Goto, Fail,
         IOError
<1> QED  BY <1>1 DEF Inv, TypeOK

\* No exchange of the two paths makes a writer change an entry of the
\* directory it bound as the protected baseline.
THEOREM BaselineUntouched == Spec => ProtectedUntouched
<1>1. Inv /\ [Next]_vars => [ProtectedStep]_vars
  <2> SUFFICES ASSUME Inv, Next PROVE ProtectedStep  OBVIOUS
  <2> SUFFICES ASSUME NEW w \in Writers, pc'[w] # pc[w], boundProt[w] \in Dirs
               PROVE  /\ temp'[boundProt[w]][w] = temp[boundProt[w]][w]
                      /\ target'[boundProt[w]] = target[boundProt[w]]
    BY DEF ProtectedStep
  <2>1. ASSUME NEW v \in Writers, Step(v)
        PROVE  /\ temp'[boundProt[w]][w] = temp[boundProt[w]][w]
               /\ target'[boundProt[w]] = target[boundProt[w]]
    BY <2>1, StepIsOwn, ProtectedKept
  <2>2. CASE RebindPaths \/ ChangeTarget \/ ChangeTemp
    BY <2>2 DEF RebindPaths, ChangeTarget, ChangeTemp, callVars
  <2>3. CASE (\E v \in Writers : Kill(v)) \/ PowerLoss
    BY <2>3 DEF Kill, PowerLoss, fileVars
  <2> QED  BY <2>1, <2>2, <2>3 DEF Next, Others
<1> QED  BY <1>1, AlwaysInv, PTL DEF Spec, ProtectedUntouched, ProtectedStep

-----------------------------------------------------------------------------
(* A call that is left alone *)

\* A call nobody disturbed since it started.
Undisturbed(w) == ~ghost[w].disturbed /\ boundOut[w] \in Dirs
Before(w) == target[boundOut[w]] = ghost[w].before
\* From the binding of the output directory to the rename.
Unpublished == {"out1", "prot1", "target1", "create", "write"} \cup Written \cup {"sync"}

Alone(w) ==
    /\ pc[w] \in {"mkdir", "openprot", "openout"} => boundOut[w] = Missing
    /\ pc[w] = "openout" /\ ~ghost[w].disturbed => protPath = boundProt[w]
    /\ Undisturbed(w) =>
         /\ outPath = boundOut[w] /\ protPath = boundProt[w]
         /\ temp[boundOut[w]][w] \in {w, "absent"}
         /\ pc[w] \in Unpublished => Before(w)
         /\ pc[w] \in {"identity", "out3", "prot3", "commit"} => target[boundOut[w]] = w
         /\ pc[w] = "unpublish" => result[w] = "unsettled"
         /\ pc[w] = "cleanup" => result[w] = "unsettled" \/ (result[w] = "error" /\ Before(w))
         /\ pc[w] = "done" => \/ result[w] = "unsettled"
                              \/ result[w] = "ok" /\ target[boundOut[w]] = w
                              \/ result[w] = "error" /\ Before(w)

GhostType == ghost \in [Writers -> [before : Entries, disturbed : BOOLEAN]]
AloneInv == GhostType /\ \A w \in Writers : Alone(w)

\* What a step of v leaves to another writer w.
LEMMA StepLeaves ==
    ASSUME Inv, NEW v \in Writers, Step(v), NEW w \in Writers, v # w
    PROVE  /\ pc'[w] = pc[w] /\ result'[w] = result[w]
           /\ boundOut'[w] = boundOut[w] /\ boundProt'[w] = boundProt[w]
           /\ \A d \in Dirs : temp'[d][w] = temp[d][w]
           /\ protPath' = protPath
<1> USE DEF Inv, TypeOK, Goto, Fail, IOError, Looks, Bound, fileVars
<1>1. CASE MkdirAll(v)             BY <1>1 DEF MkdirAll
<1>2. CASE OpenProtected(v)        BY <1>2 DEF OpenProtected
<1>3. CASE OpenOutput(v)           BY <1>3 DEF OpenOutput
<1>4. CASE validateBoundDirectories(v) BY <1>4 DEF validateBoundDirectories, CheckOutput, CheckProtected
<1>5. CASE validateResultTarget(v) BY <1>5 DEF validateResultTarget, CheckTarget
<1>6. CASE CreateTemp(v)           BY <1>6 DEF CreateTemp
<1>7. CASE WriteData(v)            BY <1>7 DEF WriteData
<1>8. CASE Sync(v)                 BY <1>8 DEF Sync
<1>9. CASE Rename(v)               BY <1>9 DEF Rename
<1>10. CASE CheckIdentity(v)       BY <1>10 DEF CheckIdentity
<1>11. CASE Unpublish(v)           BY <1>11 DEF Unpublish
<1>12. CASE Commit(v)              BY <1>12 DEF Commit
<1>13. CASE Cleanup(v)             BY <1>13 DEF Cleanup
<1> QED
  BY <1>1, <1>2, <1>3, <1>4, <1>5, <1>6, <1>7, <1>8, <1>9, <1>10, <1>11, <1>12, <1>13 DEF Step

\* Another writer that changes the path or a target disturbs w; one that does
\* not leaves all that w relies on.
LEMMA AloneBeside ==
    ASSUME Inv, AloneInv, NEW v \in Writers, Step(v), NEW w \in Writers, v # w
    PROVE  Alone(w)'
<1>1. /\ pc'[w] = pc[w] /\ result'[w] = result[w]
      /\ boundOut'[w] = boundOut[w] /\ boundProt'[w] = boundProt[w]
      /\ \A d \in Dirs : temp'[d][w] = temp[d][w]
      /\ protPath' = protPath
  BY StepLeaves
<1>2. ghost'[w] = [ghost[w] EXCEPT !.disturbed = @ \/ outPath' # outPath \/ target' # target]
  BY DEF Step, Records
<1>3. ghost[w] \in [before : Entries, disturbed : BOOLEAN] /\ Alone(w)
  BY DEF AloneInv, GhostType
<1>4. ghost'[w].before = ghost[w].before
  BY <1>2, <1>3
<1>5. ghost'[w].disturbed = (ghost[w].disturbed \/ outPath' # outPath \/ target' # target)
  BY <1>2, <1>3
<1>6. CASE ghost'[w].disturbed
  BY <1>1, <1>3, <1>6 DEF Alone, Undisturbed
<1>7. CASE ~ghost'[w].disturbed
  <2>1. ~ghost[w].disturbed /\ outPath' = outPath /\ target' = target
    BY <1>5, <1>7
  <2> QED  BY <1>1, <1>3, <1>4, <1>7, <2>1 DEF Alone, Undisturbed, Before
<1> QED  BY <1>6, <1>7

\* The step itself: a refusal before the rename leaves the previous result,
\* and an undisturbed call is refused by nothing after it.
LEMMA AloneOwn ==
    ASSUME Inv, AloneInv, NEW w \in Writers, Step(w)
    PROVE  Alone(w)'
<1>1. /\ ghost'[w].disturbed = ghost[w].disturbed
      /\ ghost'[w].before = IF boundOut'[w] # boundOut[w] THEN target[boundOut'[w]] ELSE ghost[w].before
  <2>1. ghost'[w] = [ghost[w] EXCEPT !.before =
                         IF boundOut'[w] # boundOut[w] THEN target[boundOut'[w]] ELSE @]
    BY DEF Step, Records
  <2>2. ghost[w] \in [before : Entries, disturbed : BOOLEAN]
    BY DEF AloneInv, GhostType
  <2> QED  BY <2>1, <2>2
<1>2. Alone(w)  BY DEF AloneInv
<1> USE WriterAssumption DEF Inv, TypeOK, Labels, WriterInv, Goto, Fail, IOError, Looks, Bound, fileVars,
           Alone, Undisturbed, Before, Unpublished, Written
<1>3. CASE MkdirAll(w)             BY <1>1, <1>2, <1>3 DEF MkdirAll
<1>4. CASE OpenProtected(w)        BY <1>1, <1>2, <1>4 DEF OpenProtected
<1>5. CASE OpenOutput(w)           BY <1>1, <1>2, <1>5 DEF OpenOutput, CandidatePlace, NoCandidate
<1>6. CASE validateBoundDirectories(w)
  BY <1>1, <1>2, <1>6 DEF validateBoundDirectories, CheckOutput, CheckProtected, DirectoriesApart, Guarded
<1>7. CASE validateResultTarget(w) BY <1>1, <1>2, <1>7 DEF validateResultTarget, CheckTarget
<1>8. CASE CreateTemp(w)           BY <1>1, <1>2, <1>8 DEF CreateTemp
<1>9. CASE WriteData(w)            BY <1>1, <1>2, <1>9 DEF WriteData
<1>10. CASE Sync(w)                BY <1>1, <1>2, <1>10 DEF Sync
<1>11. CASE Rename(w)              BY <1>1, <1>2, <1>11 DEF Rename
<1>12. CASE CheckIdentity(w)       BY <1>1, <1>2, <1>12 DEF CheckIdentity
<1>13. CASE Unpublish(w)           BY <1>1, <1>2, <1>13 DEF Unpublish
<1>14. CASE Commit(w)              BY <1>1, <1>2, <1>14 DEF Commit
<1>15. CASE Cleanup(w)             BY <1>1, <1>2, <1>15 DEF Cleanup
<1> QED
  BY <1>3, <1>4, <1>5, <1>6, <1>7, <1>8, <1>9, <1>10, <1>11, <1>12, <1>13, <1>14, <1>15 DEF Step

\* History keeps its type: what a call remembers is an entry it saw.
LEMMA GhostStep ==
    ASSUME Inv, GhostType, Next
    PROVE  GhostType'
<1>1. ASSUME NEW w \in Writers, Step(w) PROVE GhostType'
  <2>1. Inv'  BY <1>1, InvStep DEF Next
  <2>2. boundOut'[w] # boundOut[w] => target[boundOut'[w]] \in Entries
    <3>1. boundOut'[w] # boundOut[w] => OpenOutput(w)
      BY <1>1 DEF Step, MkdirAll, OpenProtected, validateBoundDirectories, CheckOutput, CheckProtected,
         validateResultTarget, CheckTarget, CreateTemp, WriteData, Sync, Rename, CheckIdentity,
         Unpublish, Commit, Cleanup, Bound
    <3> QED  BY <2>1, <3>1 DEF OpenOutput, Inv, TypeOK
  <2>3. ghost' = [v \in Writers |->
       IF v = w THEN [ghost[w] EXCEPT !.before =
                         IF boundOut'[w] # boundOut[w] THEN target[boundOut'[w]] ELSE @]
       ELSE [ghost[v] EXCEPT !.disturbed = @ \/ outPath' # outPath \/ target' # target]]
    BY <1>1 DEF Step, Records
  <2> QED  BY <2>2, <2>3 DEF GhostType
<1>2. CASE Others
  <2>1. ghost' = [w \in Writers |-> [ghost[w] EXCEPT !.disturbed = TRUE]]
    BY <1>2 DEF Others, RebindPaths, ChangeTarget, ChangeTemp, Kill, PowerLoss, Event
  <2> QED  BY <2>1 DEF GhostType
<1> QED  BY <1>1, <1>2 DEF Next

\* Everything others do counts as a disturbance of every call.
LEMMA AloneOthers ==
    ASSUME Inv, AloneInv, Others, NEW w \in Writers
    PROVE  Alone(w)'
<1>1. ghost'[w].disturbed
  BY DEF Others, RebindPaths, ChangeTarget, ChangeTemp, Kill, PowerLoss, Event, AloneInv, GhostType
<1>2. boundOut'[w] = boundOut[w] /\ (pc'[w] = pc[w] \/ pc'[w] = "done")
  <2>1. CASE RebindPaths \/ ChangeTarget \/ ChangeTemp
    BY <2>1 DEF RebindPaths, ChangeTarget, ChangeTemp, callVars
  <2>2. CASE (\E v \in Writers : Kill(v)) \/ PowerLoss
    BY <2>2 DEF Kill, PowerLoss, Inv, TypeOK
  <2> QED  BY <2>1, <2>2 DEF Others
<1>3. Alone(w)  BY DEF AloneInv
<1> QED  BY <1>1, <1>2, <1>3 DEF Alone, Undisturbed

\* Left alone, a call publishes its result where the path leads and says so,
\* or refuses and leaves the previous result, for any number of writers; an
\* I/O error after the rename is the only way in between.
THEOREM PublishesOrRefuses == Spec => []AllOrNothing
<1>1. Init => AloneInv
  BY WriterAssumption DEF Init, AloneInv, GhostType, Entries, Alone, Undisturbed, Unpublished, Written
<1>2. Inv /\ AloneInv /\ [Next]_vars => AloneInv'
  <2>1. ASSUME Inv, AloneInv, Next PROVE AloneInv'
    <3>1. GhostType'  BY <2>1, GhostStep DEF AloneInv
    <3>2. ASSUME NEW w \in Writers PROVE Alone(w)'
      BY <2>1, AloneBeside, AloneOwn, AloneOthers DEF Next
    <3> QED  BY <3>1, <3>2 DEF AloneInv
  <2>2. ASSUME AloneInv, UNCHANGED vars PROVE AloneInv'
    BY <2>2 DEF vars, fileVars, callVars, AloneInv, GhostType, Alone, Undisturbed, Before
  <2> QED  BY <2>1, <2>2
<1>3. Inv /\ AloneInv => AllOrNothing
  BY DEF Inv, TypeOK, AloneInv, Alone, Undisturbed, Before, AllOrNothing
<1> QED  BY <1>1, <1>2, <1>3, AlwaysInv, PTL DEF Spec

=============================================================================
