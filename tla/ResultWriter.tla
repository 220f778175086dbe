---------------------------- MODULE ResultWriter ----------------------------
(***************************************************************************)
(* internal/benchmark/output.go writeResultFile: a benchmark result is     *)
(* written to a temporary file in the output directory, synced and renamed *)
(* over the target, through handles bound once to the output directory and *)
(* to the protected baseline directory.                                    *)
(*                                                                         *)
(* Several writers may run at once.  Meanwhile others may exchange what    *)
(* the two paths name, change the target's entry, or lose or replace a     *)
(* temporary file; a writer may be killed and the machine may lose power.  *)
(* A directory is an identity (os.SameFile); of its entries only the       *)
(* target's name and the temporary names matter.  Temporary names are      *)
(* random (128 bits), hence one per writer.                                *)
(***************************************************************************)
EXTENDS Naturals, FiniteSets

CONSTANTS Writers,    \* concurrent calls; also the files they create
          Dirs,       \* directory identities
          Missing,    \* a path that names nothing
          MaxEvents   \* bound: things others do

ASSUME WriterAssumption ==
    /\ MaxEvents \in Nat
    /\ Missing \notin Dirs
    /\ Writers \cap {"absent", "old", "other", "link", "dir"} = {}

VARIABLES outPath,    \* what the output directory's path names
          protPath,   \* what the protected directory's path names
          target,     \* per directory: the entry under the output name
          temp,       \* per directory and writer: the temporary entry
          data,       \* per writer: what its file holds
          synced,     \* per writer: the file's data is on disk
          pc, boundOut, boundProt, result,
          kept,       \* per writer: the removals the system has refused it; the
                      \* code drops these errors, only the properties look here
          events,     \* things others have done
          ghost       \* history, read by the properties only

fileVars == <<outPath, protPath, target, temp, data, synced>>
callVars == <<pc, boundOut, boundProt, result>>
vars == <<fileVars, callVars, kept, events, ghost>>

Entries == Writers \cup {"absent", "old", "other", "link", "dir"}

Init ==
    /\ outPath \in Dirs \cup {Missing}
    /\ protPath \in Dirs \cup {Missing}
    /\ target \in [Dirs -> {"absent", "old"}]
    /\ temp = [d \in Dirs |-> [w \in Writers |-> "absent"]]
    /\ data = [w \in Writers |-> "empty"]
    /\ synced = [w \in Writers |-> FALSE]
    /\ pc = [w \in Writers |-> "mkdir"]
    /\ boundOut = [w \in Writers |-> Missing]
    /\ boundProt = [w \in Writers |-> Missing]
    /\ result = [w \in Writers |-> "none"]
    /\ kept = [w \in Writers |-> {}]
    /\ events = 0
    /\ ghost = [w \in Writers |-> [before |-> "absent", disturbed |-> FALSE]]

-----------------------------------------------------------------------------
(* Steps of one call *)

Goto(w, label) == pc' = [pc EXCEPT ![w] = label] /\ UNCHANGED result

\* An early return.  Once the temporary file exists, the deferred function
\* removes it first ("cleanup").
Fail(w, label) == /\ pc' = [pc EXCEPT ![w] = label]
                  /\ result' = [result EXCEPT ![w] = "error"]

\* Any call of the system may fail by itself.  After the rename such an error
\* is returned with the result published: "unsettled".
IOError(w, label) ==
    /\ pc' = [pc EXCEPT ![w] = label]
    /\ result' = [result EXCEPT ![w] =
                     IF pc[w] \in {"identity", "out3", "prot3", "commit"} THEN "unsettled" ELSE "error"]

Bound == UNCHANGED <<boundOut, boundProt>>
Looks == UNCHANGED fileVars

\* A step of w may disturb the calls of the others.
Records(w) ==
    ghost' = [v \in Writers |->
       IF v = w THEN [ghost[w] EXCEPT !.before =
                         IF boundOut'[w] # boundOut[w] THEN target[boundOut'[w]] ELSE @]
       ELSE [ghost[v] EXCEPT !.disturbed = @ \/ outPath' # outPath \/ target' # target]]

\* os.MkdirAll of the parent: a missing path names a new directory then.
MkdirAll(w) ==
    /\ pc[w] = "mkdir"
    /\ \/ /\ outPath # Missing
          /\ Goto(w, "openprot") /\ Looks
       \/ /\ outPath = Missing
          /\ \E d \in Dirs : /\ d # protPath /\ target[d] = "absent"
                             /\ \A v \in Writers : boundOut[v] # d /\ boundProt[v] # d
                             /\ outPath' = d
          /\ Goto(w, "openprot")
          /\ UNCHANGED <<protPath, target, temp, data, synced>>
       \/ IOError(w, "done") /\ Looks
    /\ Bound

\* os.OpenRoot of the protected directory, then of the output directory.
OpenProtected(w) ==
    /\ pc[w] = "openprot"
    /\ \/ IOError(w, "done") /\ UNCHANGED boundProt
       \/ /\ protPath # Missing
          /\ boundProt' = [boundProt EXCEPT ![w] = protPath]
          /\ Goto(w, "openout")
    /\ Looks /\ UNCHANGED boundOut

OpenOutput(w) ==
    /\ pc[w] = "openout"
    /\ \/ IOError(w, "done") /\ UNCHANGED boundOut
       \/ /\ outPath # Missing
          /\ boundOut' = [boundOut EXCEPT ![w] = outPath]
          /\ Goto(w, "out1")
    /\ Looks /\ UNCHANGED boundProt

\* validateBoundDirectories, one os.Stat at a time; it is called three times.
CheckOutput(w, label, next, failed) ==
    /\ pc[w] = label
    /\ \/ IF outPath = boundOut[w] THEN Goto(w, next) ELSE Fail(w, failed)
       \/ IOError(w, failed)
    /\ Looks /\ Bound

CheckProtected(w, label, next, failed) ==
    /\ pc[w] = label
    /\ \/ IF protPath = boundProt[w] /\ boundOut[w] # boundProt[w]
          THEN Goto(w, next) ELSE Fail(w, failed)
       \/ IOError(w, failed)
    /\ Looks /\ Bound

\* Mutant: the first validation forgets to compare the two directories.
BoundDirectoriesLate(w) ==
    \/ CheckOutput(w, "out1", "prot1", "done")
    \/ pc[w] = "prot1" /\ Goto(w, "target1") /\ Looks /\ Bound
    \/ CheckOutput(w, "out2", "prot2", "cleanup")
    \/ CheckProtected(w, "prot2", "rename", "cleanup")
    \/ CheckOutput(w, "out3", "prot3", "unpublish")
    \/ CheckProtected(w, "prot3", "commit", "unpublish")

\* Mutant: a change found after the rename does not withdraw the result.
BoundDirectoriesKeepTarget(w) ==
    \/ CheckOutput(w, "out1", "prot1", "done")
    \/ CheckProtected(w, "prot1", "target1", "done")
    \/ CheckOutput(w, "out2", "prot2", "cleanup")
    \/ CheckProtected(w, "prot2", "rename", "cleanup")
    \/ CheckOutput(w, "out3", "prot3", "cleanup")
    \/ CheckProtected(w, "prot3", "commit", "cleanup")

validateBoundDirectories(w) ==
    \/ CheckOutput(w, "out1", "prot1", "done")
    \/ CheckProtected(w, "prot1", "target1", "done")
    \/ CheckOutput(w, "out2", "prot2", "cleanup")
    \/ CheckProtected(w, "prot2", "rename", "cleanup")
    \/ CheckOutput(w, "out3", "prot3", "unpublish")
    \/ CheckProtected(w, "prot3", "commit", "unpublish")

\* Lstat of the target: absent or a regular file, or the call fails.
CheckTarget(w, label, next, failed) ==
    /\ pc[w] = label
    /\ \/ IF target[boundOut[w]] \in {"link", "dir"} THEN Fail(w, failed) ELSE Goto(w, next)
       \/ IOError(w, failed)
    /\ Looks /\ Bound

validateResultTarget(w) ==
    \/ CheckTarget(w, "target1", "create", "done")
    \/ CheckTarget(w, "target2", "out2", "cleanup")

\* OpenFile with O_EXCL under the temporary name.
CreateTemp(w) ==
    /\ pc[w] = "create"
    /\ \/ /\ temp' = [temp EXCEPT ![boundOut[w]][w] = w]
          /\ Goto(w, "write")
          /\ UNCHANGED <<outPath, protPath, target, data, synced>>
       \/ IOError(w, "done") /\ Looks
    /\ Bound

\* A failed or short write may leave a part of the data.
WriteData(w) ==
    /\ pc[w] = "write"
    /\ \/ data' = [data EXCEPT ![w] = "full"] /\ Goto(w, "sync")
       \/ data' = [data EXCEPT ![w] = "partial"] /\ IOError(w, "cleanup")
    /\ UNCHANGED <<outPath, protPath, target, temp, synced>>
    /\ Bound

\* Mutant: the data is left to the page cache.
SyncOmitted(w) ==
    /\ pc[w] = "sync"
    /\ Goto(w, "target2")
    /\ Looks /\ Bound

Sync(w) ==
    /\ pc[w] = "sync"
    /\ \/ /\ synced' = [synced EXCEPT ![w] = TRUE]
          /\ Goto(w, "target2")
          /\ UNCHANGED <<outPath, protPath, target, temp, data>>
       \/ IOError(w, "cleanup") /\ Looks
    /\ Bound

\* Mutant: the target is removed to make room for the result.
RenameRemovesFirst(w) ==
    /\ pc[w] = "rename"
    /\ LET d == boundOut[w]
       IN \/ /\ temp[d][w] # "absent" /\ target[d] # "dir"
             /\ target' = [target EXCEPT ![d] = temp[d][w]]
             /\ temp' = [temp EXCEPT ![d][w] = "absent"]
             /\ Goto(w, "identity")
             /\ UNCHANGED <<outPath, protPath, data, synced>>
          \/ /\ target' = [target EXCEPT ![d] = "absent"]
             /\ Fail(w, "cleanup")
             /\ UNCHANGED <<outPath, protPath, temp, data, synced>>
    /\ Bound

\* Mutant: the rename exchanges the two entries instead of replacing one.
RenameExchanges(w) ==
    /\ pc[w] = "rename"
    /\ LET d == boundOut[w]
       IN \/ /\ temp[d][w] # "absent" /\ target[d] # "dir"
             /\ target' = [target EXCEPT ![d] = temp[d][w]]
             /\ temp' = [temp EXCEPT ![d][w] = target[d]]
             /\ Goto(w, "identity")
             /\ UNCHANGED <<outPath, protPath, data, synced>>
          \/ IOError(w, "cleanup") /\ Looks
    /\ Bound

\* The handle-relative rename replaces whatever the target is by now, unless
\* it is a directory; it fails when the candidate is gone or on an I/O error.
Rename(w) ==
    /\ pc[w] = "rename"
    /\ LET d == boundOut[w]
       IN \/ /\ temp[d][w] # "absent" /\ target[d] # "dir"
             /\ target' = [target EXCEPT ![d] = temp[d][w]]
             /\ temp' = [temp EXCEPT ![d][w] = "absent"]
             /\ Goto(w, "identity")
             /\ UNCHANGED <<outPath, protPath, data, synced>>
          \/ IOError(w, "cleanup") /\ Looks
    /\ Bound

\* The published entry must be the file this call wrote.
CheckIdentity(w) ==
    /\ pc[w] = "identity"
    /\ \/ IF target[boundOut[w]] = w THEN Goto(w, "out3") ELSE Fail(w, "cleanup")
       \/ IOError(w, "cleanup")
    /\ Looks /\ Bound

\* outputRoot.Remove(outputName) after a failed last validation.  Remove takes
\* whatever has the name by now.  It may fail (a directory that is not empty,
\* an error of the system), and nobody is told; that there is nothing to remove
\* is no loss.
Unpublish(w) ==
    /\ pc[w] = "unpublish"
    /\ \/ target' = [target EXCEPT ![boundOut[w]] = "absent"] /\ UNCHANGED kept
       \/ /\ target[boundOut[w]] # "absent"
          /\ target' = target /\ kept' = [kept EXCEPT ![w] = @ \cup {"target"}]
    /\ pc' = [pc EXCEPT ![w] = "cleanup"]
    /\ UNCHANGED <<outPath, protPath, temp, data, synced, result>>
    /\ Bound

\* Afterwards only closing the handles can fail.
Commit(w) ==
    /\ pc[w] = "commit"
    /\ \/ /\ pc' = [pc EXCEPT ![w] = "done"]
          /\ result' = [result EXCEPT ![w] = "ok"]
       \/ IOError(w, "done")
    /\ Looks /\ Bound

\* Mutant: the candidate stays behind when the call fails.
CleanupOmitted(w) ==
    /\ pc[w] = "cleanup"
    /\ pc' = [pc EXCEPT ![w] = "done"]
    /\ UNCHANGED <<fileVars, result, kept>>
    /\ Bound

\* The deferred function, with committed = false: outputRoot.Remove of the
\* candidate, whose error is dropped as well.
Cleanup(w) ==
    /\ pc[w] = "cleanup"
    /\ \/ temp' = [temp EXCEPT ![boundOut[w]][w] = "absent"] /\ UNCHANGED kept
       \/ /\ temp[boundOut[w]][w] # "absent"
          /\ temp' = temp /\ kept' = [kept EXCEPT ![w] = @ \cup {"temp"}]
    /\ pc' = [pc EXCEPT ![w] = "done"]
    /\ UNCHANGED <<outPath, protPath, target, data, synced, result>>
    /\ Bound

Step(w) ==
    /\ \/ /\ \/ MkdirAll(w) \/ OpenProtected(w) \/ OpenOutput(w)
             \/ validateBoundDirectories(w) \/ validateResultTarget(w)
             \/ CreateTemp(w) \/ WriteData(w) \/ Sync(w) \/ Rename(w)
             \/ CheckIdentity(w) \/ Commit(w)
          /\ UNCHANGED kept
       \/ Unpublish(w) \/ Cleanup(w)
    /\ Records(w)
    /\ UNCHANGED events

-----------------------------------------------------------------------------
(* The rest of the machine *)

Event == /\ events < MaxEvents
         /\ events' = events + 1
         /\ UNCHANGED kept
         /\ ghost' = [w \in Writers |-> [ghost[w] EXCEPT !.disturbed = TRUE]]

\* A directory is moved away, or its path becomes a link to another one.
RebindPaths ==
    /\ \/ outPath' \in (Dirs \cup {Missing}) \ {outPath} /\ UNCHANGED protPath
       \/ protPath' \in (Dirs \cup {Missing}) \ {protPath} /\ UNCHANGED outPath
    /\ UNCHANGED <<target, temp, data, synced, callVars>>
    /\ Event

ChangeTarget ==
    /\ \E d \in Dirs : \E e \in {"absent", "other", "link", "dir"} \ {target[d]} :
          target' = [target EXCEPT ![d] = e]
    /\ UNCHANGED <<outPath, protPath, temp, data, synced, callVars>>
    /\ Event

ChangeTemp ==
    /\ \E d \in Dirs, w \in Writers : \E e \in {"absent", "other"} :
          /\ temp[d][w] \notin {"absent", e}
          /\ temp' = [temp EXCEPT ![d][w] = e]
    /\ UNCHANGED <<outPath, protPath, target, data, synced, callVars>>
    /\ Event

Kill(w) ==
    /\ pc[w] # "done"
    /\ pc' = [pc EXCEPT ![w] = "done"]
    /\ result' = [result EXCEPT ![w] = "killed"]
    /\ UNCHANGED <<fileVars, boundOut, boundProt>>
    /\ Event

\* Every process stops, and data that was not synced may be lost.  Directory
\* entries are as durable as the journal of the file system makes them.
PowerLoss ==
    /\ \E w \in Writers : pc[w] # "done"
    /\ pc' = [w \in Writers |-> "done"]
    /\ result' = [w \in Writers |-> IF pc[w] = "done" THEN result[w] ELSE "killed"]
    /\ data' = [w \in Writers |-> IF synced[w] THEN data[w] ELSE "partial"]
    /\ UNCHANGED <<outPath, protPath, target, temp, synced, boundOut, boundProt>>
    /\ Event

Others == RebindPaths \/ ChangeTarget \/ ChangeTemp \/ (\E w \in Writers : Kill(w)) \/ PowerLoss

Next == (\E w \in Writers : Step(w)) \/ Others

Spec == Init /\ [][Next]_vars

-----------------------------------------------------------------------------
(* Properties *)

Labels == {"mkdir", "openprot", "openout", "out1", "prot1", "target1", "create", "write",
           "sync", "target2", "out2", "prot2", "rename", "identity", "out3", "prot3",
           "unpublish", "commit", "cleanup", "done"}

TypeOK ==
    /\ outPath \in Dirs \cup {Missing}
    /\ protPath \in Dirs \cup {Missing}
    /\ target \in [Dirs -> Entries]
    /\ temp \in [Dirs -> [Writers -> Writers \cup {"absent", "other"}]]
    /\ data \in [Writers -> {"empty", "partial", "full"}]
    /\ synced \in [Writers -> BOOLEAN]
    /\ pc \in [Writers -> Labels]
    /\ boundOut \in [Writers -> Dirs \cup {Missing}]
    /\ boundProt \in [Writers -> Dirs \cup {Missing}]
    /\ result \in [Writers -> {"none", "ok", "error", "unsettled", "killed"}]
    /\ kept \in [Writers -> SUBSET {"target", "temp"}]

\* Whoever opens the result sees what was there before or a whole result,
\* never a part of one: not while a writer works, not after it was killed,
\* and not after a power loss (output.go:108 Sync before output.go:123 Rename).
TargetComplete == \A d \in Dirs, w \in Writers : target[d] = w => data[w] = "full"

\* A writer changes no entry of the directory it bound as protected, however
\* the two paths are exchanged around it ("cannot write through an alias into
\* a versioned baseline", benchmarks/README.md).
ProtectedUntouched ==
    [][\A w \in Writers : pc'[w] # pc[w] /\ boundProt[w] \in Dirs =>
          /\ temp'[boundProt[w]][w] = temp[boundProt[w]][w]
          /\ target'[boundProt[w]] = target[boundProt[w]]]_vars

\* A call that refuses has published nothing that is still there, also when it
\* finds out after the rename: "fail-closed cleanup through the bound root"
\* (benchmarks/README.md).  An I/O error after the rename is not a refusal, and
\* when the system refuses the withdrawal itself (output.go:140 drops that
\* error) the result stays: the one case in which a refusal is not closed.
FailsClosed ==
    \A w \in Writers, d \in Dirs :
       pc[w] = "done" /\ result[w] = "error" /\ "target" \notin kept[w] => target[d] # w

\* No return leaves the candidate behind: only a killed writer does, or one
\* whose Remove of the candidate the system refuses (output.go:94 drops that
\* error).  That is before the rename only: nothing is left of a candidate then.
NoLeftovers ==
    \A w \in Writers, d \in Dirs :
       pc[w] = "done" /\ temp[d][w] # "absent" =>
          result[w] = "killed" \/ ("temp" \in kept[w] /\ result[w] = "error")

\* Left alone, a call either publishes its result where the path leads and
\* says so, or leaves the previous result as it was; only an I/O error after
\* the rename leaves that open.
AllOrNothing ==
    \A w \in Writers :
       pc[w] = "done" /\ result[w] # "unsettled" /\ ~ghost[w].disturbed /\ boundOut[w] # Missing =>
       \/ result[w] = "ok" /\ outPath = boundOut[w] /\ target[outPath] = w
       \/ result[w] = "error" /\ target[boundOut[w]] = ghost[w].before
=============================================================================
