----------------------- MODULE LocalFileSystemProofs ------------------------
(***************************************************************************)
(* For any number of processes on one root, every request and every tree   *)
(* to start with: nothing is overwritten silently, a move acts on what it  *)
(* has validated, a failed call leaves no trace, one of several creators   *)
(* wins, the root stays a tree, and a call that nothing disturbs does what *)
(* FileSystemContract says.                                                *)
(*                                                                         *)
(* Most of these compare an inode that was seen some calls ago with the    *)
(* tree of now, while other processes go on.  FSInv says for a process in  *)
(* the middle of an operation whose inode it holds (Owned, OneMaker), what *)
(* it may still believe of its last look (Validated), what it has changed  *)
(* so far (Traced) and which new name is its own (Exclusive).  The lemmas  *)
(* come in the same order for each action: what the step of p does, then   *)
(* what it leaves of the invariant of p and of the other processes.        *)
(*                                                                         *)
(* The contract compares the tree before a call with the tree after it.    *)
(* StageInv says for every label of a call what has been found out of the  *)
(* first tree, and how the present one differs from it.                    *)
(***************************************************************************)
EXTENDS LocalFileSystem, FileTreeProofs

\* What a process remembers, and what its history holds.
Locals == [src : Nat, dst : Nat, entries : SUBSET Paths, names : SUBSET Paths]
History == [before : [Paths -> Nat] \X Seq(Node), disturbed : BOOLEAN,
            late : SUBSET {"src", "dst"}, touched : BOOLEAN, made : SUBSET Nat]

\* The variables that have one value per process.
Shapes ==
    /\ op \in [Procs -> Requests \cup {NoOp}]
    /\ pc = [p \in Procs |-> pc[p]]
    /\ result = [p \in Procs |-> result[p]]
    /\ loc \in [Procs -> Locals]
    /\ ghost \in [Procs -> History]

-----------------------------------------------------------------------------
(* One process steps *)

\* The arguments of a request have their types.
LEMMA Requested ==
    ASSUME Shapes, NEW p \in Procs
    PROVE  /\ op[p].path \in Paths /\ op[p].target \in Paths
           /\ op[p].content \in Seq(Bytes)
           /\ op[p].overwrite \in BOOLEAN /\ op[p].recursive \in BOOLEAN
<1>1. CASE op[p] \in Requests
  BY <1>1, RequestsAssumption
<1>2. CASE op[p] = NoOp
  BY <1>2, PathsAssumption DEF NoOp, Root
<1> QED  BY <1>1, <1>2 DEF Shapes

\* A note that p makes of an identity is all that changes in loc.
LEMMA Remembered ==
    ASSUME Shapes, NEW p \in Procs, NEW f \in {"src", "dst"}, NEW v \in Nat, Remember(p, f, v)
    PROVE  /\ loc' \in [Procs -> Locals]
           /\ \A q \in Procs \ {p} : loc'[q] = loc[q]
           /\ loc'[p].src = IF f = "src" THEN v ELSE loc[p].src
           /\ loc'[p].dst = IF f = "dst" THEN v ELSE loc[p].dst
<1>1. CASE f = "src"
  BY <1>1 DEF Shapes, Remember, Locals
<1>2. CASE f = "dst"
  BY <1>2 DEF Shapes, Remember, Locals
<1> QED  BY <1>1, <1>2

\* The history of p grows by the step, that of the others by its effect on them.
LEMMA Recorded ==
    ASSUME Shapes, TreeRange, NEW p \in Procs, Record(p), inode' \in Seq(Node), Len(inode) <= Len(inode')
    PROVE  /\ ghost' \in [Procs -> History]
           /\ \A q \in Procs \ {p} :
                /\ ghost'[q].touched = ghost[q].touched /\ ghost'[q].made = ghost[q].made
                /\ \/ UNCHANGED <<tree, inode>> /\ ghost'[q].late = ghost[q].late
                   \/ ghost'[q].late = {"src", "dst"}
           /\ ghost'[p].touched = (ghost[p].touched \/ tree' # tree \/ inode' # inode)
           /\ ghost'[p].late = ghost[p].late \ Settled(pc[p])
           /\ ghost'[p].made = ghost[p].made \cup (Len(inode) + 1)..Len(inode')
<1> DEFINE changed == tree' # tree \/ inode' # inode
           new == (Len(inode) + 1)..Len(inode')
           own == [ghost[p] EXCEPT !.touched = @ \/ changed, !.late = @ \ Settled(pc[p]), !.made = @ \cup new]
           other(q) == [ghost[q] EXCEPT !.disturbed = @ \/ changed,
                                        !.late = IF changed THEN {"src", "dst"} ELSE @]
<1>1. new \subseteq Nat
  BY LenProperties DEF TreeRange
<1>2. changed \in BOOLEAN
  OBVIOUS
<1>3. ghost' = [q \in Procs |-> IF q = p THEN own ELSE other(q)]
  BY DEF Record
<1>4. \A q \in Procs : ghost[q] \in History
  BY DEF Shapes
<1> HIDE DEF changed, new
<1>5. /\ own \in History
      /\ own.touched = (ghost[p].touched \/ changed)
      /\ own.late = ghost[p].late \ Settled(pc[p])
      /\ own.made = ghost[p].made \cup new
  BY <1>1, <1>2, <1>4 DEF History
<1>6. ASSUME NEW q \in Procs
      PROVE  /\ other(q) \in History
             /\ other(q).touched = ghost[q].touched /\ other(q).made = ghost[q].made
             /\ other(q).late = IF changed THEN {"src", "dst"} ELSE ghost[q].late
  BY <1>2, <1>4 DEF History
<1> HIDE DEF own, other
<1>7. ghost' \in [Procs -> History]
  BY <1>3, <1>5, <1>6
<1>8. ghost'[p] = own /\ \A q \in Procs \ {p} : ghost'[q] = other(q)
  BY <1>3
<1> QED  BY <1>5, <1>6, <1>7, <1>8 DEF changed, new

-----------------------------------------------------------------------------
(* The effect of a step of p, action by action *)

\* Only p moves, in the code and in what it remembers.
Runs(p) == /\ pc' = [q \in Procs |-> pc'[q]] /\ result' = [q \in Procs |-> result'[q]]
            /\ \A q \in Procs \ {p} : pc'[q] = pc[q] /\ result'[q] = result[q]
Notes(p) == /\ loc' \in [Procs -> Locals]
            /\ \A q \in Procs \ {p} : loc'[q] = loc[q]

\* p goes on, and nobody else.
LEMMA GotoEffect ==
    ASSUME Shapes, NEW p \in Procs, NEW label, Goto(p, label)
    PROVE  Runs(p) /\ pc'[p] = label
BY DEF Shapes, Goto, Runs

\* p returns, and nobody else.
LEMMA ReturnEffect ==
    ASSUME Shapes, NEW p \in Procs, NEW r, Return(p, r)
    PROVE  Runs(p) /\ pc'[p] = "idle" /\ result'[p] = r
BY DEF Shapes, Return, Runs

\* What a result says of its error.
LEMMA FailedMeans ==
    ASSUME NEW e
    PROVE  Failed(e).err = e /\ Ok.err = "ok" /\ Ok.created = FALSE
BY DEF Failed, Ok, NoResult

\* A call that fails ends the operation with an error.
LEMMA CheckedEffect ==
    ASSUME Shapes, NEW p \in Procs, NEW e, NEW label, Checked(p, e, label)
    PROVE  /\ Runs(p)
           /\ pc'[p] = label \/ (pc'[p] = "idle" /\ result'[p].err # "ok")
           /\ e # "ok" => pc'[p] = "idle"
<1>1. CASE e = "ok"
  BY <1>1, GotoEffect DEF Checked
<1>2. CASE e # "ok"
  BY <1>2, ReturnEffect, FailedMeans DEF Checked
<1> QED  BY <1>1, <1>2

\* stat(2) succeeds exactly for what exists.
LEMMA LookupMeans ==
    ASSUME NEW q
    PROVE  (Lookup(q) = "ok" <=> Exists(q)) /\ (NotFound(Lookup(q)) = "ok" <=> Exists(q))
BY DEF Lookup, NotFound, Exists

\* The steps that only look at the file system.
LookAction(p) ==
    \/ Resolve(p) \/ ReadStat(p) \/ ReadFile(p) \/ Stat(p) \/ ListReadDir(p) \/ ListEntry(p)
    \/ WriteStat(p) \/ CopyStat(p) \/ CopyTarget(p) \/ CopyOpenSource(p) \/ MkdirStat(p)
    \/ DeleteStat(p) \/ DeleteCount(p) \/ DeleteReadDir(p)
    \/ MoveStatSource(p) \/ MoveStatTarget(p) \/ MoveCheck(p) \/ MoveRevalidateSource(p)
    \/ MoveRevalidateTarget(p) \/ MoveLstat(p)

\* Where such a step may lead, and what p has seen when it gets there.
Looked(p) ==
    /\ UNCHANGED fsVars
    /\ pc[p] \notin {"idle", "open", "transfer"} /\ pc'[p] # "transfer"
    /\ loc'[p].src \in {loc[p].src, tree[op[p].path]}
    /\ loc'[p].dst \in {loc[p].dst, tree[op[p].target]}
    /\ pc'[p] = "idle" /\ result'[p].err = "ok" =>
         op[p].kind \in {"read", "stat", "list"} \/ (op[p].kind = "mkdir" /\ ~result'[p].created)
    /\ pc'[p] = "open" =>
         \/ op[p].kind = "write"
         \/ op[p].kind = "copy" /\ Exists(op[p].path) /\ loc'[p].src = tree[op[p].path]
    /\ pc'[p] = "count" => op[p].recursive
    /\ pc'[p] = "removeall" => pc[p] = "count"
    /\ pc'[p] \in {"revalidatesource", "revalidatetarget", "lstat", "rename"} => loc'[p] = loc[p]
    /\ pc'[p] = "revalidatesource" =>
         (loc[p].dst # 0 => op[p].overwrite /\ inode[loc[p].dst].kind # "dir")
    /\ pc'[p] = "revalidatetarget" => pc[p] = "revalidatesource" /\ tree[op[p].path] = loc[p].src
    /\ pc'[p] = "lstat" => pc[p] = "revalidatetarget" /\ tree[op[p].target] = loc[p].dst
    /\ pc'[p] = "rename" => pc[p] = "lstat"

\* A step that looks changes no file, and leads where Looked says.
LEMMA LookEffect ==
    ASSUME Shapes, TreeRange, NEW p \in Procs, LookAction(p)
    PROVE  Runs(p) /\ Notes(p) /\ Looked(p)
<1>1. /\ op[p].path \in Paths /\ op[p].target \in Paths
      /\ op[p].overwrite \in BOOLEAN /\ op[p].recursive \in BOOLEAN
  BY Requested
<1>2. tree[op[p].path] \in Nat /\ tree[op[p].target] \in Nat
  BY <1>1, LenProperties DEF TreeRange
<1>3. UNCHANGED loc => Notes(p) /\ loc'[p] = loc[p]
  BY DEF Shapes, Notes
<1> USE DEF Looked, At, Looks, Keeps, fsVars, Return, Failed, Ok, NoResult, Checked, Goto
<1>4. CASE Resolve(p)
  BY <1>3, <1>4 DEF Resolve, Shapes, Runs
<1>5. CASE ReadStat(p)
  BY <1>3, <1>5 DEF ReadStat, Shapes, Runs
<1>6. CASE ReadFile(p)
  BY <1>3, <1>6 DEF ReadFile, Shapes, Runs
<1>7. CASE Stat(p)
  BY <1>3, <1>7 DEF Stat, Shapes, Runs
<1>8. CASE WriteStat(p)
  <2> DEFINE e == TargetPolicy(op[p].path, op[p].overwrite, TRUE)
  <2>1. Checked(p, e, "open")
    BY <1>8 DEF WriteStat
  <2> HIDE DEF e, Checked
  <2>2. Runs(p) /\ (pc'[p] = "open" \/ (pc'[p] = "idle" /\ result'[p].err # "ok"))
    BY <2>1, CheckedEffect
  <2> QED  BY <1>3, <1>8, <2>2 DEF WriteStat
<1>9. CASE CopyStat(p)
  BY <1>3, <1>9, LookupMeans, SMTT(30) DEF CopyStat, Shapes, Runs
<1>10. CASE CopyTarget(p)
  <2> DEFINE e == TargetPolicy(op[p].target, op[p].overwrite, FALSE)
  <2>1. Checked(p, e, "opensource")
    BY <1>10 DEF CopyTarget
  <2> HIDE DEF e, Checked
  <2>2. Runs(p) /\ (pc'[p] = "opensource" \/ (pc'[p] = "idle" /\ result'[p].err # "ok"))
    BY <2>1, CheckedEffect
  <2> QED  BY <1>3, <1>10, <2>2 DEF CopyTarget
<1>11. CASE MkdirStat(p)
  BY <1>3, <1>11 DEF MkdirStat, Shapes, Runs
<1>12. CASE DeleteStat(p)
  BY <1>1, <1>3, <1>12 DEF DeleteStat, Shapes, Runs
<1>13. CASE DeleteCount(p) \/ DeleteReadDir(p)
  BY <1>3, <1>13 DEF DeleteCount, DeleteReadDir, Shapes, Runs
<1>14. CASE MoveCheck(p)
  BY <1>1, <1>3, <1>14, LookupMeans DEF MoveCheck, Shapes, Runs
<1>15. CASE MoveRevalidateSource(p)
  BY <1>3, <1>15, LookupMeans DEF MoveRevalidateSource, Shapes, Runs
<1>16. CASE MoveRevalidateTarget(p)
  BY <1>3, <1>16 DEF MoveRevalidateTarget, Shapes, Runs
<1>17. CASE MoveLstat(p)
  BY <1>3, <1>17 DEF MoveLstat, Shapes, Runs
<1>18. CASE ListReadDir(p)
  <2>1. Runs(p) /\ pc'[p] \in {"idle", "entries"}
    BY <1>18 DEF ListReadDir, Shapes, Runs
  <2>2. CASE Remember(p, "entries", Children(op[p].path))
    <3>1. Children(op[p].path) \in SUBSET Paths
      BY DEF Children, Below
    <3>2. Notes(p) /\ loc'[p].src = loc[p].src /\ loc'[p].dst = loc[p].dst
      BY <2>2, <3>1 DEF Remember, Notes, Locals, Shapes
    <3> QED  BY <1>18, <2>1, <3>2 DEF ListReadDir
  <2>3. CASE UNCHANGED loc
    BY <1>3, <1>18, <2>1, <2>3 DEF ListReadDir
  <2> QED  BY <1>18, <2>2, <2>3 DEF ListReadDir
<1>19. CASE ListEntry(p)
  <2>1. Runs(p) /\ pc'[p] \in {"idle", "entries"}
    BY <1>19 DEF ListEntry, Shapes, Runs
  <2>2. Notes(p) /\ loc'[p].src = loc[p].src /\ loc'[p].dst = loc[p].dst
    <3>1. CASE UNCHANGED loc
      BY <1>3, <3>1
    <3>2. CASE \E c \in loc[p].entries :
                 loc' = [loc EXCEPT ![p].entries = @ \ {c}, ![p].names = @ \cup {c}]
      <4>1. PICK c \in loc[p].entries :
                 loc' = [loc EXCEPT ![p].entries = @ \ {c}, ![p].names = @ \cup {c}]
        BY <3>2
      <4>2. loc[p] \in Locals /\ c \in Paths /\ loc \in [Procs -> Locals]
        BY <4>1 DEF Locals, Shapes
      <4> DEFINE l == [loc[p] EXCEPT !.entries = @ \ {c}, !.names = @ \cup {c}]
      <4>3. l \in Locals /\ l.src = loc[p].src /\ l.dst = loc[p].dst
        BY <4>2 DEF Locals
      <4>4. loc' = [loc EXCEPT ![p] = l]
        BY <4>1
      <4> HIDE DEF l
      <4> QED  BY <4>2, <4>3, <4>4 DEF Notes
    <3> QED  BY <1>19, <3>1, <3>2 DEF ListEntry
  <2> QED  BY <1>19, <2>1, <2>2 DEF ListEntry
<1>20. CASE CopyOpenSource(p)
  <2>1. Runs(p) /\ ((pc'[p] = "open" /\ Exists(op[p].path)) \/ (pc'[p] = "idle" /\ result'[p].err # "ok"))
    <3> DEFINE e == Lookup(op[p].path)
    <3>1. Checked(p, e, "open")
      BY <1>20 DEF CopyOpenSource
    <3> HIDE DEF e, Checked
    <3>2. Runs(p) /\ (pc'[p] = "open" \/ (pc'[p] = "idle" /\ result'[p].err # "ok")) /\ (e # "ok" => pc'[p] = "idle")
      BY <3>1, CheckedEffect
    <3> QED  BY <3>2, LookupMeans DEF e
  <2>2. Notes(p) /\ loc'[p].src = tree[op[p].path] /\ loc'[p].dst = loc[p].dst
    BY <1>2, <1>20, Remembered DEF CopyOpenSource, Notes
  <2> QED  BY <1>20, <2>1, <2>2 DEF CopyOpenSource
<1>21. CASE MoveStatSource(p)
  <2>1. Runs(p) /\ (pc'[p] = "stattarget" \/ (pc'[p] = "idle" /\ result'[p].err # "ok"))
    <3> DEFINE e == NotFound(Lookup(op[p].path))
    <3>1. Checked(p, e, "stattarget")
      BY <1>21 DEF MoveStatSource
    <3> HIDE DEF e, Checked
    <3>2. Runs(p) /\ (pc'[p] = "stattarget" \/ (pc'[p] = "idle" /\ result'[p].err # "ok")) /\ (e # "ok" => pc'[p] = "idle")
      BY <3>1, CheckedEffect
    <3> QED  BY <3>2, LookupMeans DEF e
  <2>2. Notes(p) /\ loc'[p].src = tree[op[p].path] /\ loc'[p].dst = loc[p].dst
    BY <1>2, <1>21, Remembered DEF MoveStatSource, Notes
  <2> QED  BY <1>21, <2>1, <2>2 DEF MoveStatSource
<1>22. CASE MoveStatTarget(p)
  <2>1. Runs(p) /\ (pc'[p] = "check" \/ (pc'[p] = "idle" /\ result'[p].err # "ok"))
    <3> DEFINE e == (IF Lookup(op[p].target) = "ENOTDIR" THEN "ENOTDIR"
                                 ELSE IF tree[op[p].target] = loc[p].src THEN "ErrSamePath" ELSE "ok")
    <3>1. Checked(p, e, "check")
      BY <1>22 DEF MoveStatTarget
    <3> HIDE DEF e, Checked
    <3>2. Runs(p) /\ (pc'[p] = "check" \/ (pc'[p] = "idle" /\ result'[p].err # "ok")) /\ (e # "ok" => pc'[p] = "idle")
      BY <3>1, CheckedEffect
    <3> QED  BY <3>2, LookupMeans DEF e
  <2>2. Notes(p) /\ loc'[p].dst = tree[op[p].target] /\ loc'[p].src = loc[p].src
    BY <1>2, <1>22, Remembered DEF MoveStatTarget, Notes
  <2> QED  BY <1>22, <2>1, <2>2 DEF MoveStatTarget
<1> QED  BY <1>4, <1>5, <1>6, <1>7, <1>8, <1>9, <1>10, <1>11, <1>12, <1>13, <1>14, <1>15, <1>16,
            <1>17, <1>18, <1>19, <1>20, <1>21, <1>22 DEF LookAction

\* Labels that belong to one kind of operation, and handles that are open.
Placed(p) ==
    /\ loc[p].src <= Len(inode) /\ loc[p].dst <= Len(inode)
    /\ pc[p] \in {"open", "transfer"} =>
         \/ op[p].kind = "write"
         \/ op[p].kind = "copy" /\ loc[p].src > 0
    /\ pc[p] = "transfer" => loc[p].dst > 0
    /\ pc[p] \in {"count", "removeall"} => op[p].recursive

Target(p) == IF op[p].kind = "copy" THEN op[p].target ELSE op[p].path

\* open(2): without overwrite it makes a new inode or fails.
LEMMA OpenEffect ==
    ASSUME Shapes, TreeRange, NEW p \in Procs, Open(p)
    PROVE  /\ Runs(p) /\ Notes(p) /\ Grown /\ NamesStay
           /\ loc'[p].src = loc[p].src
           /\ \/ UNCHANGED fsVars /\ pc'[p] = "idle" /\ result'[p].err # "ok" /\ loc'[p] = loc[p]
              \/ /\ pc'[p] = "transfer" /\ loc'[p].dst = tree'[Target(p)] /\ tree'[Target(p)] > 0
                 /\ ~op[p].overwrite => /\ BytesStay /\ Len(inode') = Len(inode) + 1
                                        /\ tree'[Target(p)] = Len(inode) + 1
<1> DEFINE q == Target(p)
           e == OpenError(q, op[p].overwrite)
           f == IF e = "EEXIST" THEN "ErrFileExists" ELSE e
<1>1. q \in Paths /\ op[p].overwrite \in BOOLEAN /\ Len(inode) \in Nat /\ q = Target(p)
      /\ tree[q] \in 0..Len(inode)
  BY Requested, LenProperties DEF Target, TreeRange
<1>2. \/ /\ e = "ok" /\ OpenTruncate(q) /\ Remember(p, "dst", tree'[q]) /\ Goto(p, "transfer")
      \/ e # "ok" /\ Return(p, Failed(f)) /\ UNCHANGED fsVars /\ UNCHANGED loc
  BY DEF Open, Target, Looks, Keeps
<1>3. e # "ok" => f # "ok"
  BY Zenon
<1>4. e = "ok" /\ ~op[p].overwrite => tree[q] = 0
  BY DEF OpenError, Exists
<1> HIDE DEF q, e, f
<1>5. CASE e # "ok"
  <2>1. Return(p, Failed(f)) /\ UNCHANGED fsVars /\ UNCHANGED loc
    BY <1>2, <1>5
  <2>2. Runs(p) /\ pc'[p] = "idle" /\ result'[p].err # "ok"
    BY <1>3, <1>5, <2>1, ReturnEffect, FailedMeans
  <2>3. Notes(p) /\ loc'[p] = loc[p]
    BY <2>1 DEF Shapes, Notes
  <2>4. Grown /\ NamesStay
    BY <1>1, <2>1 DEF fsVars, Grown, NamesStay, TreeRange
  <2> QED  BY <2>1, <2>2, <2>3, <2>4
<1>6. CASE e = "ok"
  <2>1. OpenTruncate(q) /\ Remember(p, "dst", tree'[q]) /\ Goto(p, "transfer")
    BY <1>2, <1>6
  <2>2. Runs(p) /\ pc'[p] = "transfer"
    BY <2>1, GotoEffect
  <2>3. /\ Grown /\ NamesStay /\ tree'[q] \in Nat /\ tree'[q] > 0
        /\ ~op[p].overwrite => BytesStay /\ Len(inode') = Len(inode) + 1 /\ tree'[q] = Len(inode) + 1
    <3>1. CASE tree[q] # 0
      <4>1. inode' = [inode EXCEPT ![tree[q]].data = <<>>] /\ tree' = tree
        BY <2>1, <3>1 DEF OpenTruncate, Exists
      <4>2. tree[q] \in 1..Len(inode) /\ <<>> \in Seq(Bytes)
        BY <1>1, <3>1, EmptySeq
      <4>3. Grown /\ NamesStay
        BY <4>1, <4>2, DataEffect
      <4> QED  BY <1>1, <1>4, <1>6, <3>1, <4>1, <4>3
    <3>2. CASE tree[q] = 0
      <4>1. Create(q, File(<<>>))
        BY <2>1, <3>2 DEF OpenTruncate, Exists
      <4>2. File(<<>>) \in Node
        BY EmptySeq DEF File, Node
      <4> QED  BY <1>1, <3>2, <4>1, <4>2, CreateEffect
    <3> QED  BY <3>1, <3>2
  <2>4. Notes(p) /\ loc'[p].src = loc[p].src /\ loc'[p].dst = tree'[q]
    BY <2>1, <2>3, Remembered DEF Notes
  <2> QED  BY <1>1, <2>2, <2>3, <2>4
<1> QED  BY <1>5, <1>6

\* The bytes go to the open file and nowhere else.
LEMMA TransferEffect ==
    ASSUME Shapes, TreeRange, NEW p \in Procs, Placed(p), Transfer(p)
    PROVE  /\ Runs(p) /\ Notes(p) /\ Grown /\ NamesStay
           /\ loc'[p] = loc[p] /\ tree' = tree /\ Len(inode') = Len(inode)
           /\ pc'[p] = "idle"
           /\ \A j \in 1..Len(inode) : j # loc[p].dst => inode'[j] = inode[j]
           /\ \/ result'[p].err \in {"ok", "EIO"}
              \/ result'[p].err = "EISDIR" /\ op[p].kind = "copy"
<1> DEFINE bytes == IF op[p].kind = "copy" THEN inode[loc[p].src].data ELSE op[p].content
           i == loc[p].dst
<1>1. /\ Len(inode) \in Nat /\ loc[p] \in Locals /\ i \in 1..Len(inode)
      /\ op[p].kind = "copy" => loc[p].src \in 1..Len(inode)
  BY LenProperties DEF Shapes, Locals, TreeRange, Placed, Transfer
<1>2. bytes \in Seq(Bytes)
  <2>1. CASE op[p].kind = "copy"
    <3>1. inode[loc[p].src] \in Node
      BY <1>1, <2>1, ElementOfSeq DEF TreeRange
    <3> QED  BY <2>1, <3>1 DEF Node
  <2>2. CASE op[p].kind # "copy"
    BY <2>2, Requested
  <2> QED  BY <2>1, <2>2
<1>3. Notes(p) /\ loc'[p] = loc[p]
  BY DEF Transfer, Keeps, Shapes, Notes
<1>4. \/ WriteAt(i, bytes) /\ tree' = tree /\ Return(p, Ok)
      \/ op[p].kind = "copy" /\ Return(p, Failed("EISDIR")) /\ UNCHANGED fsVars
      \/ Return(p, Failed("EIO")) /\ UNCHANGED fsVars
  BY DEF Transfer, Looks
<1> HIDE DEF bytes, i
<1>5. CASE UNCHANGED fsVars
  <2>1. /\ Grown /\ NamesStay /\ tree' = tree /\ Len(inode') = Len(inode)
        /\ \A j \in 1..Len(inode) : inode'[j] = inode[j]
    BY <1>1, <1>5 DEF fsVars, Grown, NamesStay, TreeRange
  <2>2. /\ Runs(p) /\ pc'[p] = "idle"
        /\ result'[p].err \in {"ok", "EIO"} \/ (result'[p].err = "EISDIR" /\ op[p].kind = "copy")
    <3>1. CASE Return(p, Ok)
      BY <3>1, ReturnEffect, FailedMeans
    <3>2. CASE op[p].kind = "copy" /\ Return(p, Failed("EISDIR"))
      BY <3>2, ReturnEffect, FailedMeans
    <3>3. CASE Return(p, Failed("EIO"))
      BY <3>3, ReturnEffect, FailedMeans
    <3> QED  BY <1>4, <3>1, <3>2, <3>3
  <2> QED  BY <1>3, <2>1, <2>2
<1>6. CASE WriteAt(i, bytes) /\ tree' = tree /\ Return(p, Ok)
  <2> DEFINE d == Overlay(bytes, inode[i].data)
  <2>1. inode[i] \in Node
    BY <1>1, ElementOfSeq DEF TreeRange
  <2>2. d \in Seq(Bytes)
    BY <1>2, <2>1, OverlayType DEF Node
  <2>3. inode' = [inode EXCEPT ![i].data = d]
    BY <1>6 DEF WriteAt
  <2> HIDE DEF d
  <2>4. /\ Grown /\ NamesStay /\ Len(inode') = Len(inode)
        /\ \A j \in 1..Len(inode) : j # i => inode'[j] = inode[j]
    BY <1>1, <1>6, <2>2, <2>3, DataEffect
  <2>5. Runs(p) /\ pc'[p] = "idle" /\ result'[p].err = "ok"
    BY <1>6, ReturnEffect, FailedMeans
  <2> QED  BY <1>3, <1>6, <2>4, <2>5 DEF i
<1> QED  BY <1>4, <1>5, <1>6

\* mkdir(2) and MkdirAll add entries; success means a new one.
LEMMA MkdirEffect ==
    ASSUME Shapes, TreeRange, NEW p \in Procs, MkdirParents(p) \/ MkdirLeaf(p)
    PROVE  /\ Runs(p) /\ Notes(p) /\ Grown /\ BytesStay /\ NamesStay
           /\ op[p].kind = "mkdir" /\ loc'[p] = loc[p]
           /\ pc'[p] \in {"idle", "mkdir", "mkstat"}
           /\ pc'[p] = "idle" /\ result'[p].err = "ok" =>
                Len(inode') = Len(inode) + 1 /\ tree'[op[p].path] = Len(inode) + 1
<1>1. op[p].path \in Paths /\ Len(inode) \in Nat
  BY Requested, LenProperties DEF TreeRange
<1>2. op[p].kind = "mkdir" /\ Notes(p) /\ loc'[p] = loc[p]
  BY DEF MkdirParents, MkdirLeaf, At, Keeps, Shapes, Notes
<1>3. UNCHANGED fsVars => Grown /\ BytesStay /\ NamesStay
  BY <1>1 DEF fsVars, Grown, BytesStay, NamesStay, TreeRange
<1>4. CASE MkdirParents(p)
  <2> DEFINE q == Parent(op[p].path)
             e == MkdirAllError(q)
  <2>1. Checked(p, e, "mkdir") /\ (MkdirAll(q) \/ UNCHANGED fsVars)
    BY <1>4 DEF MkdirParents, Looks
  <2> HIDE DEF q, e
  <2>2. Runs(p) /\ (pc'[p] = "mkdir" \/ (pc'[p] = "idle" /\ result'[p].err # "ok"))
    BY <2>1, CheckedEffect
  <2>3. Grown /\ BytesStay /\ NamesStay
    BY <1>3, <2>1, MkdirAllEffect
  <2> QED  BY <1>2, <2>2, <2>3
<1>5. CASE MkdirLeaf(p)
  <2> DEFINE q == op[p].path
             e == MkdirError(q)
             r == [Ok EXCEPT !.created = TRUE]
  <2>1. \/ e = "ok" /\ Create(q, Dir) /\ Return(p, r)
        \/ Goto(p, "mkstat") /\ UNCHANGED fsVars
        \/ e # "ok" /\ Return(p, Failed(e)) /\ UNCHANGED fsVars
    BY <1>5 DEF MkdirLeaf, Looks
  <2>2. e = "ok" => tree[q] = 0
    BY DEF MkdirError, Exists
  <2> HIDE DEF q, e, r
  <2>3. CASE e = "ok" /\ Create(q, Dir) /\ Return(p, r)
    <3>1. Dir \in Node /\ q \in Paths
      BY <1>1, EmptySeq DEF Dir, Node, q
    <3>2. Grown /\ BytesStay /\ NamesStay /\ Len(inode') = Len(inode) + 1 /\ tree'[q] = Len(inode) + 1
      BY <2>2, <2>3, <3>1, CreateEffect
    <3> QED  BY <1>2, <2>3, <3>2, ReturnEffect DEF q
  <2>4. CASE Goto(p, "mkstat") /\ UNCHANGED fsVars
    BY <1>2, <1>3, <2>4, GotoEffect
  <2>5. CASE e # "ok" /\ Return(p, Failed(e)) /\ UNCHANGED fsVars
    <3>1. Runs(p) /\ pc'[p] = "idle" /\ result'[p].err # "ok"
      BY <2>5, ReturnEffect, FailedMeans
    <3> QED  BY <1>2, <1>3, <2>5, <3>1
  <2> QED  BY <2>1, <2>3, <2>4, <2>5
<1> QED  BY <1>4, <1>5

\* Removing and renaming change names only, and only where it is reported.
LEMMA RemoveEffect ==
    ASSUME Shapes, TreeRange, NEW p \in Procs, DeleteRemove(p) \/ DeleteRemoveAll(p) \/ MoveRename(p)
    PROVE  /\ Runs(p) /\ Notes(p) /\ Grown /\ BytesStay /\ inode' = inode
           /\ op[p].kind \in {"delete", "move"} /\ loc'[p] = loc[p]
           /\ pc'[p] = "idle" \/ (pc'[p] = "removeall" /\ pc[p] = "removeall")
           /\ pc[p] # "idle"
           /\ tree' # tree => pc[p] = "removeall" \/ (pc'[p] = "idle" /\ result'[p].err = "ok")
<1>1. op[p].path \in Paths /\ op[p].target \in Paths /\ Len(inode) \in Nat
  BY Requested, LenProperties DEF TreeRange
<1>2. op[p].kind \in {"delete", "move"} /\ pc[p] # "idle" /\ Notes(p) /\ loc'[p] = loc[p]
  BY DEF DeleteRemove, DeleteRemoveAll, MoveRename, At, Keeps, Shapes, Notes
<1>3. UNCHANGED fsVars => Grown /\ BytesStay /\ inode' = inode
  BY <1>1 DEF fsVars, Grown, BytesStay, TreeRange
<1>4. ASSUME \E r : Return(p, r)
      PROVE  Runs(p) /\ pc'[p] = "idle"
  BY <1>4, ReturnEffect
<1>5. CASE DeleteRemove(p)
  <2> DEFINE q == op[p].path
             e == RemoveError(q)
             r == IF e = "ok" THEN Ok ELSE Failed(e)
  <2>1. Return(p, r) /\ (IF e = "ok" THEN Unlink(q) ELSE UNCHANGED fsVars)
    BY <1>5 DEF DeleteRemove, Looks
  <2>2. e = "ok" => r.err = "ok"
    BY FailedMeans
  <2> HIDE DEF q, e, r
  <2>3. q \in Paths
    BY <1>1 DEF q
  <2>4. Grown /\ BytesStay /\ inode' = inode /\ (tree' # tree => e = "ok")
    BY <1>3, <2>1, <2>3, NamesEffect DEF fsVars
  <2> QED  BY <1>2, <2>1, <2>2, <2>4, ReturnEffect
<1>6. CASE MoveRename(p)
  <2> DEFINE e == RenameError(op[p].path, op[p].target)
             r == IF e = "ok" THEN Ok ELSE Failed(e)
  <2>1. Return(p, r) /\ (IF e = "ok" THEN Rename(op[p].path, op[p].target) ELSE UNCHANGED fsVars)
    BY <1>6 DEF MoveRename, Looks
  <2>2. e = "ok" => r.err = "ok"
    BY FailedMeans
  <2> HIDE DEF e, r
  <2>3. Grown /\ BytesStay /\ inode' = inode /\ (tree' # tree => e = "ok")
    BY <1>1, <1>3, <2>1, NamesEffect DEF fsVars
  <2> QED  BY <1>2, <2>1, <2>2, <2>3, ReturnEffect
<1>7. CASE DeleteRemoveAll(p)
  <2>1. pc[p] = "removeall" /\ op[p].kind = "delete"
    BY <1>7 DEF DeleteRemoveAll, At
  <2>2. UNCHANGED fsVars \/ \E q \in Paths : Unlink(q)
    <3>1. \/ UNCHANGED fsVars \/ Unlink(op[p].path)
          \/ \E c \in Below(op[p].path) : Unlink(c)
      BY <1>7 DEF DeleteRemoveAll, Looks
    <3> QED  BY <1>1, <3>1 DEF Below
  <2>3. Grown /\ BytesStay /\ inode' = inode
    BY <1>3, <2>2, NamesEffect
  <2>4. (\E r : Return(p, r)) \/ UNCHANGED <<pc, result>>
    <3>1. \/ Return(p, IF Lookup(op[p].path) = "ENOENT" THEN Ok ELSE Failed(Lookup(op[p].path)))
          \/ Return(p, Ok) \/ Return(p, Failed("ENOTEMPTY")) \/ UNCHANGED <<pc, result>>
      BY <1>7 DEF DeleteRemoveAll
    <3> QED  BY <3>1, Zenon
  <2>5. Runs(p) /\ (pc'[p] = "idle" \/ pc'[p] = "removeall")
    BY <1>4, <2>1, <2>4 DEF Runs, Shapes
  <2> QED  BY <1>2, <2>1, <2>3, <2>5
<1> QED  BY <1>5, <1>6, <1>7

-----------------------------------------------------------------------------
(* The inductive invariant *)

\* Without overwrite, p writes into a file of its own.
Owned(p) == pc[p] = "transfer" /\ ~op[p].overwrite => loc[p].dst \in ghost[p].made

\* What a move has validated is still so unless another process came between.
Validated(p) == op[p].kind = "move" =>
    /\ pc[p] \in {"revalidatesource", "revalidatetarget", "lstat", "rename"} /\ loc[p].dst # 0 =>
         op[p].overwrite /\ inode[loc[p].dst].kind = "file"
    /\ pc[p] \in {"revalidatetarget", "lstat", "rename"} /\ "src" \notin ghost[p].late =>
         tree[op[p].path] = loc[p].src
    /\ pc[p] \in {"lstat", "rename"} /\ "dst" \notin ghost[p].late =>
         tree[op[p].target] = loc[p].dst

\* Who has changed something is not done, or has said so.
Traced(p) == ghost[p].touched =>
    \/ op[p].kind = "mkdir" \/ op[p].recursive
    \/ pc[p] = "transfer"
    \/ /\ pc[p] = "idle"
       /\ \/ result[p].err \in {"ok", "EIO"}
          \/ op[p].kind = "copy" /\ result[p].err = "EISDIR" /\ loc[p].dst # 0

\* Every inode has at most one maker.
OneMaker ==
    /\ \A p \in Procs : ghost[p].made \subseteq 1..Len(inode)
    /\ \A p, q \in Procs : p # q => ghost[p].made \cap ghost[q].made = {}

\* A process that was never started has no operation.
Counted == used \in [Procs -> Nat] /\ \A p \in Procs : used[p] = 0 => op[p] = NoOp

\* As long as nothing is deleted or moved, a path that was created exclusively
\* belongs to its creator.
NothingLeaves == MaxOps = 1 /\ \A p \in Procs : op[p].kind \notin {"delete", "move"}
Creating(p) ==
    \/ /\ op[p].kind \in {"write", "copy"} /\ ~op[p].overwrite
       /\ pc[p] = "transfer" \/ (pc[p] = "idle" /\ result[p].err = "ok")
    \/ op[p].kind = "mkdir" /\ pc[p] = "idle" /\ result[p].err = "ok" /\ result[p].created
Exclusive(p) == NothingLeaves /\ Creating(p) => tree[Target(p)] \in ghost[p].made

ProcInv(p) == Placed(p) /\ Owned(p) /\ Validated(p) /\ Traced(p) /\ Exclusive(p)
FSInv == TreeRange /\ Shapes /\ Counted /\ OneMaker /\ \A p \in Procs : ProcInv(p)

\* The actions of Step, by what they do.
LEMMA StepKinds ==
    ASSUME NEW p, Step(p)
    PROVE  /\ \/ LookAction(p) \/ Open(p) \/ Transfer(p)
              \/ MkdirParents(p) \/ MkdirLeaf(p)
              \/ DeleteRemove(p) \/ DeleteRemoveAll(p) \/ MoveRename(p)
           /\ Record(p) /\ UNCHANGED <<op, used>>
BY DEF Step, LookAction

\* What every step of p has in common.
LEMMA StepEffect ==
    ASSUME TreeRange, Shapes, NEW p \in Procs, Placed(p), Step(p)
    PROVE  /\ Runs(p) /\ Notes(p) /\ Grown
           /\ UNCHANGED <<op, used>> /\ pc[p] # "idle"
           /\ op[p].kind \notin {"delete", "move"} => NamesStay
<1>1. Len(inode) \in Nat
  BY LenProperties DEF TreeRange
<1>2. CASE LookAction(p)
  <2>1. Runs(p) /\ Notes(p) /\ UNCHANGED fsVars /\ pc[p] # "idle"
    BY <1>2, LookEffect DEF Looked
  <2>2. Grown /\ NamesStay
    BY <1>1, <2>1 DEF fsVars, Grown, NamesStay, TreeRange
  <2> QED  BY <2>1, <2>2, StepKinds
<1>3. CASE Open(p)
  <2>1. pc[p] # "idle"
    BY <1>3 DEF Open
  <2> QED  BY <1>3, <2>1, OpenEffect, StepKinds
<1>4. CASE Transfer(p)
  <2>1. pc[p] # "idle"
    BY <1>4 DEF Transfer
  <2> QED  BY <1>4, <2>1, TransferEffect, StepKinds
<1>5. CASE MkdirParents(p) \/ MkdirLeaf(p)
  <2>1. pc[p] # "idle"
    BY <1>5 DEF MkdirParents, MkdirLeaf, At
  <2> QED  BY <1>5, <2>1, MkdirEffect, StepKinds
<1>6. CASE DeleteRemove(p) \/ DeleteRemoveAll(p) \/ MoveRename(p)
  BY <1>6, RemoveEffect, StepKinds
<1> QED  BY <1>2, <1>3, <1>4, <1>5, <1>6, StepKinds

\* The history after a step of p.
LEMMA StepHistory ==
    ASSUME TreeRange, Shapes, NEW p \in Procs, Placed(p), Step(p)
    PROVE  /\ ghost' \in [Procs -> History]
           /\ \A q \in Procs \ {p} :
                /\ ghost'[q].touched = ghost[q].touched /\ ghost'[q].made = ghost[q].made
                /\ \/ UNCHANGED <<tree, inode>> /\ ghost'[q].late = ghost[q].late
                   \/ ghost'[q].late = {"src", "dst"}
           /\ ghost'[p].touched = (ghost[p].touched \/ tree' # tree \/ inode' # inode)
           /\ ghost'[p].late = ghost[p].late \ Settled(pc[p])
           /\ ghost'[p].made = ghost[p].made \cup (Len(inode) + 1)..Len(inode')
<1>1. Grown /\ Record(p)
  BY StepEffect, StepKinds
<1>2. inode' \in Seq(Node) /\ Len(inode) <= Len(inode')
  BY <1>1 DEF Grown, TreeRange
<1> QED  BY <1>1, <1>2, Recorded

\* A step of p leaves the invariant of another process alone.
LEMMA OtherStep ==
    ASSUME FSInv, NEW p \in Procs, Step(p), NEW q \in Procs, q # p
    PROVE  ProcInv(q)'
<1>1. /\ Runs(p) /\ Notes(p) /\ Grown /\ op' = op
      /\ op[p].kind \notin {"delete", "move"} => NamesStay
  BY StepEffect DEF FSInv, ProcInv
<1>2. pc'[q] = pc[q] /\ result'[q] = result[q] /\ loc'[q] = loc[q] /\ op'[q] = op[q]
  BY <1>1 DEF Runs, Notes
<1>3. /\ ghost'[q].touched = ghost[q].touched /\ ghost'[q].made = ghost[q].made
      /\ \/ UNCHANGED <<tree, inode>> /\ ghost'[q].late = ghost[q].late
         \/ ghost'[q].late = {"src", "dst"}
  BY StepHistory DEF FSInv, ProcInv
<1>4. /\ Len(inode) \in Nat /\ Len(inode') \in Nat /\ Len(inode) <= Len(inode')
      /\ \A i \in 1..Len(inode) : inode'[i].kind = inode[i].kind
  BY <1>1, LenProperties DEF Grown, TreeRange, FSInv
<1>5. loc[q] \in Locals /\ ProcInv(q)
  BY DEF FSInv, Shapes
<1>6. Placed(q)'
  BY <1>2, <1>4, <1>5 DEF ProcInv, Placed, Locals
<1>7. Owned(q)'
  BY <1>2, <1>3, <1>5 DEF ProcInv, Owned
<1>8. Validated(q)'
  <2>1. loc[q].dst # 0 => loc[q].dst \in 1..Len(inode)
    BY <1>4, <1>5 DEF ProcInv, Placed, Locals
  <2>2. CASE UNCHANGED <<tree, inode>> /\ ghost'[q].late = ghost[q].late
    BY <1>2, <1>5, <2>2 DEF ProcInv, Validated
  <2>3. CASE ghost'[q].late = {"src", "dst"}
    BY <1>2, <1>4, <1>5, <2>1, <2>3 DEF ProcInv, Validated
  <2> QED  BY <1>3, <2>2, <2>3
<1>9. Traced(q)'
  BY <1>2, <1>3, <1>5 DEF ProcInv, Traced
<1>10. Exclusive(q)'
  <2> SUFFICES ASSUME NothingLeaves', Creating(q)'
               PROVE  tree'[Target(q)'] \in ghost'[q].made
    BY DEF Exclusive
  <2>1. NothingLeaves /\ Creating(q) /\ Target(q)' = Target(q)
    BY <1>1, <1>2 DEF NothingLeaves, Creating, Target
  <2>2. tree[Target(q)] \in ghost[q].made /\ Target(q) \in Paths
    BY <1>5, <2>1, Requested DEF ProcInv, Exclusive, Target, FSInv
  <2>3. tree[Target(q)] # 0
    BY <1>4, <2>2 DEF FSInv, OneMaker
  <2>4. NamesStay
    BY <1>1, <2>1 DEF NothingLeaves
  <2> QED  BY <1>3, <2>1, <2>2, <2>3, <2>4 DEF NamesStay
<1> QED  BY <1>6, <1>7, <1>8, <1>9, <1>10 DEF ProcInv

\* A step of p keeps the invariant of p.
LEMMA OwnStep ==
    ASSUME FSInv, NEW p \in Procs, Step(p)
    PROVE  ProcInv(p)'
<1>1. /\ Runs(p) /\ Notes(p) /\ Grown /\ op' = op /\ pc[p] # "idle"
      /\ op[p].kind \notin {"delete", "move"} => NamesStay
  BY StepEffect DEF FSInv, ProcInv
<1>2. /\ ghost'[p].touched = (ghost[p].touched \/ tree' # tree \/ inode' # inode)
      /\ ghost'[p].late = ghost[p].late \ Settled(pc[p])
      /\ ghost'[p].made = ghost[p].made \cup (Len(inode) + 1)..Len(inode')
  BY StepHistory DEF FSInv, ProcInv
<1>3. /\ Len(inode) \in Nat /\ Len(inode') \in Nat /\ Len(inode) <= Len(inode')
      /\ \A i \in 1..Len(inode) : inode'[i].kind = inode[i].kind
  BY <1>1, LenProperties DEF Grown, TreeRange, FSInv
<1>4. /\ Placed(p) /\ Owned(p) /\ Validated(p) /\ Traced(p) /\ Exclusive(p)
      /\ loc[p] \in Locals /\ loc'[p] \in Locals /\ TreeRange /\ Shapes
  BY <1>1 DEF FSInv, ProcInv, Shapes, Notes
<1>5. /\ op[p].path \in Paths /\ op[p].target \in Paths
      /\ op[p].overwrite \in BOOLEAN /\ op[p].recursive \in BOOLEAN
      /\ Target(p) \in Paths /\ Target(p)' = Target(p)
  BY <1>1, <1>4, Requested DEF Target
<1>6. /\ tree[op[p].path] \in 0..Len(inode) /\ tree[op[p].target] \in 0..Len(inode)
      /\ tree'[Target(p)] \in 0..Len(inode')
  BY <1>1, <1>5 DEF FSInv, TreeRange, Grown
<1>7. NothingLeaves' => op[p].kind \notin {"delete", "move"}
  BY <1>1 DEF NothingLeaves
<1>8. CASE LookAction(p)
  <2>1. Looked(p)
    BY <1>4, <1>8, LookEffect
  <2>2. UNCHANGED <<tree, inode>> /\ ghost'[p].touched = ghost[p].touched
    BY <1>2, <2>1 DEF Looked, fsVars, FSInv, Shapes, History
  <2>3. Placed(p)'
    BY <1>1, <1>3, <1>4, <1>6, <2>1, <2>2 DEF Placed, Looked, Locals, Exists
  <2>4. Owned(p)'
    BY <2>1 DEF Owned, Looked
  <2>5. Validated(p)'
    <3>1. loc[p].dst # 0 => loc[p].dst \in 1..Len(inode)
      BY <1>3, <1>4 DEF Placed, Locals
    <3>2. loc[p].dst # 0 => inode[loc[p].dst].kind \in {"file", "dir"}
      <4>1. loc[p].dst # 0 => inode[loc[p].dst] \in Node
        BY <1>4, <3>1, ElementOfSeq DEF TreeRange
      <4> QED  BY <4>1 DEF Node
    <3>3. ("src" \notin ghost'[p].late /\ pc[p] # "revalidatesource" => "src" \notin ghost[p].late)
          /\ ("dst" \notin ghost'[p].late /\ pc[p] # "revalidatetarget" => "dst" \notin ghost[p].late)
      BY <1>2 DEF Settled
    <3> QED  BY <1>1, <1>4, <2>1, <2>2, <3>2, <3>3 DEF Validated, Looked
  <2>6. Traced(p)'
    BY <1>1, <1>4, <2>1, <2>2 DEF Traced, Looked
  <2>7. Exclusive(p)'
    BY <1>1, <2>1 DEF Exclusive, Creating, Looked
  <2> QED  BY <2>3, <2>4, <2>5, <2>6, <2>7 DEF ProcInv
<1>9. CASE Open(p)
  <2>1. /\ pc[p] = "open" /\ loc'[p].src = loc[p].src
        /\ \/ UNCHANGED fsVars /\ pc'[p] = "idle" /\ result'[p].err # "ok" /\ loc'[p] = loc[p]
           \/ /\ pc'[p] = "transfer" /\ loc'[p].dst = tree'[Target(p)] /\ tree'[Target(p)] > 0
              /\ ~op[p].overwrite => /\ BytesStay /\ Len(inode') = Len(inode) + 1
                                     /\ tree'[Target(p)] = Len(inode) + 1
    BY <1>4, <1>9, OpenEffect DEF Open
  <2>2. op[p].kind \in {"write", "copy"}
    BY <1>4, <2>1 DEF Placed
  <2>3. Placed(p)'
    BY <1>1, <1>3, <1>4, <1>6, <2>1 DEF Placed, Locals
  <2>4. pc'[p] = "transfer" /\ ~op[p].overwrite =>
          loc'[p].dst = tree'[Target(p)] /\ tree'[Target(p)] \in ghost'[p].made
    BY <1>2, <1>3, <2>1
  <2>5. Owned(p)'
    BY <1>1, <2>4 DEF Owned
  <2>6. Validated(p)'
    BY <1>1, <2>2 DEF Validated
  <2>7. Traced(p)'
    BY <1>1, <1>2, <1>4, <2>1, <2>2 DEF Traced, fsVars
  <2>8. Exclusive(p)'
    BY <1>1, <1>5, <2>1, <2>2, <2>4 DEF Exclusive, Creating
  <2> QED  BY <2>3, <2>5, <2>6, <2>7, <2>8 DEF ProcInv
<1>10. CASE Transfer(p)
  <2>1. /\ pc[p] = "transfer" /\ loc'[p] = loc[p] /\ tree' = tree /\ pc'[p] = "idle"
        /\ \/ result'[p].err \in {"ok", "EIO"}
           \/ result'[p].err = "EISDIR" /\ op[p].kind = "copy"
    BY <1>4, <1>10, TransferEffect DEF Transfer
  <2>2. op[p].kind \in {"write", "copy"} /\ loc[p].dst # 0
    BY <1>4, <2>1 DEF Placed, Locals
  <2>3. Placed(p)'
    BY <1>1, <1>3, <1>4, <2>1 DEF Placed, Locals
  <2>4. Owned(p)' /\ Validated(p)' /\ Traced(p)'
    BY <1>1, <2>1, <2>2 DEF Owned, Validated, Traced
  <2>5. Exclusive(p)'
    <3>1. NothingLeaves' /\ Creating(p)' => NothingLeaves /\ Creating(p)
      BY <1>1, <2>1, <2>2 DEF NothingLeaves, Creating
    <3> QED  BY <1>2, <1>4, <1>5, <2>1, <3>1 DEF Exclusive
  <2> QED  BY <2>3, <2>4, <2>5 DEF ProcInv
<1>11. CASE MkdirParents(p) \/ MkdirLeaf(p)
  <2>1. /\ op[p].kind = "mkdir" /\ loc'[p] = loc[p] /\ pc'[p] \in {"idle", "mkdir", "mkstat"}
        /\ pc'[p] = "idle" /\ result'[p].err = "ok" =>
             Len(inode') = Len(inode) + 1 /\ tree'[op[p].path] = Len(inode) + 1
    BY <1>4, <1>11, MkdirEffect
  <2>2. Placed(p)'
    BY <1>1, <1>3, <1>4, <2>1 DEF Placed, Locals
  <2>3. Owned(p)' /\ Validated(p)' /\ Traced(p)'
    BY <1>1, <2>1 DEF Owned, Validated, Traced
  <2>4. Exclusive(p)'
    <3>1. Target(p) = op[p].path
      BY <2>1 DEF Target
    <3>2. pc'[p] = "idle" /\ result'[p].err = "ok" => tree'[Target(p)] \in ghost'[p].made
      BY <1>2, <1>3, <2>1, <3>1
    <3> QED  BY <1>1, <1>5, <2>1, <3>2 DEF Exclusive, Creating
  <2> QED  BY <2>2, <2>3, <2>4 DEF ProcInv
<1>12. CASE DeleteRemove(p) \/ DeleteRemoveAll(p) \/ MoveRename(p)
  <2>1. /\ inode' = inode /\ op[p].kind \in {"delete", "move"} /\ loc'[p] = loc[p]
        /\ pc'[p] = "idle" \/ (pc'[p] = "removeall" /\ pc[p] = "removeall")
        /\ tree' # tree => pc[p] = "removeall" \/ (pc'[p] = "idle" /\ result'[p].err = "ok")
    BY <1>4, <1>12, RemoveEffect
  <2>2. pc[p] # "transfer"
    BY <1>4, <2>1 DEF Placed
  <2>3. Placed(p)'
    BY <1>1, <1>3, <1>4, <2>1 DEF Placed, Locals
  <2>4. Owned(p)' /\ Validated(p)'
    BY <2>1 DEF Owned, Validated
  <2>5. Traced(p)'
    <3>1. pc[p] = "removeall" => op[p].recursive
      BY <1>4 DEF Placed
    <3> QED  BY <1>1, <1>2, <1>4, <2>1, <2>2, <3>1 DEF Traced
  <2>6. Exclusive(p)'
    BY <1>7, <2>1 DEF Exclusive
  <2> QED  BY <2>3, <2>4, <2>5, <2>6 DEF ProcInv
<1> QED  BY <1>8, <1>9, <1>10, <1>11, <1>12, StepKinds

\* Makers stay apart: a new inode has a number nobody has.
LEMMA MakerStep ==
    ASSUME FSInv, NEW p \in Procs, Step(p)
    PROVE  OneMaker'
<1>1. /\ \A q \in Procs \ {p} : ghost'[q].made = ghost[q].made
      /\ ghost'[p].made = ghost[p].made \cup (Len(inode) + 1)..Len(inode')
  BY StepHistory DEF FSInv, ProcInv
<1>2. Len(inode) \in Nat /\ Len(inode') \in Nat /\ Len(inode) <= Len(inode')
  BY StepEffect, LenProperties DEF Grown, TreeRange, FSInv, ProcInv
<1>3. /\ \A q \in Procs : ghost[q].made \subseteq 1..Len(inode)
      /\ \A q, r \in Procs : q # r => ghost[q].made \cap ghost[r].made = {}
  BY DEF FSInv, OneMaker
<1>4. \A q \in Procs : ghost'[q].made \subseteq 1..Len(inode')
  BY <1>1, <1>2, <1>3
<1>5. ASSUME NEW q \in Procs, NEW r \in Procs, q # r
      PROVE  ghost'[q].made \cap ghost'[r].made = {}
  <2>1. (Len(inode) + 1)..Len(inode') \cap 1..Len(inode) = {}
    BY <1>2
  <2> QED  BY <1>1, <1>3, <1>5, <2>1
<1> QED  BY <1>4, <1>5 DEF OneMaker

\* A new operation of p.
LEMMA StartStep ==
    ASSUME FSInv, NEW p \in Procs, NEW r \in Requests, Start(p, r)
    PROVE  FSInv'
<1>1. /\ op' = [op EXCEPT ![p] = r] /\ pc' = [pc EXCEPT ![p] = "resolve"]
      /\ loc' = [loc EXCEPT ![p] = NoLocals] /\ result' = [result EXCEPT ![p] = NoResult]
      /\ used' = [used EXCEPT ![p] = @ + 1] /\ UNCHANGED <<tree, inode>>
      /\ pc[p] = "idle" /\ used[p] < MaxOps
  BY DEF Start, Looks, fsVars
<1> DEFINE g == [before |-> <<tree, inode>>, disturbed |-> FALSE,
                 late |-> {"src", "dst"}, touched |-> FALSE, made |-> {}]
<1>2. ghost' = [ghost EXCEPT ![p] = g]
  BY DEF Start
<1>3. g \in History /\ g.late = {"src", "dst"} /\ g.touched = FALSE /\ g.made = {}
  <2>1. tree \in [Paths -> Nat] /\ inode \in Seq(Node)
    BY LenProperties DEF FSInv, TreeRange
  <2> QED  BY <2>1 DEF History
<1>4. NoLocals \in Locals /\ NoLocals.src = 0 /\ NoLocals.dst = 0
  BY DEF NoLocals, Locals
<1> HIDE DEF g
<1>5. Shapes' /\ TreeRange'
  BY <1>1, <1>2, <1>3, <1>4 DEF FSInv, Shapes, TreeRange
<1>6. \A q \in Procs \ {p} : /\ op'[q] = op[q] /\ pc'[q] = pc[q] /\ loc'[q] = loc[q]
                             /\ result'[q] = result[q] /\ ghost'[q] = ghost[q] /\ used'[q] = used[q]
  BY <1>1, <1>2 DEF FSInv, Shapes, Counted
<1>7. /\ op'[p] = r /\ pc'[p] = "resolve" /\ loc'[p] = NoLocals
      /\ ghost'[p] = g /\ used'[p] = used[p] + 1
  BY <1>1, <1>2 DEF FSInv, Shapes, Counted
<1>8. Counted'
  BY <1>1, <1>6, <1>7 DEF FSInv, Counted
<1>9. OneMaker'
  BY <1>1, <1>3, <1>6, <1>7 DEF FSInv, OneMaker
<1>10. ProcInv(p)'
  <2>1. Len(inode') \in Nat
    BY <1>5, LenProperties DEF TreeRange
  <2> QED  BY <1>3, <1>4, <1>7, <2>1 DEF ProcInv, Placed, Owned, Validated, Traced, Exclusive, Creating
<1>11. ASSUME NEW q \in Procs \ {p} PROVE ProcInv(q)'
  <2>1. Placed(q)' /\ Owned(q)' /\ Validated(q)' /\ Traced(q)'
    BY <1>1, <1>6 DEF FSInv, ProcInv, Placed, Owned, Validated, Traced
  <2>2. NothingLeaves' => NothingLeaves
    <3> SUFFICES ASSUME NothingLeaves' PROVE op[p].kind \notin {"delete", "move"}
      BY <1>6 DEF NothingLeaves
    <3>1. used[p] = 0
      BY <1>1 DEF NothingLeaves, FSInv, Counted
    <3> QED  BY <3>1 DEF FSInv, Counted, NoOp
  <2>3. Exclusive(q)'
    BY <1>1, <1>6, <2>2 DEF FSInv, ProcInv, Exclusive, Creating, Target
  <2> QED  BY <2>1, <2>3 DEF ProcInv
<1> QED  BY <1>5, <1>8, <1>9, <1>10, <1>11 DEF FSInv

\* The invariant holds at the start.
LEMMA FSInit == Init => FSInv
<1> SUFFICES ASSUME Init PROVE FSInv
  OBVIOUS
<1>1. TreeRange
  BY TreesAssumption DEF Init, TreeRange
<1>2. Len(inode) \in Nat
  BY <1>1, LenProperties DEF TreeRange
<1> DEFINE g == [before |-> <<tree, inode>>, disturbed |-> FALSE,
                 late |-> {}, touched |-> FALSE, made |-> {}]
<1>3. g \in History /\ g.touched = FALSE /\ g.made = {}
  <2>1. tree \in [Paths -> Nat] /\ inode \in Seq(Node)
    BY <1>1, <1>2 DEF TreeRange
  <2> QED  BY <2>1 DEF History
<1>4. ghost = [p \in Procs |-> g]
  BY DEF Init
<1> HIDE DEF g
<1>5. NoLocals \in Locals /\ NoLocals.src = 0 /\ NoLocals.dst = 0
  BY DEF NoLocals, Locals
<1>6. \A p \in Procs : op[p] = NoOp /\ pc[p] = "idle" /\ loc[p] = NoLocals /\ ghost[p] = g
  BY <1>4 DEF Init
<1>7. Shapes /\ Counted
  BY <1>3, <1>4, <1>5 DEF Init, Shapes, Counted
<1>8. OneMaker
  BY <1>3, <1>6 DEF OneMaker
<1>9. ASSUME NEW p \in Procs PROVE ProcInv(p)
  BY <1>2, <1>3, <1>5, <1>6 DEF ProcInv, Placed, Owned, Validated, Traced, Exclusive, Creating, NoOp
<1> QED  BY <1>1, <1>7, <1>8, <1>9 DEF FSInv

\* Every step keeps it.
LEMMA FSStep == FSInv /\ [Next]_vars => FSInv'
<1> SUFFICES ASSUME FSInv, [Next]_vars PROVE FSInv'
  OBVIOUS
<1>1. CASE UNCHANGED vars
  BY <1>1 DEF vars, fsVars, procVars, FSInv, TreeRange, Shapes, Counted, OneMaker, ProcInv, Placed,
     Owned, Validated, Traced, Exclusive, NothingLeaves, Creating, Target
<1>2. ASSUME NEW p \in Procs, NEW r \in Requests, Start(p, r) PROVE FSInv'
  BY <1>2, StartStep
<1>3. ASSUME NEW p \in Procs, Step(p) PROVE FSInv'
  <2>1. Runs(p) /\ Notes(p) /\ Grown /\ UNCHANGED <<op, used>>
    BY <1>3, StepEffect DEF FSInv, ProcInv
  <2>2. ghost' \in [Procs -> History]
    BY <1>3, StepHistory DEF FSInv, ProcInv
  <2>3. TreeRange' /\ Shapes' /\ Counted'
    BY <2>1, <2>2 DEF Grown, FSInv, Shapes, Runs, Notes, Counted
  <2>4. \A q \in Procs : ProcInv(q)'
    BY <1>3, OwnStep, OtherStep
  <2> QED  BY <1>3, <2>3, <2>4, MakerStep DEF FSInv
<1> QED  BY <1>1, <1>2, <1>3 DEF Next

\* It holds in every state.
LEMMA FSInvariant == Spec => []FSInv
BY FSInit, FSStep, PTL DEF Spec

-----------------------------------------------------------------------------
(* The theorems *)

\* Without overwrite a call changes no bytes but those of a file it has made
\* itself, whatever other processes do between its check and its open
\* (write.go Write and copy.go Copy with O_EXCL).
THEOREM NeverOverwritesSilently == Spec => NoSilentOverwrite
<1> DEFINE A == \A p \in Procs : Acts(p) /\ ~op[p].overwrite /\ pc[p] # "idle" =>
                   \A i \in 1..Len(inode) : inode'[i] # inode[i] => i \in ghost[p].made
<1>1. FSInv /\ [Next]_vars => [A]_vars
  <2> SUFFICES ASSUME FSInv, Next, NEW p \in Procs,
                      Acts(p), ~op[p].overwrite, pc[p] # "idle",
                      NEW i \in 1..Len(inode), inode'[i] # inode[i]
               PROVE  i \in ghost[p].made
    OBVIOUS
  <2>1. TreeRange /\ Shapes /\ Placed(p) /\ Owned(p)
    BY DEF FSInv, ProcInv
  <2>2. Step(p)
    <3>1. ASSUME NEW q \in Procs, Step(q), q # p PROVE FALSE
      BY <3>1, StepEffect DEF FSInv, ProcInv, Runs, Acts
    <3>2. ASSUME NEW q \in Procs, NEW r \in Requests, Start(q, r) PROVE FALSE
      <4>1. q # p
        BY <3>2 DEF Start
      <4>2. pc' = [pc EXCEPT ![q] = "resolve"]
        BY <3>2 DEF Start
      <4> QED  BY <2>1, <4>1, <4>2 DEF Acts, Shapes
    <3> QED  BY <3>1, <3>2 DEF Next
  <2>3. CASE LookAction(p)
    BY <2>1, <2>3, LookEffect DEF Looked, fsVars
  <2>4. CASE Open(p)
    BY <2>1, <2>4, OpenEffect DEF BytesStay, fsVars
  <2>5. CASE Transfer(p)
    <3>1. i = loc[p].dst
      BY <2>1, <2>5, TransferEffect
    <3> QED  BY <2>1, <2>5, <3>1 DEF Owned, Transfer
  <2>6. CASE MkdirParents(p) \/ MkdirLeaf(p)
    BY <2>1, <2>6, MkdirEffect DEF BytesStay
  <2>7. CASE DeleteRemove(p) \/ DeleteRemoveAll(p) \/ MoveRename(p)
    BY <2>1, <2>7, RemoveEffect
  <2> QED  BY <2>2, <2>3, <2>4, <2>5, <2>6, <2>7, StepKinds
<1> QED  BY <1>1, FSInvariant, PTL DEF Spec, NoSilentOverwrite

\* A rename acts on the source and the target that were validated, unless
\* another process changed them after their revalidation (move.go
\* revalidateMoveState).
THEOREM MovesWhatWasValidated == Spec => MoveActsOnValidated
<1> DEFINE A == \A p \in Procs : At(p, "move", "rename") /\ Acts(p) /\ tree' # tree =>
                  /\ "src" \notin ghost[p].late => tree[op[p].path] = loc[p].src
                  /\ "dst" \notin ghost[p].late =>
                        LET old == tree[op[p].target]
                        IN old # 0 => op[p].overwrite /\ old = loc[p].dst /\ IsFile(op[p].target)
<1>1. FSInv => A
  BY DEF FSInv, ProcInv, Validated, At, IsFile, Exists
<1> QED  BY <1>1, FSInvariant, PTL DEF Spec, MoveActsOnValidated

\* A call that reports an error has changed nothing (the exemptions are those
\* of FailureLeavesNoTrace).
THEOREM FailuresLeaveNoTrace == Spec => []FailureLeavesNoTrace
<1>1. FSInv => FailureLeavesNoTrace
  BY DEF FSInv, ProcInv, Traced, FailureLeavesNoTrace, Done
<1> QED  BY <1>1, FSInvariant, PTL

\* Of several exclusive creations of one path at most one succeeds.
THEOREM AtMostOneCreator == Spec => []OneCreator
<1>1. FSInv => OneCreator
  <2> SUFFICES ASSUME FSInv, MaxOps = 1, \A p \in Procs : op[p].kind \notin {"delete", "move"},
                      NEW p \in Procs, NEW q \in Procs, p # q, Creates(p), Creates(q)
               PROVE  CreatedPath(p) # CreatedPath(q)
    BY DEF OneCreator
  <2>1. NothingLeaves /\ Creating(p) /\ Creating(q)
    BY DEF NothingLeaves, Creating, Creates, Done
  <2>2. tree[Target(p)] \in ghost[p].made /\ tree[Target(q)] \in ghost[q].made
    BY <2>1 DEF FSInv, ProcInv, Exclusive
  <2>3. ghost[p].made \cap ghost[q].made = {}
    BY DEF FSInv, OneMaker
  <2> QED  BY <2>2, <2>3 DEF Target, CreatedPath
<1> QED  BY <1>1, FSInvariant, PTL

-----------------------------------------------------------------------------
(* The tree *)

\* Every system call of every operation leaves a tree.
LEMMA StepTree ==
    ASSUME FSInv, TreeInv, NEW p \in Procs, Step(p)
    PROVE  TreeInv'
<1>1. TreeRange /\ Shapes /\ Placed(p) /\ Grown
  BY StepEffect DEF FSInv, ProcInv
<1>2. op[p].path \in Paths /\ op[p].target \in Paths /\ Target(p) \in Paths
  BY <1>1, Requested DEF Target
<1>3. UNCHANGED fsVars => TreeInv'
  BY <1>1, SameTree DEF fsVars
<1>4. CASE LookAction(p)
  BY <1>1, <1>3, <1>4, LookEffect DEF Looked
<1>5. CASE Open(p)
  <2> DEFINE q == Target(p)
  <2>1. \/ OpenError(q, op[p].overwrite) = "ok" /\ OpenTruncate(q)
        \/ UNCHANGED fsVars
    BY <1>5 DEF Open, Target, Looks
  <2> HIDE DEF q
  <2>2. CASE OpenError(q, op[p].overwrite) = "ok" /\ OpenTruncate(q)
    <3>1. CASE Exists(q)
      <4>1. tree' = tree
        BY <2>2, <3>1 DEF OpenTruncate
      <4> QED  BY <1>1, <4>1, SameTree
    <3>2. CASE ~Exists(q)
      <4>1. Create(q, File(<<>>)) /\ (q = Root \/ IsDir(Parent(q)))
        BY <2>2, <3>2 DEF OpenTruncate, OpenError, ParentLookup
      <4>2. File(<<>>) \in Node /\ q \in Paths
        BY <1>2, EmptySeq DEF File, Node, q
      <4> HIDE DEF File
      <4> QED  BY <3>2, <4>1, <4>2, CreateTree
    <3> QED  BY <3>1, <3>2
  <2> QED  BY <1>3, <2>1, <2>2
<1>6. CASE Transfer(p)
  BY <1>1, <1>6, TransferEffect, SameTree
<1>7. CASE MkdirParents(p)
  <2> DEFINE q == Parent(op[p].path)
  <2>1. (MkdirAllError(q) = "ok" /\ MkdirAll(q)) \/ UNCHANGED fsVars
    BY <1>7 DEF MkdirParents, Looks
  <2>2. q \in Paths
    BY <1>2, ParentMeans
  <2> HIDE DEF q
  <2> QED  BY <1>3, <2>1, <2>2, MkdirAllTree
<1>8. CASE MkdirLeaf(p)
  <2> DEFINE q == op[p].path
  <2>1. (MkdirError(q) = "ok" /\ Create(q, Dir)) \/ UNCHANGED fsVars
    BY <1>8 DEF MkdirLeaf, Looks
  <2>2. MkdirError(q) = "ok" => ~Exists(q) /\ (q = Root \/ IsDir(Parent(q)))
    BY DEF MkdirError, ParentLookup
  <2>3. Dir \in Node
    BY EmptySeq DEF Dir, Node
  <2> QED  BY <1>2, <1>3, <2>1, <2>2, <2>3, CreateTree
<1>9. CASE DeleteRemove(p)
  <2>1. (RemoveError(op[p].path) = "ok" /\ Unlink(op[p].path)) \/ UNCHANGED fsVars
    BY <1>9 DEF DeleteRemove, Looks
  <2>2. RemoveError(op[p].path) = "ok" => Below(op[p].path) = {}
    BY LookupMeans DEF RemoveError
  <2> QED  BY <1>2, <1>3, <2>1, <2>2, UnlinkTree
<1>10. CASE DeleteRemoveAll(p)
  <2>1. UNCHANGED fsVars \/ \E c \in Paths : Below(c) = {} /\ Unlink(c)
    <3>1. \/ UNCHANGED fsVars
          \/ Below(op[p].path) = {} /\ Unlink(op[p].path)
          \/ \E c \in Below(op[p].path) : Below(c) = {} /\ Unlink(c)
      BY <1>10 DEF DeleteRemoveAll, Looks
    <3>2. Below(op[p].path) \subseteq Paths
      BY DEF Below
    <3> QED  BY <1>2, <3>1, <3>2
  <2> QED  BY <1>3, <2>1, UnlinkTree
<1>11. CASE MoveRename(p)
  <2>1. \/ /\ RenameError(op[p].path, op[p].target) = "ok"
           /\ Rename(op[p].path, op[p].target)
        \/ UNCHANGED fsVars
    BY <1>11 DEF MoveRename, Looks
  <2> QED  BY <1>2, <1>3, <2>1, RenameTree
<1> QED  BY <1>4, <1>5, <1>6, <1>7, <1>8, <1>9, <1>10, <1>11, StepKinds

\* The tree invariant holds in every state.
LEMMA TreeInvariant == Spec => []TreeInv
<1>1. Init => TreeInv
  BY TreesAssumption DEF Init, TreeInv, TreeRange, Unique, Rooted, Exists, IsDir
<1>2. FSInv /\ TreeInv /\ [Next]_vars => TreeInv'
  <2> SUFFICES ASSUME FSInv, TreeInv, [Next]_vars PROVE TreeInv'
    OBVIOUS
  <2>1. CASE UNCHANGED fsVars
    <3>1. Grown /\ tree' = tree
      BY <2>1, LenProperties DEF fsVars, Grown, TreeInv, TreeRange
    <3> QED  BY <3>1, SameTree
  <2>2. CASE UNCHANGED vars
    BY <2>1, <2>2 DEF vars
  <2>3. ASSUME NEW p \in Procs, NEW r \in Requests, Start(p, r) PROVE TreeInv'
    BY <2>1, <2>3 DEF Start, Looks
  <2>4. ASSUME NEW p \in Procs, Step(p) PROVE TreeInv'
    BY <2>4, StepTree
  <2> QED  BY <2>2, <2>3, <2>4 DEF Next
<1> QED  BY <1>1, <1>2, FSInvariant, PTL DEF Spec

\* Whatever the processes do to one root at once, it stays a tree: every entry
\* is in a directory, no inode has two names, and the handles and identities
\* that an operation remembers between two calls are inodes that were made.
THEOREM RootStaysATree == Spec => []TypeOK
<1>1. FSInv /\ TreeInv => TypeOK
  <2> SUFFICES ASSUME FSInv, TreeInv PROVE TypeOK
    OBVIOUS
  <2>1. TreeTypeOK
    BY TreeInvType
  <2>2. \A p \in Procs : loc[p].src \in 0..Len(inode) /\ loc[p].dst \in 0..Len(inode)
    BY LenProperties DEF FSInv, Shapes, Locals, ProcInv, Placed, TreeRange
  <2> QED  BY <2>1, <2>2 DEF TypeOK, FSInv, Shapes
<1> QED  BY <1>1, FSInvariant, TreeInvariant, PTL

-----------------------------------------------------------------------------
(* An undisturbed call, stage by stage *)

\* A file may be put at q as far as q itself goes.
Free(v, q, overwrite) == ~Contract!Has(v, q) \/ (overwrite /\ Contract!HasFile(v, q))
Kids(v, q) == {c \in Contract!Content(v, q) : Contract!Above(c) = q}

\* The labels at which a call has not changed anything yet.
Looking == {"resolve", "stat", "readfile", "readdir", "entries", "target", "opensource", "open",
            "mkdirall", "remove", "count", "delreaddir", "stattarget", "check",
            "revalidatesource", "revalidatetarget", "lstat", "rename"}

\* What SequentialContract says of the outcome res of r, of the view v before
\* and the view n after.
Outcome(v, r, n, res) ==
    IF Contract!Allowed(v, r)
    THEN res.err = "ok" /\ n = Contract!After(v, r) /\ Contract!Reports(v, r, res)
    ELSE res.err # "ok" /\ n = v /\ (res.err # "ENOTDIR" => ErrorCode(res.err) = "InvalidParams")

\* What each kind of call has found out and done when it gets to label l: v is
\* the view it started from, n the present one, c its locals, t the tree.
ReadStage(v, r, l) == l = "readfile" => Contract!Allowed(v, r)

ListStage(v, r, l, c) ==
    /\ l \in {"resolve", "readdir"} => c.names = {}
    /\ l = "entries" =>
         /\ Contract!HasDir(v, r.path)
         /\ c.names \cup c.entries = Kids(v, r.path) /\ c.names \cap c.entries = {}
         /\ Cardinality(c.names) <= MaxListEntries

WriteStage(v, r, n, l, c, t) ==
    /\ l \in {"stat", "open"} => Len(r.content) <= MaxWriteBytes /\ Contract!Has(v, Root)
    /\ l = "open" => r.path # Root /\ Free(v, r.path, r.overwrite)
    /\ l = "transfer" => /\ Contract!Allowed(v, r) /\ c.dst = t[r.path]
                         /\ n = [v EXCEPT ![r.path] = Contract!AFile(<<>>)]

CopyStage(v, r, n, l, c, t) ==
    /\ l \in {"stat", "target", "opensource", "open"} => Contract!Has(v, Root)
    /\ l \in {"target", "opensource", "open"} =>
         Contract!HasFile(v, r.path) /\ Len(v[r.path].data) <= MaxCopyBytes
    /\ l \in {"opensource", "open"} => r.target # Root /\ Free(v, r.target, r.overwrite)
    /\ l \in {"open", "transfer"} => c.src = t[r.path]
    /\ l = "transfer" => /\ Contract!Allowed(v, r) /\ c.dst = t[r.target]
                         /\ n = [v EXCEPT ![r.target] = Contract!AFile(<<>>)]

MkdirStage(v, r, n, l) ==
    /\ l \in {"mkdirall", "mkdir", "mkstat"} => Contract!Has(v, Root) /\ r.path # Root
    /\ l \in {"mkdir", "mkstat"} =>
         /\ \A a \in Paths : Contract!Inside(r.path, a) => ~Contract!HasFile(v, a)
         /\ n = [q \in Paths |-> IF Contract!Inside(r.path, q) THEN Contract!ADir ELSE v[q]]
         /\ Contract!Has(v, r.path) => n = v
    /\ l = "mkstat" => Contract!Has(v, r.path)

DeleteStage(v, r, n, l) ==
    /\ l = "remove" => Contract!Has(v, r.path) /\ Contract!Content(v, r.path) = {}
    /\ l = "count" => Contract!HasDir(v, r.path) /\ r.recursive
    /\ l = "delreaddir" => Contract!HasDir(v, r.path) /\ ~r.recursive
    /\ l = "removeall" =>
         /\ Contract!Allowed(v, r) /\ Contract!Has(n, r.path)
         /\ \A q \in Paths : n[q] = v[q] \/ (Contract!At(q, r.path) /\ n[q] = Contract!Absent)

MoveStage(v, r, l, c, t) ==
    /\ l \in {"stat", "stattarget", "check", "revalidatesource", "revalidatetarget", "lstat", "rename"} =>
         Contract!Has(v, Root) /\ r.path # r.target
    /\ l \in {"stattarget", "check", "revalidatesource", "revalidatetarget", "lstat", "rename"} =>
         Contract!Has(v, r.path) /\ c.src = t[r.path]
    /\ l \in {"check", "revalidatesource", "revalidatetarget", "lstat", "rename"} => c.dst = t[r.target]
    /\ l \in {"revalidatesource", "revalidatetarget", "lstat", "rename"} =>
         /\ ~Contract!At(r.target, r.path) /\ r.target # Root
         /\ Free(v, r.target, r.overwrite)
         /\ Contract!Has(v, r.target) => Contract!HasFile(v, r.path)

Stage(v, r, n, l, c, res, t) ==
    /\ l \in Looking => n = v
    /\ l = "idle" /\ res.err # "EIO" => Outcome(v, r, n, res)
    /\ CASE r.kind = "read" -> ReadStage(v, r, l)
         [] r.kind = "list" -> ListStage(v, r, l, c)
         [] r.kind = "write" -> WriteStage(v, r, n, l, c, t)
         [] r.kind = "copy" -> CopyStage(v, r, n, l, c, t)
         [] r.kind = "mkdir" -> MkdirStage(v, r, n, l)
         [] r.kind = "delete" -> DeleteStage(v, r, n, l)
         [] r.kind = "move" -> MoveStage(v, r, l, c, t)
         [] OTHER -> TRUE

\* The calls that SequentialContract is about, while they run and afterwards.
Alone(p) == /\ used[p] > 0 /\ ~ghost[p].disturbed
            /\ ~(op[p].kind = "copy" /\ op[p].path = op[p].target)
            /\ ~Contract!HasFile(Before(p), Root)
Staged(p) == Alone(p) => Stage(Before(p), op[p], Now, pc[p], loc[p], result[p], tree)

\* A directory has no bytes, and an open handle is a file.
Bare == \A i \in 1..Len(inode) : inode[i].kind = "dir" => inode[i] = Dir
Handle(p) == pc[p] = "transfer" => inode[loc[p].dst].kind = "file"

-----------------------------------------------------------------------------
(* What the contract and the stages say, kind by kind *)

\* Every error that an undisturbed call can meet is an expected one, or ENOTDIR.
Expected(e) == e = "ENOTDIR" \/ ErrorCode(e) = "InvalidParams"

\* The errors of internal/fs that the client is told as InvalidParams.
LEMMA Codes ==
    \A e \in {"ENOTDIR", "ErrOutsideRoot", "ErrSamePath", "ErrMoveIntoSelf", "ErrMovePathChanged", "ErrNotFound",
              "ENOENT", "ErrFileExists", "EEXIST", "ENOTEMPTY", "ErrPathIsDirectory",
              "ErrPathIsNotDirectory", "ErrCopyDirectoryUnsupported", "ErrMoveTypeMismatch",
              "ErrDirectoryNotEmpty", "ErrFileTooLarge", "ErrLimitExceeded"} : Expected(e)
BY DEF Expected, ErrorCode, Category

\* The contract has its own words for the places of a tree.
LEMMA Words ==
    ASSUME NEW q, NEW a
    PROVE  /\ Contract!Inside(q, a) <=> Under(q, a)
           /\ Contract!Above(q) = Parent(q)
           /\ Contract!At(q, a) <=> (q = a \/ Under(q, a))
BY DEF Contract!Inside, Contract!Above, Contract!At, Under, Parent

\* Stage, by the kind of the call.
LEMMA StageMeans ==
    ASSUME NEW v, NEW r, NEW n, NEW l, NEW c, NEW res, NEW t
    PROVE  /\ Stage(v, r, n, l, c, res, t) => /\ l \in Looking => n = v
                                              /\ l = "idle" /\ res.err # "EIO" => Outcome(v, r, n, res)
           /\ (l \in Looking => n = v) /\ l # "idle" =>
                /\ r.kind = "read" => (Stage(v, r, n, l, c, res, t) <=> ReadStage(v, r, l))
                /\ r.kind = "stat" => Stage(v, r, n, l, c, res, t)
                /\ r.kind = "list" => (Stage(v, r, n, l, c, res, t) <=> ListStage(v, r, l, c))
                /\ r.kind = "write" => (Stage(v, r, n, l, c, res, t) <=> WriteStage(v, r, n, l, c, t))
                /\ r.kind = "copy" => (Stage(v, r, n, l, c, res, t) <=> CopyStage(v, r, n, l, c, t))
                /\ r.kind = "mkdir" => (Stage(v, r, n, l, c, res, t) <=> MkdirStage(v, r, n, l))
                /\ r.kind = "delete" => (Stage(v, r, n, l, c, res, t) <=> DeleteStage(v, r, n, l))
                /\ r.kind = "move" => (Stage(v, r, n, l, c, res, t) <=> MoveStage(v, r, l, c, t))
<1>1. CASE r.kind = "read"
  BY <1>1 DEF Stage
<1>2. CASE r.kind = "list"
  BY <1>2 DEF Stage
<1>3. CASE r.kind = "write"
  BY <1>3 DEF Stage
<1>4. CASE r.kind = "copy"
  BY <1>4 DEF Stage
<1>5. CASE r.kind = "mkdir"
  BY <1>5 DEF Stage
<1>6. CASE r.kind = "delete"
  BY <1>6 DEF Stage
<1>7. CASE r.kind = "move"
  BY <1>7 DEF Stage
<1>8. CASE r.kind = "stat"
  BY <1>8 DEF Stage
<1>9. CASE r.kind \notin {"read", "list", "write", "copy", "mkdir", "delete", "move", "stat"}
  BY <1>9 DEF Stage
<1> QED  BY <1>1, <1>2, <1>3, <1>4, <1>5, <1>6, <1>7, <1>8, <1>9

\* A call that has returned is in its last stage when its outcome is right.
LEMMA IdleStage ==
    ASSUME NEW v, NEW r, NEW n, NEW c, NEW res, NEW t, res.err # "EIO" => Outcome(v, r, n, res)
    PROVE  Stage(v, r, n, "idle", c, res, t)
<1>1. "idle" \notin Looking
  BY DEF Looking
<1>2. /\ ReadStage(v, r, "idle") /\ ListStage(v, r, "idle", c)
      /\ WriteStage(v, r, n, "idle", c, t) /\ CopyStage(v, r, n, "idle", c, t)
      /\ MkdirStage(v, r, n, "idle") /\ DeleteStage(v, r, n, "idle") /\ MoveStage(v, r, "idle", c, t)
  BY DEF ReadStage, ListStage, WriteStage, CopyStage, MkdirStage, DeleteStage, MoveStage
<1> QED  BY <1>1, <1>2 DEF Stage

\* The contract counts as the model does.
LEMMA SameCount == \A S : Contract!Cardinality(S) = Cardinality(S)
BY DEF Contract!Cardinality, Cardinality

\* The present view shows what stat(2) and readdir(2) answer.
LEMMA ViewMeans ==
    ASSUME TreeInv, Bare, NEW q \in Paths
    PROVE  /\ Contract!Has(Now, q) <=> Exists(q)
           /\ Contract!HasDir(Now, q) <=> IsDir(q)
           /\ Contract!HasFile(Now, q) <=> IsFile(q)
           /\ Exists(q) => /\ Now[q] = inode[tree[q]] /\ tree[q] \in 1..Len(inode)
                           /\ Now[q].data \in Seq(Bytes) /\ (IsDir(q) <=> ~IsFile(q))
           /\ ~Exists(q) => Now[q] = Contract!Absent /\ ~IsDir(q) /\ ~IsFile(q)
           /\ IsDir(q) => Now[q] = Contract!ADir /\ Exists(q)
           /\ IsFile(q) => Now[q] = Contract!AFile(Now[q].data) /\ Exists(q)
<1>1. Now[q] = IF tree[q] = 0 THEN Contract!Absent ELSE inode[tree[q]]
  BY DEF Now, View
<1>2. CASE tree[q] = 0
  BY <1>1, <1>2 DEF Exists, IsDir, IsFile, Contract!Has, Contract!HasDir, Contract!HasFile, Contract!Absent
<1>3. CASE tree[q] # 0
  <2>1. tree[q] \in 1..Len(inode)
    BY <1>3, LenProperties DEF TreeInv, TreeRange
  <2>2. inode[tree[q]] \in Node
    BY <2>1, ElementOfSeq DEF TreeInv, TreeRange
  <2>3. /\ inode[tree[q]].kind \in {"file", "dir"} /\ inode[tree[q]].data \in Seq(Bytes)
        /\ inode[tree[q]] = [kind |-> inode[tree[q]].kind, data |-> inode[tree[q]].data]
    BY <2>2 DEF Node
  <2>4. inode[tree[q]].kind = "dir" => inode[tree[q]] = Dir
    BY <2>1 DEF Bare
  <2> QED  BY <1>1, <1>3, <2>1, <2>3, <2>4
      DEF Exists, IsDir, IsFile, Contract!Has, Contract!HasDir, Contract!HasFile, Contract!ADir, Contract!AFile, Dir
<1> QED  BY <1>2, <1>3

\* And so do its subtrees and listings.
LEMMA ContentMeans ==
    ASSUME TreeInv, Bare, NEW q \in Paths
    PROVE  Contract!Content(Now, q) = Below(q) /\ Kids(Now, q) = Children(q)
<1>1. Contract!Content(Now, q) = Below(q)
  BY ViewMeans, Words DEF Contract!Content, Below
<1>2. ASSUME NEW c \in Below(q) PROVE Parent(c) = q <=> Len(c) = Len(q) + 1
  <2>1. c \in Paths /\ Under(c, q) /\ Len(c) \in Nat /\ Len(q) \in Nat
    BY PathTypes DEF Below
  <2>2. Len(c) > Len(q) /\ SubSeq(c, 1, Len(q)) = q
    BY <2>1 DEF Under
  <2>3. Len(c) = Len(q) + 1 => Parent(c) = q
    BY <2>1, <2>2 DEF Parent
  <2>4. Len(Parent(c)) = Len(c) - 1
    <3>1. Len(c) - 1 \in 0..Len(c)
      BY <2>1, <2>2
    <3>2. \A n \in 0..Len(c) : Len(SubSeq(c, 1, n)) = n
      BY <2>1, PathTypes
    <3> QED  BY ONLY <3>1, <3>2 DEF Parent
  <2> QED  BY <2>1, <2>3, <2>4
<1>3. \A c : Contract!Above(c) = Parent(c)
  BY Words
<1> QED  BY <1>1, <1>2, <1>3 DEF Kids, Children

\* What is above an entry is a directory, and a file has nothing below it.
LEMMA TreeShape ==
    ASSUME TreeInv, NEW q \in Paths
    PROVE  /\ Exists(q) => Exists(Root)
           /\ Exists(q) /\ q # Root => IsDir(Parent(q))
           /\ IsFile(q) => Below(q) = {}
           /\ IsDir(Parent(q)) => \A a \in Paths : Under(q, a) => IsDir(a)
           /\ Exists(q) => \A a \in Paths : Under(q, a) => IsDir(a)
<1>1. \A a, b \in Paths : Exists(a) /\ Under(a, b) => IsDir(b)
  BY DEF TreeInv, Rooted
<1>2. Root \in Paths /\ (q # Root => Under(q, Root))
  <2>1. Root \in Paths /\ Len(Root) = 0
    BY PathsAssumption, EmptySeq DEF Root
  <2>2. Len(q) \in Nat /\ (q # Root => Len(q) # 0)
    BY PathTypes, EmptySeq DEF Root
  <2> QED  BY <2>1, <2>2, UnderMeans
<1>3. ASSUME IsDir(Parent(q)), NEW a \in Paths, Under(q, a) PROVE IsDir(a)
  BY <1>1, <1>3, ParentMeans DEF IsDir
<1>4. IsFile(q) => Below(q) = {}
  BY <1>1 DEF Below, IsFile, IsDir
<1> QED  BY <1>1, <1>2, <1>3, <1>4, ParentMeans DEF IsDir

\* When the contract allows a call on the present tree.
LEMMA AllowedNow ==
    ASSUME TreeInv, Bare, NEW r, r.path \in Paths, r.target \in Paths
    PROVE  /\ r.kind = "read" => (Contract!Allowed(Now, r) <=> IsFile(r.path) /\ Len(Now[r.path].data) <= r.max)
           /\ r.kind = "stat" => (Contract!Allowed(Now, r) <=> Exists(r.path))
           /\ r.kind = "list" => (Contract!Allowed(Now, r) <=>
                 IsDir(r.path) /\ Cardinality(Children(r.path)) <= MaxListEntries)
           /\ r.kind = "write" => (Contract!Allowed(Now, r) <=>
                 /\ Len(r.content) <= MaxWriteBytes /\ r.path # Root
                 /\ IsDir(Parent(r.path)) /\ Free(Now, r.path, r.overwrite))
           /\ r.kind = "copy" => (Contract!Allowed(Now, r) <=>
                 /\ IsFile(r.path) /\ Len(Now[r.path].data) <= MaxCopyBytes
                 /\ r.target # Root /\ IsDir(Parent(r.target)) /\ Free(Now, r.target, r.overwrite))
           /\ r.kind = "mkdir" => (Contract!Allowed(Now, r) <=>
                 Exists(Root) /\ \A a \in Paths : (r.path = a \/ Under(r.path, a)) => ~IsFile(a))
           /\ r.kind = "delete" => (Contract!Allowed(Now, r) <=>
                 /\ Exists(r.path)
                 /\ IsDir(r.path) =>
                      Below(r.path) = {} \/ (r.recursive /\ Cardinality(Below(r.path)) <= MaxDeleteEntries))
           /\ r.kind = "move" => (Contract!Allowed(Now, r) <=>
                 /\ Exists(r.path) /\ ~(r.target = r.path \/ Under(r.target, r.path))
                 /\ r.target # Root /\ IsDir(Parent(r.target)) /\ Free(Now, r.target, r.overwrite)
                 /\ Exists(r.target) => IsFile(r.path))
<1>1. /\ Contract!Has(Now, r.path) <=> Exists(r.path) 
      /\ Contract!HasDir(Now, r.path) <=> IsDir(r.path)
      /\ Contract!HasFile(Now, r.path) <=> IsFile(r.path)
      /\ Contract!Has(Now, r.target) <=> Exists(r.target)
      /\ Contract!HasFile(Now, r.target) <=> IsFile(r.target)
      /\ Contract!Content(Now, r.path) = Below(r.path)
      /\ Kids(Now, r.path) = Children(r.path)
  BY ViewMeans, ContentMeans
<1>2. /\ Contract!HasDir(Now, Contract!Above(r.path)) <=> IsDir(Parent(r.path))
      /\ Contract!HasDir(Now, Contract!Above(r.target)) <=> IsDir(Parent(r.target))
  BY ViewMeans, ParentMeans, Words
<1>3. \A q, o : Contract!MayPut(Now, q, o) <=>
                q # Root /\ Contract!HasDir(Now, Contract!Above(q)) /\ Free(Now, q, o)
  BY DEF Contract!MayPut, Free, Root
<1>4. CASE r.kind = "read"
  BY <1>1, <1>4 DEF Contract!Allowed
<1>5. CASE r.kind = "stat"
  BY <1>1, <1>5 DEF Contract!Allowed
<1>6. CASE r.kind = "list"
  <2>1. Contract!Allowed(Now, r) <=>
          Contract!HasDir(Now, r.path) /\ Cardinality(Kids(Now, r.path)) <= MaxListEntries
    BY <1>6, SameCount DEF Contract!Allowed, Kids
  <2> QED  BY <1>1, <1>6, <2>1
<1>7. CASE r.kind = "write"
  BY <1>2, <1>3, <1>7 DEF Contract!Allowed
<1>8. CASE r.kind = "copy"
  BY <1>1, <1>2, <1>3, <1>8 DEF Contract!Allowed
<1>9. CASE r.kind = "mkdir"
  <2>1. Contract!Allowed(Now, r) <=>
          Contract!Has(Now, Root) /\ \A a \in Paths : Contract!At(r.path, a) => ~Contract!HasFile(Now, a)
    BY <1>9 DEF Contract!Allowed, Root
  <2>2. Contract!Has(Now, Root) <=> Exists(Root)
    BY ViewMeans, PathsAssumption DEF Root
  <2>3. \A a \in Paths : /\ Contract!HasFile(Now, a) <=> IsFile(a)
                         /\ Contract!At(r.path, a) <=> r.path = a \/ Under(r.path, a)
    BY ViewMeans, Words
  <2> QED  BY <1>9, <2>1, <2>2, <2>3
<1>10. CASE r.kind = "delete"
  <2>1. Contract!Allowed(Now, r) <=>
          /\ Contract!Has(Now, r.path)
          /\ Contract!HasDir(Now, r.path) =>
                \/ Contract!Content(Now, r.path) = {}
                \/ r.recursive /\ Cardinality(Contract!Content(Now, r.path)) <= MaxDeleteEntries
    BY <1>10, SameCount DEF Contract!Allowed
  <2> QED  BY <1>1, <1>10, <2>1
<1>11. CASE r.kind = "move"
  BY <1>1, <1>2, <1>3, <1>11, Words DEF Contract!Allowed
<1> QED  BY <1>4, <1>5, <1>6, <1>7, <1>8, <1>9, <1>10, <1>11

\* A call that is allowed to look only leaves the view.
LEMMA AfterMeans ==
    ASSUME NEW v, NEW r
    PROVE  /\ r.kind \in {"read", "stat", "list"} => Contract!After(v, r) = v
           /\ r.kind = "write" => Contract!After(v, r) = [v EXCEPT ![r.path] = Contract!AFile(r.content)]
           /\ r.kind = "copy" => Contract!After(v, r) = [v EXCEPT ![r.target] = v[r.path]]
           /\ r.kind = "mkdir" => Contract!After(v, r) =
                 [q \in Paths |-> IF r.path = q \/ Under(r.path, q) THEN Contract!ADir ELSE v[q]]
           /\ r.kind = "delete" => Contract!After(v, r) =
                 [q \in Paths |-> IF q = r.path \/ Under(q, r.path) THEN Contract!Absent ELSE v[q]]
           /\ r.kind = "move" => Contract!After(v, r) =
                 [q \in Paths |->
                    IF q = r.path \/ Under(q, r.path) THEN Contract!Absent
                    ELSE IF q = r.target \/ Under(q, r.target)
                    THEN LET o == r.path \o SubSeq(q, Len(r.target) + 1, Len(q))
                         IN IF o \in Paths THEN v[o] ELSE Contract!Absent
                    ELSE v[q]]
<1>1. CASE r.kind \in {"read", "stat", "list"}
  BY <1>1 DEF Contract!After
<1>2. CASE r.kind = "write"
  BY <1>2 DEF Contract!After
<1>3. CASE r.kind = "copy"
  BY <1>3 DEF Contract!After
<1>4. CASE r.kind = "mkdir"
  BY <1>4, Words DEF Contract!After
<1>5. CASE r.kind = "delete"
  BY <1>5, Words DEF Contract!After
<1>6. CASE r.kind = "move"
  BY <1>6, Words DEF Contract!After
<1> QED  BY <1>1, <1>2, <1>3, <1>4, <1>5, <1>6

\* What a call is to report.
LEMMA ReportsMeans ==
    ASSUME NEW v, NEW r, NEW res
    PROVE  /\ r.kind = "read" => (Contract!Reports(v, r, res) <=> res.data = v[r.path].data)
           /\ r.kind = "stat" => (Contract!Reports(v, r, res) <=>
                                    res.kind = v[r.path].kind /\ res.data = v[r.path].data)
           /\ r.kind = "list" => (Contract!Reports(v, r, res) <=> res.names = Kids(v, r.path))
           /\ r.kind = "mkdir" => (Contract!Reports(v, r, res) <=> res.created = ~Contract!Has(v, r.path))
           /\ r.kind \in {"write", "copy", "delete", "move"} => Contract!Reports(v, r, res)
<1>1. CASE r.kind = "read"
  BY <1>1 DEF Contract!Reports
<1>2. CASE r.kind = "stat"
  BY <1>2 DEF Contract!Reports
<1>3. CASE r.kind = "list"
  BY <1>3 DEF Contract!Reports, Kids
<1>4. CASE r.kind = "mkdir"
  BY <1>4 DEF Contract!Reports
<1>5. CASE r.kind \in {"write", "copy", "delete", "move"}
  BY <1>5 DEF Contract!Reports
<1> QED  BY <1>1, <1>2, <1>3, <1>4, <1>5

-----------------------------------------------------------------------------
(* The steps that look: the view the call started from is the present one *)

Ready(p) == /\ Shapes /\ TreeInv /\ Bare /\ op[p] \in Requests
            /\ ~IsFile(Root) /\ ~(op[p].kind = "copy" /\ op[p].path = op[p].target)
Here(p) == Stage(Now, op[p], Now, pc[p], loc[p], result[p], tree)
\* The same after a step that looks.
There(p) == Stage(Now, op[p], Now, pc'[p], loc'[p], result'[p], tree)

\* A request that may be asked for.
LEMMA AskedMeans ==
    ASSUME NEW p \in Procs, Ready(p)
    PROVE  /\ op[p].kind \in {"read", "stat", "list", "write", "copy", "mkdir", "delete", "move"}
           /\ op[p].path \in Paths /\ op[p].target \in Paths /\ Root \in Paths
           /\ op[p].content \in Seq(Bytes) /\ op[p].max \in Nat /\ (op[p].kind = "read" => op[p].max > 0)
           /\ op[p].overwrite \in BOOLEAN /\ op[p].recursive \in BOOLEAN
BY RequestsAssumption, PathsAssumption DEF Ready, Root

\* A refusal is right when the contract does not allow the call.
LEMMA Refused ==
    ASSUME NEW p \in Procs, Ready(p), NEW e, e # "ok", Expected(e),
           ~Contract!Allowed(Now, op[p]), Return(p, Failed(e))
    PROVE  There(p)
<1>1. pc'[p] = "idle" /\ result'[p].err = e
  BY ReturnEffect, FailedMeans DEF Ready
<1>2. Outcome(Now, op[p], Now, result'[p])
  BY <1>1 DEF Outcome, Expected
<1> QED  BY <1>1, <1>2, IdleStage DEF There

\* A check refuses rightly or leads to the next stage.
LEMMA CheckedStage ==
    ASSUME NEW p \in Procs, Ready(p), NEW e, NEW label, Checked(p, e, label), label # "idle",
           e # "ok" => Expected(e) /\ ~Contract!Allowed(Now, op[p]),
           e = "ok" => Stage(Now, op[p], Now, label, loc'[p], result[p], tree)
    PROVE  There(p)
<1>1. CASE e = "ok"
  <2>1. pc'[p] = label /\ result'[p] = result[p]
    BY <1>1 DEF Checked, Goto, Ready, Shapes
  <2> QED  BY <1>1, <2>1 DEF There
<1>2. CASE e # "ok"
  BY <1>2, Refused DEF Checked
<1> QED  BY <1>1, <1>2

\* stat(2) says what is missing, and why.
LEMMA LookupFacts ==
    ASSUME NEW q
    PROVE  /\ Lookup(q) \in {"ok", "ENOENT", "ENOTDIR"} /\ (Lookup(q) = "ok" <=> Exists(q))
           /\ Lookup(q) = "ENOTDIR" <=> ~Exists(q) /\ \E a \in Paths : Under(q, a) /\ IsFile(a)
           /\ NotFound(Lookup(q)) \in {"ok", "ErrNotFound", "ENOTDIR"}
           /\ NotFound(Lookup(q)) = "ok" <=> Exists(q)
           /\ Expected(Lookup(q)) \/ Exists(q)
           /\ Expected(NotFound(Lookup(q))) \/ Exists(q)
BY Codes DEF Lookup, NotFound, Exists

\* A path that may be created is below a root that exists.
LEMMA CreateFacts ==
    ASSUME TreeInv, NEW q \in Paths
    PROVE  /\ ResolveForCreate(q) \in {"ok", "ENOTDIR", "ErrOutsideRoot"}
           /\ ResolveForCreate(q) = "ok" => Exists(Root)
           /\ ResolveForCreate(q) # "ok" =>
                /\ ~Exists(q) /\ ~IsDir(Parent(q)) /\ Expected(ResolveForCreate(q))
                /\ Exists(Root) => \E a \in Paths : Under(q, a) /\ IsFile(a)
<1> DEFINE Over == \E a \in Paths : Under(q, a) /\ Exists(a)
<1>1. /\ Root \in Paths /\ Parent(q) \in Paths
      /\ \A a \in Paths : IsFile(a) => Exists(a) /\ ~IsDir(a)
      /\ \A a \in Paths : IsDir(a) => Exists(a) /\ ~IsFile(a)
  BY PathsAssumption, ParentMeans DEF Root, IsFile, IsDir
<1>2. /\ \A a \in Paths : Exists(a) => Exists(Root)
      /\ IsDir(Parent(q)) => \A a \in Paths : Under(q, a) => IsDir(a)
  BY TreeShape
<1>3. q # Root => Under(q, Parent(q)) /\ Under(q, Root)
  <2>1. Len(Root) = 0 /\ Len(q) \in Nat /\ (Len(q) = 0 => q = Root)
    BY PathTypes, EmptySeq DEF Root
  <2> QED  BY <1>1, <2>1, ParentMeans, UnderMeans
<1>4. q = Root => Parent(q) = Root
  <2> SUFFICES ASSUME q = Root PROVE Parent(q) = Root
    OBVIOUS
  <2>1. q \in Seq(Names) /\ Len(q) = 0
    BY PathTypes, EmptySeq DEF Root
  <2>2. Len(q) - 1 \in Int /\ Len(q) - 1 < 1
    BY <2>1
  <2> QED  BY <2>1, <2>2, SubSeqEmpty DEF Parent, Root
<1>5. CASE Lookup(q) = "ok"
  BY <1>1, <1>2, <1>5, LookupFacts DEF ResolveForCreate
<1>6. CASE Lookup(q) = "ENOTDIR"
  BY <1>1, <1>2, <1>6, LookupFacts DEF ResolveForCreate
<1>7. CASE Lookup(q) = "ENOENT" /\ Over
  <2>1. ResolveForCreate(q) = "ok"
    BY <1>7 DEF ResolveForCreate
  <2> QED  BY <1>2, <1>7, <2>1
<1>8. CASE Lookup(q) = "ENOENT" /\ ~Over
  <2>1. ResolveForCreate(q) = "ErrOutsideRoot" /\ ~Exists(q)
    BY <1>8, LookupFacts DEF ResolveForCreate
  <2>2. ~IsDir(Parent(q)) /\ ~Exists(Root)
    BY <1>1, <1>3, <1>4, <1>8, <2>1
  <2> QED  BY <2>1, <2>2, Codes
<1> QED  BY <1>5, <1>6, <1>7, <1>8, LookupFacts

\* The arguments of every operation are resolved first.
LEMMA ResolveStage ==
    ASSUME NEW p \in Procs, Ready(p), Here(p), Resolve(p)
    PROVE  There(p)
<1> DEFINE r == op[p]
           e == ResolveError(r)
           label == CASE r.kind = "mkdir" -> "mkdirall" [] r.kind = "list" -> "readdir" [] OTHER -> "stat"
           f == IF e = "ok" /\ r.kind = "write" /\ Len(r.content) > MaxWriteBytes THEN "ErrLimitExceeded" ELSE e
<1>1. /\ r.kind \in {"read", "stat", "list", "write", "copy", "mkdir", "delete", "move"}
      /\ r.path \in Paths /\ r.target \in Paths /\ Root \in Paths /\ Len(r.content) \in Nat /\ MaxWriteBytes \in Nat
  BY AskedMeans, LimitsAssumption, LenProperties
<1>2. loc'[p] = loc[p] /\ TreeInv /\ Bare /\ ~IsFile(Root)
  BY DEF Resolve, Keeps, Ready
<1>3. /\ r.kind = "mkdir" => label = "mkdirall"
      /\ r.kind = "list" => label = "readdir"
      /\ r.kind \notin {"mkdir", "list"} => label = "stat"
  OBVIOUS
<1>4. /\ r.kind \in {"list", "read", "delete"} => e = Lookup(r.path)
      /\ r.kind = "stat" => e = NotFound(Lookup(r.path))
      /\ r.kind \in {"write", "mkdir"} => e = ResolveForCreate(r.path)
      /\ r.kind = "copy" => e = IF Lookup(r.path) # "ok" THEN Lookup(r.path) ELSE ResolveForCreate(r.target)
      /\ r.kind = "move" => e = IF Lookup(r.path) # "ok" THEN NotFound(Lookup(r.path))
                                ELSE IF ResolveForCreate(r.target) # "ok" THEN ResolveForCreate(r.target)
                                ELSE IF r.path = r.target THEN "ErrSamePath" ELSE "ok"
  BY DEF ResolveError, ResolveExisting
<1>5. \/ e = "ok" /\ r.kind = "mkdir" /\ r.path = Root /\ Return(p, Ok)
      \/ ~(e = "ok" /\ r.kind = "mkdir" /\ r.path = Root) /\ Checked(p, f, label)
  BY DEF Resolve, Checked
<1>6. label \in Looking /\ label # "idle"
  BY <1>3 DEF Looking
<1>9. pc[p] = "resolve" /\ pc[p] # "idle"
  BY DEF Resolve
<1> HIDE DEF label, e
<1>7. CASE e = "ok" /\ r.kind = "mkdir" /\ r.path = Root /\ Return(p, Ok)
  <2>1. pc'[p] = "idle" /\ result'[p] = Ok /\ Ok.err = "ok" /\ Ok.created = FALSE
    BY <1>7, ReturnEffect, FailedMeans DEF Ready
  <2>2. IsDir(Root) /\ Exists(Root) /\ Now[Root] = Contract!ADir /\ Contract!Has(Now, Root)
    <3>1. Exists(Root)
      BY <1>1, <1>2, <1>4, <1>7, CreateFacts
    <3> QED  BY <1>1, <1>2, <3>1, ViewMeans
  <2>3. \A a \in Paths : ~Under(Root, a)
    <3>1. Len(Root) = 0
      BY EmptySeq DEF Root
    <3> QED  BY <3>1, PathTypes DEF Under
  <2>4. Contract!Allowed(Now, r)
    BY <1>1, <1>2, <1>7, <2>2, <2>3, AllowedNow
  <2>5. Contract!After(Now, r) = Now
    <3>1. Contract!After(Now, r) = [q \in Paths |-> IF r.path = q \/ Under(r.path, q) THEN Contract!ADir ELSE Now[q]]
      BY <1>7, AfterMeans
    <3>2. Now = [q \in Paths |-> Now[q]]
      BY DEF Now, View
    <3> QED  BY <1>7, <2>2, <2>3, <3>1, <3>2
  <2>6. Contract!Reports(Now, r, Ok)
    BY <1>7, <2>1, <2>2, ReportsMeans
  <2>7. Outcome(Now, r, Now, Ok)
    BY <2>1, <2>4, <2>5, <2>6 DEF Outcome
  <2> QED  BY <2>1, <2>7, IdleStage DEF There
<1>8. CASE ~(e = "ok" /\ r.kind = "mkdir" /\ r.path = Root) /\ Checked(p, f, label)
  <2>1. ASSUME f # "ok" PROVE Expected(f) /\ ~Contract!Allowed(Now, r)
    <3>1. CASE e = "ok"
      <4>1. f = "ErrLimitExceeded" /\ r.kind = "write" /\ Len(r.content) > MaxWriteBytes
        BY <2>1, <3>1
      <4> QED  BY <1>1, <1>2, <4>1, AllowedNow, Codes
    <3>2. CASE e # "ok"
      <4>1. f = e
        BY <3>2
      <4>2. CASE r.kind \in {"list", "read", "delete", "stat"}
        <5>1. ~Exists(r.path) /\ Expected(e) /\ ~IsDir(r.path) /\ ~IsFile(r.path)
          BY <1>4, <3>2, <4>2, LookupFacts DEF IsDir, IsFile
        <5> QED  BY <1>1, <1>2, <4>1, <4>2, <5>1, AllowedNow
      <4>3. CASE r.kind = "write"
        BY <1>1, <1>2, <1>4, <3>2, <4>1, <4>3, AllowedNow, CreateFacts
      <4>4. CASE r.kind = "mkdir"
        BY <1>1, <1>2, <1>4, <3>2, <4>1, <4>4, AllowedNow, CreateFacts
      <4>5. CASE r.kind \in {"copy", "move"} /\ Lookup(r.path) # "ok"
        <5>1. ~Exists(r.path) /\ Expected(e) /\ ~IsFile(r.path)
          BY <1>4, <4>5, LookupFacts DEF IsFile
        <5> QED  BY <1>1, <1>2, <4>1, <4>5, <5>1, AllowedNow
      <4>6. CASE r.kind = "copy" /\ Lookup(r.path) = "ok"
        BY <1>1, <1>2, <1>4, <3>2, <4>1, <4>6, AllowedNow, CreateFacts
      <4>7. CASE r.kind = "move" /\ Lookup(r.path) = "ok" /\ ResolveForCreate(r.target) # "ok"
        BY <1>1, <1>2, <1>4, <3>2, <4>1, <4>7, AllowedNow, CreateFacts
      <4>8. CASE r.kind = "move" /\ r.path = r.target /\ e = "ErrSamePath"
        BY <1>1, <1>2, <4>1, <4>8, AllowedNow, Codes
      <4> QED  BY <1>1, <1>4, <3>2, <4>2, <4>3, <4>4, <4>5, <4>6, <4>7, <4>8
    <3> QED  BY <3>1, <3>2
  <2>2. ASSUME f = "ok" PROVE Stage(Now, r, Now, label, loc[p], result[p], tree)
    <3>1. e = "ok" /\ ~(r.kind = "write" /\ Len(r.content) > MaxWriteBytes)
      BY <2>2
    <3>2. r.kind \in {"write", "mkdir", "copy", "move"} => Contract!Has(Now, Root)
      <4>1. \/ ResolveForCreate(r.path) = "ok" \/ ResolveForCreate(r.target) = "ok"
            \/ r.kind \notin {"write", "mkdir", "copy", "move"}
        BY <1>4, <3>1, LookupFacts
      <4>2. Contract!Has(Now, Root) <=> Exists(Root)
        BY <1>1, <1>2, ViewMeans
      <4> QED  BY <1>1, <1>2, <4>1, <4>2, CreateFacts
    <3>3. r.kind = "move" => r.path # r.target
      BY <1>4, <3>1, LookupFacts
    <3>4. CASE r.kind \in {"read", "stat", "list", "delete"}
      <4>1. ReadStage(Now, r, "stat") /\ DeleteStage(Now, r, Now, "stat")
        BY DEF ReadStage, DeleteStage
      <4>2. r.kind = "list" => ListStage(Now, r, "readdir", loc[p])
        BY <1>9, StageMeans DEF ListStage, Here
      <4> QED  BY <1>3, <1>6, <3>4, <4>1, <4>2, StageMeans
    <3>5. CASE r.kind = "write"
      <4>1. WriteStage(Now, r, Now, "stat", loc[p], tree)
        BY <1>1, <3>1, <3>2, <3>5 DEF WriteStage
      <4> QED  BY <1>3, <1>6, <3>5, <4>1, StageMeans
    <3>6. CASE r.kind = "copy"
      <4>1. CopyStage(Now, r, Now, "stat", loc[p], tree)
        BY <3>2, <3>6 DEF CopyStage
      <4> QED  BY <1>3, <1>6, <3>6, <4>1, StageMeans
    <3>7. CASE r.kind = "mkdir"
      <4>1. MkdirStage(Now, r, Now, "mkdirall")
        BY <1>8, <3>1, <3>2, <3>7 DEF MkdirStage
      <4> QED  BY <1>3, <1>6, <3>7, <4>1, StageMeans
    <3>8. CASE r.kind = "move"
      <4>1. MoveStage(Now, r, "stat", loc[p], tree)
        BY <3>2, <3>3, <3>8 DEF MoveStage
      <4> QED  BY <1>3, <1>6, <3>8, <4>1, StageMeans
    <3> QED  BY <1>1, <3>4, <3>5, <3>6, <3>7, <3>8
  <2> HIDE DEF f, r
  <2>3. Checked(p, f, label)
    BY <1>8
  <2> QED  BY <1>2, <1>6, <2>1, <2>2, <2>3, CheckedStage DEF r
<1> QED  BY <1>5, <1>7, <1>8

\* read_file
LEMMA ReadStages ==
    ASSUME NEW p \in Procs, Ready(p), Here(p), ReadStat(p) \/ ReadFile(p)
    PROVE  There(p)
<1> DEFINE r == op[p]
           q == r.path
<1>1. /\ r.kind = "read" /\ q \in Paths /\ r.target \in Paths /\ r.max \in Nat /\ r.max > 0
      /\ TreeInv /\ Bare /\ loc'[p] = loc[p]
  BY AskedMeans DEF Ready, ReadStat, ReadFile, At, Keeps
<1>2. Contract!Allowed(Now, r) <=> IsFile(q) /\ Len(Now[q].data) <= r.max
  BY <1>1, AllowedNow
<1>3. /\ Exists(q) => Now[q] = inode[tree[q]] /\ Now[q].data \in Seq(Bytes) /\ (IsDir(q) <=> ~IsFile(q))
      /\ IsFile(q) => Exists(q)
  BY <1>1, ViewMeans
<1>4. CASE ReadStat(p)
  <2> DEFINE e == IF ~Exists(q) THEN Lookup(q) ELSE IF IsDir(q) THEN "ErrPathIsDirectory"
                  ELSE IF Len(inode[tree[q]].data) > r.max THEN "ErrFileTooLarge" ELSE "ok"
  <2>1. Checked(p, e, "readfile")
    BY <1>1, <1>4, LookupMeans DEF ReadStat, Checked
  <2>2. e # "ok" => Expected(e) /\ ~Contract!Allowed(Now, r)
    <3>1. Exists(q) => Len(Now[q].data) \in Nat
      BY <1>3, LenProperties
    <3>2. Expected(Lookup(q)) \/ Exists(q)
      BY LookupFacts
    <3>3. Expected("ErrPathIsDirectory") /\ Expected("ErrFileTooLarge")
      BY Codes
    <3>4. CASE ~Exists(q) \/ IsDir(q)
      BY <1>2, <1>3, <3>2, <3>3, <3>4
    <3>5. CASE Exists(q) /\ ~IsDir(q) /\ Len(inode[tree[q]].data) > r.max
      BY <1>1, <1>2, <1>3, <3>1, <3>3, <3>5
    <3> QED  BY <3>4, <3>5
  <2>3. e = "ok" => Contract!Allowed(Now, r)
    <3>1. Exists(q) => Len(Now[q].data) \in Nat
      BY <1>3, LenProperties
    <3>2. ~Exists(q) => Lookup(q) # "ok"
      BY LookupMeans
    <3> QED  BY <1>1, <1>2, <1>3, <3>1, <3>2
  <2>4. "readfile" \in Looking /\ "readfile" # "idle"
    BY DEF Looking
  <2>5. e = "ok" => Stage(Now, r, Now, "readfile", loc'[p], result[p], tree)
    BY <1>1, <2>3, <2>4, StageMeans DEF ReadStage
  <2> HIDE DEF e
  <2> QED  BY <2>1, <2>2, <2>4, <2>5, CheckedStage
<1>5. CASE ReadFile(p)
  <2>1. pc[p] = "readfile"
    BY <1>5 DEF ReadFile, At
  <2>2. Contract!Allowed(Now, r)
    BY <1>1, <2>1, StageMeans DEF Here, ReadStage
  <2> DEFINE a == [Ok EXCEPT !.data = inode[tree[q]].data]
  <2>3. Return(p, a)
    BY <1>2, <1>3, <1>5, <2>2 DEF ReadFile
  <2>4. a.err = "ok" /\ a.data = Now[q].data
    BY <1>2, <1>3, <2>2 DEF Ok, NoResult
  <2> HIDE DEF a
  <2>5. pc'[p] = "idle" /\ result'[p] = a
    BY <2>3, ReturnEffect DEF Ready
  <2>6. Outcome(Now, r, Now, a)
    BY <1>1, <2>2, <2>4, AfterMeans, ReportsMeans DEF Outcome
  <2> QED  BY <2>5, <2>6, IdleStage DEF There
<1> QED  BY <1>4, <1>5

\* stat
LEMMA StatStages ==
    ASSUME NEW p \in Procs, Ready(p), Here(p), Stat(p)
    PROVE  There(p)
<1> DEFINE r == op[p]
           q == r.path
           a == [Ok EXCEPT !.kind = inode[tree[q]].kind, !.data = inode[tree[q]].data]
<1>1. r.kind = "stat" /\ q \in Paths /\ r.target \in Paths /\ TreeInv /\ Bare
  BY AskedMeans DEF Ready, Stat, At
<1>2. Contract!Allowed(Now, r) <=> Exists(q)
  BY <1>1, AllowedNow
<1>3. CASE Exists(q)
  <2>1. Return(p, a)
    BY <1>3 DEF Stat
  <2>2. a.err = "ok" /\ a.kind = Now[q].kind /\ a.data = Now[q].data
    BY <1>1, <1>3, ViewMeans DEF Ok, NoResult
  <2> HIDE DEF a
  <2>3. pc'[p] = "idle" /\ result'[p] = a
    BY <2>1, ReturnEffect DEF Ready
  <2>4. Outcome(Now, r, Now, a)
    BY <1>1, <1>2, <1>3, <2>2, AfterMeans, ReportsMeans DEF Outcome
  <2> QED  BY <2>3, <2>4, IdleStage DEF There
<1>4. CASE ~Exists(q)
  <2> DEFINE e == NotFound(Lookup(q))
  <2>1. Return(p, Failed(e)) /\ e # "ok" /\ Expected(e)
    BY <1>4, LookupFacts DEF Stat
  <2> HIDE DEF e
  <2> QED  BY <1>2, <1>4, <2>1, Refused
<1> QED  BY <1>3, <1>4

\* list_directory: the entries that are left and the names that are taken are
\* the children, and there is room for the names.
LEMMA ListStages ==
    ASSUME NEW p \in Procs, Ready(p), Here(p), ListReadDir(p) \/ ListEntry(p)
    PROVE  There(p)
<1> DEFINE r == op[p]
           q == r.path
           K == Children(q)
<1>1. /\ r.kind = "list" /\ q \in Paths /\ r.target \in Paths /\ TreeInv /\ Bare
      /\ MaxListEntries \in Nat /\ MaxListEntries > 0
  BY AskedMeans, LimitsAssumption DEF Ready, ListReadDir, ListEntry, At
<1>2. Contract!Allowed(Now, r) <=> IsDir(q) /\ Cardinality(K) <= MaxListEntries
  BY <1>1, AllowedNow
<1>3. K \subseteq Paths /\ IsFiniteSet(K) /\ Kids(Now, q) = K /\ \A c \in K : Exists(c)
  <2>1. K \subseteq Paths /\ \A c \in K : Exists(c)
    BY DEF Children, Below
  <2>2. IsFiniteSet(K)
    BY <2>1, PathsAssumption, FS_Subset
  <2> QED  BY <1>1, <2>1, <2>2, ContentMeans
<1>4. (Contract!HasDir(Now, q) <=> IsDir(q)) /\ (IsDir(q) => Exists(q))
  BY <1>1, ViewMeans
<1>5. "entries" \in Looking /\ "entries" # "idle" /\ loc[p] \in Locals /\ loc \in [Procs -> Locals]
  BY DEF Looking, Ready, Shapes
<1> HIDE DEF K
<1>6. CASE ListReadDir(p)
  <2>1. CASE IsDir(q)
    <3>1. Goto(p, "entries") /\ Remember(p, "entries", K) /\ pc[p] = "readdir" /\ pc[p] # "idle"
      BY <1>6, <2>1 DEF ListReadDir, K, At
    <3>2. pc'[p] = "entries" /\ loc'[p].entries = K /\ loc'[p].names = loc[p].names
      BY <1>5, <3>1, GotoEffect DEF Remember, Locals, Ready
    <3>3. loc[p].names = {}
      BY <1>1, <3>1, StageMeans DEF Here, ListStage
    <3>4. Cardinality({}) = 0
      BY FS_EmptySet
    <3>5. ListStage(Now, r, "entries", loc'[p])
      BY <1>1, <1>3, <1>4, <2>1, <3>2, <3>3, <3>4 DEF ListStage
    <3> QED  BY <1>1, <1>5, <3>2, <3>5, StageMeans DEF There
  <2>2. CASE ~IsDir(q)
    <3> DEFINE e == IF Exists(q) THEN "ENOTDIR" ELSE Lookup(q)
    <3>1. Return(p, Failed(e))
      BY <1>6, <2>2 DEF ListReadDir
    <3>2. e # "ok" /\ Expected(e)
      BY LookupFacts, Codes
    <3> HIDE DEF e
    <3> QED  BY <1>2, <2>2, <3>1, <3>2, Refused
  <2> QED  BY <2>1, <2>2
<1>7. CASE ListEntry(p)
  <2> DEFINE N == loc[p].names
             E == loc[p].entries
  <2>1. pc[p] = "entries" /\ pc[p] # "idle"
    BY <1>7 DEF ListEntry, At
  <2>2. IsDir(q) /\ N \cup E = K /\ N \cap E = {} /\ Cardinality(N) <= MaxListEntries
    BY <1>1, <1>3, <1>4, <2>1, StageMeans DEF Here, ListStage
  <2>3. IsFiniteSet(N) /\ Cardinality(N) \in Nat
    BY <1>3, <2>2, FS_Subset, FS_CardinalityType
  <2>4. CASE E = {} /\ Return(p, [Ok EXCEPT !.names = N])
    <3> DEFINE a == [Ok EXCEPT !.names = N]
    <3>1. a.err = "ok" /\ a.names = K /\ N = K
      BY <2>2, <2>4 DEF Ok, NoResult
    <3> HIDE DEF a
    <3>2. pc'[p] = "idle" /\ result'[p] = a
      BY <2>4, ReturnEffect DEF Ready, a
    <3>3. Outcome(Now, r, Now, a)
      BY <1>1, <1>2, <1>3, <2>2, <3>1, AfterMeans, ReportsMeans DEF Outcome
    <3> QED  BY <3>2, <3>3, IdleStage DEF There
  <2>5. ASSUME NEW c \in E, Cardinality(N) >= MaxListEntries, Return(p, Failed("ErrLimitExceeded"))
        PROVE  There(p)
    <3>1. c \in K /\ c \notin N
      BY <2>2
    <3>2. IsFiniteSet(N \cup {c}) /\ Cardinality(N \cup {c}) = Cardinality(N) + 1
      BY <2>3, <3>1, FS_AddElement
    <3>3. N \cup {c} \in SUBSET K
      BY <2>2, <3>1
    <3>4. Cardinality(N \cup {c}) <= Cardinality(K) /\ Cardinality(K) \in Nat
      BY <1>3, <3>3, FS_Subset, FS_CardinalityType
    <3>5. ~Contract!Allowed(Now, r)
      BY <1>1, <1>2, <2>3, <2>5, <3>2, <3>4
    <3> QED  BY <2>5, <3>5, Refused, Codes
  <2>6. ASSUME NEW c \in E, Cardinality(N) < MaxListEntries, UNCHANGED <<pc, result>>,
               loc' = [loc EXCEPT ![p].entries = @ \ {c}, ![p].names = @ \cup {c}]
        PROVE  There(p)
    <3>1. loc'[p].entries = E \ {c} /\ loc'[p].names = N \cup {c}
      BY <1>5, <2>6 DEF Locals
    <3>2. c \in K /\ c \notin N
      BY <2>2
    <3>3. Cardinality(N \cup {c}) = Cardinality(N) + 1
      BY <2>3, <3>2, FS_AddElement
    <3>4. N \cup {c} \cup (E \ {c}) = K /\ (N \cup {c}) \cap (E \ {c}) = {}
      BY <2>2, <3>2
    <3>5. Cardinality(N \cup {c}) <= MaxListEntries
      BY <1>1, <2>3, <2>6, <3>3
    <3>6. ListStage(Now, r, "entries", loc'[p])
      BY <1>1, <1>3, <1>4, <2>2, <3>1, <3>4, <3>5 DEF ListStage
    <3>7. pc'[p] = "entries"
      BY <2>1, <2>6
    <3> QED  BY <1>1, <1>5, <3>6, <3>7, StageMeans DEF There
  <2>7. \/ E = {} /\ Return(p, [Ok EXCEPT !.names = N])
        \/ \E c \in E : Cardinality(N) >= MaxListEntries /\ Return(p, Failed("ErrLimitExceeded"))
        \/ \E c \in E : /\ ~(Cardinality(N) >= MaxListEntries) /\ UNCHANGED <<pc, result>>
                        /\ loc' = [loc EXCEPT ![p].entries = @ \ {c}, ![p].names = @ \cup {c}]
    <3>1. \A c \in E : Exists(c)
      BY <1>3, <2>2
    <3> QED  BY <1>7, <3>1 DEF ListEntry
  <2>8. ~(Cardinality(N) >= MaxListEntries) => Cardinality(N) < MaxListEntries
    BY <1>1, <2>3
  <2> QED  BY <2>4, <2>5, <2>6, <2>7, <2>8
<1> QED  BY <1>6, <1>7

\* The checks of the target refuse what may not be put there.
LEMMA PolicyFacts ==
    ASSUME TreeInv, Bare, NEW q \in Paths, NEW o \in BOOLEAN, NEW d \in BOOLEAN
    PROVE  /\ TargetPolicy(q, o, d) = "ok" => Free(Now, q, o)
           /\ TargetPolicy(q, o, d) # "ok" =>
                Expected(TargetPolicy(q, o, d)) /\ ~(Free(Now, q, o) /\ IsDir(Parent(q)))
           /\ Free(Now, q, o) /\ Exists(Root) /\ ~IsFile(Root) => q # Root
<1>1. /\ Contract!Has(Now, q) <=> Exists(q)
      /\ Contract!HasFile(Now, q) <=> IsFile(q)
      /\ Exists(q) => (IsDir(q) <=> ~IsFile(q))
  BY ViewMeans
<1>2. Free(Now, q, o) <=> ~Exists(q) \/ (o /\ IsFile(q))
  BY <1>1 DEF Free
<1>3. CASE Exists(q)
  <2>1. TargetPolicy(q, o, d) = IF IsDir(q) /\ (d \/ o) THEN "ErrPathIsDirectory"
                                ELSE IF ~o THEN "ErrFileExists" ELSE "ok"
    BY <1>3 DEF TargetPolicy
  <2>2. Expected("ErrPathIsDirectory") /\ Expected("ErrFileExists")
    BY Codes
  <2> QED  BY <1>1, <1>2, <1>3, <2>1, <2>2
<1>4. CASE ~Exists(q)
  <2>1. TargetPolicy(q, o, d) = IF Lookup(q) = "ENOENT" THEN "ok" ELSE Lookup(q)
    BY <1>4 DEF TargetPolicy
  <2>2. Lookup(q) = "ENOTDIR" => ~IsDir(Parent(q))
    <3>1. \A a \in Paths : IsFile(a) => ~IsDir(a)
      BY DEF IsFile, IsDir
    <3> QED  BY <3>1, LookupFacts, TreeShape
  <2> QED  BY <1>2, <1>4, <2>1, <2>2, LookupFacts
<1> QED  BY <1>3, <1>4

\* write_file up to the open
LEMMA WriteStages ==
    ASSUME NEW p \in Procs, Ready(p), Here(p), WriteStat(p)
    PROVE  There(p)
<1> DEFINE r == op[p]
           e == TargetPolicy(r.path, r.overwrite, TRUE)
<1>1. /\ r.kind = "write" /\ r.path \in Paths /\ r.target \in Paths /\ Root \in Paths /\ r.overwrite \in BOOLEAN
      /\ TreeInv /\ Bare /\ ~IsFile(Root) /\ pc[p] = "stat" /\ loc'[p] = loc[p] /\ Checked(p, e, "open")
  BY AskedMeans DEF Ready, WriteStat, At, Keeps
<1>2. "open" \in Looking /\ "open" # "idle" /\ "stat" # "idle"
  BY DEF Looking
<1>3. Len(r.content) <= MaxWriteBytes /\ Contract!Has(Now, Root)
  BY <1>1, <1>2, StageMeans DEF Here, WriteStage
<1>4. Exists(Root)
  BY <1>1, <1>3, ViewMeans
<1>5. e # "ok" => Expected(e) /\ ~Contract!Allowed(Now, r)
  BY <1>1, AllowedNow, PolicyFacts
<1>6. e = "ok" => Stage(Now, r, Now, "open", loc'[p], result[p], tree)
  <2>1. e = "ok" => r.path # Root /\ Free(Now, r.path, r.overwrite)
    BY <1>1, <1>4, PolicyFacts
  <2>2. e = "ok" => WriteStage(Now, r, Now, "open", loc'[p], tree)
    BY <1>3, <2>1 DEF WriteStage
  <2> QED  BY <1>1, <1>2, <2>2, StageMeans
<1> HIDE DEF e
<1> QED  BY <1>1, <1>2, <1>5, <1>6, CheckedStage

\* copy_file up to the open of the target
LEMMA CopyStages ==
    ASSUME NEW p \in Procs, Ready(p), Here(p), CopyStat(p) \/ CopyTarget(p) \/ CopyOpenSource(p)
    PROVE  There(p)
<1> DEFINE r == op[p]
           q == r.path
<1>1. /\ r.kind = "copy" /\ q \in Paths /\ r.target \in Paths /\ Root \in Paths /\ r.overwrite \in BOOLEAN
      /\ TreeInv /\ Bare /\ ~IsFile(Root) /\ pc[p] \in {"stat", "target", "opensource"} /\ MaxCopyBytes \in Nat
      /\ tree[q] \in Nat
  <2>1. tree[q] \in Nat
    BY AskedMeans, LenProperties DEF Ready, TreeInv, TreeRange
  <2> QED  BY <2>1, AskedMeans, LimitsAssumption DEF Ready, CopyStat, CopyTarget, CopyOpenSource, At
<1>2. /\ {"stat", "target", "opensource", "open"} \subseteq Looking
      /\ "stat" # "idle" /\ "target" # "idle" /\ "opensource" # "idle" /\ "open" # "idle"
  BY DEF Looking
<1>3. CopyStage(Now, r, Now, pc[p], loc[p], tree)
  BY <1>1, <1>2, StageMeans DEF Here
<1>4. Exists(Root)
  BY <1>1, <1>3, ViewMeans DEF CopyStage
<1>5. /\ Exists(q) => /\ Now[q] = inode[tree[q]] /\ Now[q].data \in Seq(Bytes)
                      /\ (IsDir(q) <=> ~IsFile(q)) /\ Len(Now[q].data) \in Nat
      /\ IsFile(q) => Exists(q)
      /\ Contract!HasFile(Now, q) <=> IsFile(q)
  BY <1>1, ViewMeans, LenProperties
<1>6. Contract!Allowed(Now, r) =>
        /\ IsFile(q) /\ Len(Now[q].data) <= MaxCopyBytes
        /\ IsDir(Parent(r.target)) /\ Free(Now, r.target, r.overwrite)
  BY <1>1, AllowedNow
<1>7. CASE CopyStat(p)
  <2> DEFINE e == IF ~Exists(q) THEN Lookup(q) ELSE IF IsDir(q) THEN "ErrCopyDirectoryUnsupported"
                  ELSE IF Len(inode[tree[q]].data) > MaxCopyBytes THEN "ErrLimitExceeded" ELSE "ok"
  <2>1. Checked(p, e, "target") /\ loc'[p] = loc[p] /\ pc[p] = "stat"
    BY <1>7, LookupMeans DEF CopyStat, Checked, Keeps, At
  <2>2. e # "ok" => Expected(e) /\ ~Contract!Allowed(Now, r)
    <3>1. Expected(Lookup(q)) \/ Exists(q)
      BY LookupFacts
    <3>2. Expected("ErrCopyDirectoryUnsupported") /\ Expected("ErrLimitExceeded")
      BY Codes
    <3>3. CASE ~Exists(q) \/ IsDir(q)
      BY <1>5, <1>6, <3>1, <3>2, <3>3
    <3>4. CASE Exists(q) /\ ~IsDir(q) /\ Len(inode[tree[q]].data) > MaxCopyBytes
      BY <1>1, <1>5, <1>6, <3>2, <3>4
    <3> QED  BY <3>3, <3>4
  <2>3. ASSUME e = "ok" PROVE IsFile(q) /\ Len(Now[q].data) <= MaxCopyBytes
    <3>1. Exists(q) /\ ~IsDir(q) /\ ~(Len(inode[tree[q]].data) > MaxCopyBytes)
      BY <2>3, LookupMeans
    <3> QED  BY <1>1, <1>5, <3>1
  <2> HIDE DEF e
  <2>4. e = "ok" => CopyStage(Now, r, Now, "target", loc'[p], tree)
    BY <1>3, <1>5, <2>1, <2>3 DEF CopyStage
  <2>5. e = "ok" => Stage(Now, r, Now, "target", loc'[p], result[p], tree)
    BY <1>1, <1>2, <2>4, StageMeans
  <2> QED  BY <1>2, <2>1, <2>2, <2>5, CheckedStage
<1>8. CASE CopyTarget(p)
  <2> DEFINE e == TargetPolicy(r.target, r.overwrite, FALSE)
  <2>1. Checked(p, e, "opensource") /\ loc'[p] = loc[p] /\ pc[p] = "target"
    BY <1>8 DEF CopyTarget, Keeps, At
  <2>2. e # "ok" => Expected(e) /\ ~Contract!Allowed(Now, r)
    BY <1>1, <1>6, PolicyFacts
  <2>3. e = "ok" => r.target # Root /\ Free(Now, r.target, r.overwrite)
    BY <1>1, <1>4, PolicyFacts
  <2> HIDE DEF e
  <2>4. e = "ok" => CopyStage(Now, r, Now, "opensource", loc'[p], tree)
    BY <1>3, <2>1, <2>3 DEF CopyStage
  <2>5. e = "ok" => Stage(Now, r, Now, "opensource", loc'[p], result[p], tree)
    BY <1>1, <1>2, <2>4, StageMeans
  <2> QED  BY <1>2, <2>1, <2>2, <2>5, CheckedStage
<1>9. CASE CopyOpenSource(p)
  <2> DEFINE e == Lookup(q)
  <2>1. Checked(p, e, "open") /\ Remember(p, "src", tree[q]) /\ pc[p] = "opensource"
    BY <1>9 DEF CopyOpenSource, At
  <2>2. e = "ok"
    BY <1>3, <1>5, <2>1, LookupMeans DEF CopyStage
  <2>3. loc'[p].src = tree[q]
    BY <1>1, <2>1, Remembered DEF Ready
  <2> HIDE DEF e
  <2>4. CopyStage(Now, r, Now, "open", loc'[p], tree)
    BY <1>3, <2>1, <2>3 DEF CopyStage
  <2>5. Stage(Now, r, Now, "open", loc'[p], result[p], tree)
    BY <1>1, <1>2, <2>4, StageMeans
  <2> QED  BY <1>2, <2>1, <2>2, <2>5, CheckedStage
<1> QED  BY <1>7, <1>8, <1>9

\* delete up to the first removal
LEMMA DeleteStages ==
    ASSUME NEW p \in Procs, Ready(p), Here(p), DeleteStat(p) \/ DeleteCount(p) \/ DeleteReadDir(p)
    PROVE  There(p)
<1> DEFINE r == op[p]
           q == r.path
<1>1. /\ r.kind = "delete" /\ q \in Paths /\ r.target \in Paths /\ r.recursive \in BOOLEAN
      /\ TreeInv /\ Bare /\ pc[p] \in {"stat", "count", "delreaddir"} /\ MaxDeleteEntries \in Nat
      /\ loc'[p] = loc[p]
  BY AskedMeans, LimitsAssumption DEF Ready, DeleteStat, DeleteCount, DeleteReadDir, At, Keeps
<1>2. /\ {"stat", "count", "delreaddir", "remove"} \subseteq Looking /\ "removeall" \notin Looking
      /\ "stat" # "idle" /\ "count" # "idle" /\ "delreaddir" # "idle" /\ "remove" # "idle" /\ "removeall" # "idle"
  BY DEF Looking
<1>3. DeleteStage(Now, r, Now, pc[p])
  BY <1>1, <1>2, StageMeans DEF Here
<1>4. /\ Exists(q) => (IsDir(q) <=> ~IsFile(q))
      /\ IsFile(q) => Exists(q)
      /\ IsDir(q) => Exists(q)
      /\ Contract!Has(Now, q) <=> Exists(q)
      /\ Contract!HasDir(Now, q) <=> IsDir(q)
      /\ Contract!Content(Now, q) = Below(q)
  BY <1>1, ViewMeans, ContentMeans
<1>5. Contract!Allowed(Now, r) <=>
        /\ Exists(q)
        /\ IsDir(q) => Below(q) = {} \/ (r.recursive /\ Cardinality(Below(q)) <= MaxDeleteEntries)
  BY <1>1, AllowedNow
<1>6. Cardinality(Below(q)) \in Nat /\ (Below(q) = {} => Cardinality(Below(q)) = 0)
  <2>1. IsFiniteSet(Below(q))
    <3>1. Below(q) \in SUBSET Paths
      BY DEF Below
    <3> QED  BY <3>1, PathsAssumption, FS_Subset
  <2> QED  BY <2>1, FS_CardinalityType, FS_EmptySet
<1>7. CASE DeleteStat(p)
  <2> DEFINE label == IF IsFile(q) THEN "remove" ELSE IF r.recursive THEN "count" ELSE "delreaddir"
             e == Lookup(q)
  <2>1. Checked(p, e, label)
    BY <1>7 DEF DeleteStat
  <2>2. label \in Looking /\ label # "idle"
    BY <1>2
  <2>3. e # "ok" => Expected(e) /\ ~Contract!Allowed(Now, r)
    BY <1>5, LookupFacts
  <2>4. e = "ok" => Exists(q)
    BY LookupFacts
  <2>5. e = "ok" => DeleteStage(Now, r, Now, label)
    <3>1. IsFile(q) => Below(q) = {}
      BY <1>1, TreeShape
    <3> HIDE DEF e
    <3> QED  BY <1>1, <1>4, <2>4, <3>1 DEF DeleteStage
  <2> HIDE DEF e, label
  <2>6. e = "ok" => Stage(Now, r, Now, label, loc'[p], result[p], tree)
    BY <1>1, <2>2, <2>5, StageMeans
  <2> QED  BY <2>1, <2>2, <2>3, <2>6, CheckedStage
<1>8. CASE DeleteCount(p)
  <2> DEFINE e == IF ~Exists(q) THEN Lookup(q)
                  ELSE IF Cardinality(Below(q)) > MaxDeleteEntries THEN "ErrLimitExceeded" ELSE "ok"
  <2>1. Checked(p, e, "removeall") /\ pc[p] = "count"
    BY <1>8 DEF DeleteCount, At
  <2>2. IsDir(q) /\ Exists(q) /\ r.recursive
    BY <1>3, <1>4, <2>1 DEF DeleteStage
  <2>3. e # "ok" => Expected(e) /\ ~Contract!Allowed(Now, r)
    <3>1. Expected("ErrLimitExceeded")
      BY Codes
    <3>2. e # "ok" => Cardinality(Below(q)) > MaxDeleteEntries /\ e = "ErrLimitExceeded"
      BY <2>2
    <3> QED  BY <1>1, <1>5, <1>6, <2>2, <3>1, <3>2
  <2>4. e = "ok" => Contract!Allowed(Now, r)
    BY <1>1, <1>5, <1>6, <2>2
  <2> HIDE DEF e
  <2>5. e = "ok" => DeleteStage(Now, r, Now, "removeall")
    BY <1>4, <2>2, <2>4 DEF DeleteStage
  <2>6. e = "ok" => Stage(Now, r, Now, "removeall", loc'[p], result[p], tree)
    BY <1>1, <1>2, <2>5, StageMeans
  <2> QED  BY <1>2, <2>1, <2>3, <2>6, CheckedStage
<1>9. CASE DeleteReadDir(p)
  <2> DEFINE e == IF ~Exists(q) THEN Lookup(q) ELSE IF IsFile(q) THEN "ENOTDIR"
                  ELSE IF Below(q) # {} THEN "ErrDirectoryNotEmpty" ELSE "ok"
  <2>1. Checked(p, e, "remove") /\ pc[p] = "delreaddir"
    BY <1>9 DEF DeleteReadDir, At
  <2>2. IsDir(q) /\ Exists(q) /\ ~IsFile(q) /\ ~r.recursive
    BY <1>3, <1>4, <2>1 DEF DeleteStage
  <2>3. e # "ok" => Expected(e) /\ ~Contract!Allowed(Now, r)
    <3>1. Expected("ErrDirectoryNotEmpty")
      BY Codes
    <3> QED  BY <1>5, <2>2, <3>1
  <2>4. e = "ok" => Below(q) = {}
    BY <2>2
  <2> HIDE DEF e
  <2>5. e = "ok" => DeleteStage(Now, r, Now, "remove")
    BY <1>4, <2>2, <2>4 DEF DeleteStage
  <2>6. e = "ok" => Stage(Now, r, Now, "remove", loc'[p], result[p], tree)
    BY <1>1, <1>2, <2>5, StageMeans
  <2> QED  BY <1>2, <2>1, <2>3, <2>6, CheckedStage
<1> QED  BY <1>7, <1>8, <1>9

\* move up to the rename
LEMMA MoveStages ==
    ASSUME NEW p \in Procs, Ready(p), Here(p),
           \/ MoveStatSource(p) \/ MoveStatTarget(p) \/ MoveCheck(p)
           \/ MoveRevalidateSource(p) \/ MoveRevalidateTarget(p) \/ MoveLstat(p)
    PROVE  There(p)
<1> DEFINE r == op[p]
           s == r.path
           d == r.target
           c == loc[p]
           labels == {"stat", "stattarget", "check", "revalidatesource", "revalidatetarget", "lstat"}
<1>1. /\ r.kind = "move" /\ s \in Paths /\ d \in Paths /\ Root \in Paths /\ r.overwrite \in BOOLEAN
      /\ TreeInv /\ Bare /\ Shapes /\ ~IsFile(Root) /\ pc[p] \in labels
  BY AskedMeans DEF Ready, MoveStatSource, MoveStatTarget, MoveCheck, MoveRevalidateSource,
     MoveRevalidateTarget, MoveLstat, At
<1>2. /\ labels \cup {"rename"} \subseteq Looking /\ \A l \in labels \cup {"rename"} : l # "idle"
  BY DEF Looking
<1>3. MoveStage(Now, r, pc[p], c, tree)
  BY <1>1, <1>2, StageMeans DEF Here
<1>4. /\ Exists(s) => (IsDir(s) <=> ~IsFile(s))
      /\ Exists(d) => (IsDir(d) <=> ~IsFile(d))
      /\ IsFile(s) => Exists(s)
      /\ IsFile(d) => Exists(d)
      /\ IsDir(d) => Exists(d)
      /\ Contract!Has(Now, s) <=> Exists(s)
      /\ Contract!Has(Now, d) <=> Exists(d)
      /\ Contract!HasFile(Now, d) <=> IsFile(d)
      /\ Contract!HasFile(Now, s) <=> IsFile(s)
      /\ Contract!Has(Now, Root) <=> Exists(Root)
  BY <1>1, ViewMeans
<1>5. Contract!Allowed(Now, r) =>
        /\ Exists(s) /\ ~(d = s \/ Under(d, s))
        /\ d # Root /\ IsDir(Parent(d)) /\ Free(Now, d, r.overwrite)
        /\ Exists(d) => IsFile(s)
  BY <1>1, AllowedNow
<1>6. tree[s] \in Nat /\ tree[d] \in Nat
  BY <1>1, LenProperties DEF TreeInv, TreeRange
<1>7. Lookup(d) = "ENOTDIR" => ~Contract!Allowed(Now, r)
  <2>1. \A a \in Paths : IsFile(a) => ~IsDir(a)
    BY DEF IsFile, IsDir
  <2> QED  BY <1>1, <1>5, <2>1, LookupFacts, TreeShape
<1>8. Expected("ENOTDIR") /\ Expected("ErrMoveIntoSelf") /\ Expected("ErrFileExists") /\ Expected("ErrMoveTypeMismatch")
  BY Codes
<1>9. ASSUME NEW e, NEW label \in labels \cup {"rename"}, Checked(p, e, label),
             e # "ok" => Expected(e) /\ ~Contract!Allowed(Now, r),
             e = "ok" => MoveStage(Now, r, label, loc'[p], tree)
      PROVE  There(p)
  <2>1. e = "ok" => Stage(Now, r, Now, label, loc'[p], result[p], tree)
    BY <1>1, <1>2, <1>9, StageMeans
  <2> QED  BY <1>2, <1>9, <2>1, CheckedStage
<1> HIDE DEF labels
<1>10. CASE MoveStatSource(p)
  <2> DEFINE e == NotFound(Lookup(s))
  <2>1. Checked(p, e, "stattarget") /\ Remember(p, "src", tree[s]) /\ pc[p] = "stat"
    BY <1>10 DEF MoveStatSource, At
  <2>2. loc'[p].src = tree[s]
    BY <1>1, <1>6, <2>1, Remembered
  <2>3. (e # "ok" => Expected(e) /\ ~Contract!Allowed(Now, r)) /\ (e = "ok" => Exists(s))
    BY <1>5, LookupFacts
  <2> HIDE DEF e
  <2>4. e = "ok" => MoveStage(Now, r, "stattarget", loc'[p], tree)
    BY <1>3, <1>4, <2>1, <2>2, <2>3 DEF MoveStage
  <2> QED  BY <1>9, <2>1, <2>3, <2>4 DEF labels
<1>11. CASE MoveStatTarget(p)
  <2> DEFINE e == IF Lookup(d) = "ENOTDIR" THEN "ENOTDIR" ELSE IF tree[d] = c.src THEN "ErrSamePath" ELSE "ok"
  <2>1. Checked(p, e, "check") /\ Remember(p, "dst", tree[d]) /\ pc[p] = "stattarget"
    BY <1>11 DEF MoveStatTarget, At
  <2>2. loc'[p].dst = tree[d] /\ loc'[p].src = c.src
    BY <1>1, <1>6, <2>1, Remembered
  <2>3. Exists(s) /\ c.src = tree[s] /\ s # d
    BY <1>3, <1>4, <2>1 DEF MoveStage
  <2>4. tree[d] # c.src
    BY <1>1, <2>3 DEF TreeInv, Unique, Exists
  <2>5. e # "ok" => Expected(e) /\ ~Contract!Allowed(Now, r)
    BY <1>7, <1>8, <2>4
  <2> HIDE DEF e
  <2>6. e = "ok" => MoveStage(Now, r, "check", loc'[p], tree)
    BY <1>3, <2>1, <2>2 DEF MoveStage
  <2> QED  BY <1>9, <2>1, <2>5, <2>6 DEF labels
<1>12. CASE MoveCheck(p)
  <2> DEFINE isdir(i) == inode[i].kind = "dir"
             e == IF ~Exists(s) THEN Lookup(s)
                  ELSE IF Lookup(d) = "ENOTDIR" THEN "ENOTDIR"
                  ELSE IF isdir(c.src) /\ Under(d, s) THEN "ErrMoveIntoSelf"
                  ELSE IF c.dst # 0 /\ ~r.overwrite THEN "ErrFileExists"
                  ELSE IF c.dst # 0 /\ (isdir(c.src) \/ isdir(c.dst)) THEN "ErrMoveTypeMismatch"
                  ELSE "ok"
  <2>1. Checked(p, e, "revalidatesource") /\ pc[p] = "check" /\ loc'[p] = c
    BY <1>12 DEF MoveCheck, At, Keeps
  <2>2. Exists(s) /\ c.src = tree[s] /\ c.dst = tree[d] /\ s # d /\ Exists(Root)
    BY <1>3, <1>4, <2>1 DEF MoveStage
  <2>3. /\ isdir(c.src) <=> IsDir(s)
        /\ c.dst # 0 <=> Exists(d)
        /\ c.dst # 0 => (isdir(c.dst) <=> IsDir(d))
    BY <2>2 DEF IsDir, Exists
  <2>4. IsFile(s) /\ Under(d, s) => Lookup(d) = "ENOTDIR"
    <3>1. Exists(d) /\ Under(d, s) => IsDir(s)
      BY <1>1 DEF TreeInv, Rooted
    <3> QED  BY <1>1, <1>4, <3>1, LookupFacts
  <2>5. Free(Now, d, r.overwrite) <=> ~Exists(d) \/ (r.overwrite /\ IsFile(d))
    BY <1>4 DEF Free
  <2>6. d = s \/ Under(d, s) <=> Contract!At(d, s)
    BY Words
  <2>7. e # "ok" => Expected(e) /\ ~Contract!Allowed(Now, r)
    <3> HIDE DEF isdir
    <3> QED  BY <1>1, <1>4, <1>5, <1>7, <1>8, <2>2, <2>3, <2>5
  <2>8. ASSUME e = "ok"
        PROVE  ~Contract!At(d, s) /\ d # Root /\ Free(Now, d, r.overwrite) /\ (Exists(d) => IsFile(s))
    <3>1. /\ Lookup(d) # "ENOTDIR" /\ ~(isdir(c.src) /\ Under(d, s)) /\ ~(c.dst # 0 /\ ~r.overwrite)
          /\ ~(c.dst # 0 /\ (isdir(c.src) \/ isdir(c.dst)))
      BY <2>2, <2>8
    <3> HIDE DEF isdir, e
    <3>2. ~Under(d, s)
      BY <1>4, <2>2, <2>3, <2>4, <3>1
    <3>3. Exists(d) => r.overwrite /\ IsFile(d) /\ IsFile(s)
      BY <1>1, <1>4, <2>2, <2>3, <3>1
    <3>4. d # Root
      BY <1>1, <2>2, <3>3
    <3> QED  BY <2>2, <2>5, <2>6, <3>2, <3>3, <3>4
  <2> HIDE DEF e
  <2>9. e = "ok" => MoveStage(Now, r, "revalidatesource", loc'[p], tree)
    BY <1>3, <1>4, <2>1, <2>8 DEF MoveStage
  <2> QED  BY <1>9, <2>1, <2>7, <2>9 DEF labels
<1>13. CASE MoveRevalidateSource(p)
  <2> DEFINE e == IF ~Exists(s) THEN NotFound(Lookup(s)) ELSE IF tree[s] # c.src THEN "ErrMovePathChanged" ELSE "ok"
  <2>1. Checked(p, e, "revalidatetarget") /\ pc[p] = "revalidatesource" /\ loc'[p] = c
    BY <1>13 DEF MoveRevalidateSource, At, Keeps
  <2>2. e = "ok"
    BY <1>3, <1>4, <2>1 DEF MoveStage
  <2> HIDE DEF e
  <2>3. MoveStage(Now, r, "revalidatetarget", loc'[p], tree)
    BY <1>3, <2>1 DEF MoveStage
  <2> QED  BY <1>9, <2>1, <2>2, <2>3 DEF labels
<1>14. CASE MoveRevalidateTarget(p)
  <2> DEFINE e == IF Lookup(d) = "ENOTDIR" THEN "ENOTDIR" ELSE IF tree[d] # c.dst THEN "ErrMovePathChanged" ELSE "ok"
  <2>1. Checked(p, e, "lstat") /\ pc[p] = "revalidatetarget" /\ loc'[p] = c
    BY <1>14 DEF MoveRevalidateTarget, At, Keeps
  <2>2. e # "ok" => e = "ENOTDIR" /\ Lookup(d) = "ENOTDIR"
    BY <1>3, <2>1 DEF MoveStage
  <2> HIDE DEF e
  <2>3. MoveStage(Now, r, "lstat", loc'[p], tree)
    BY <1>3, <2>1 DEF MoveStage
  <2> QED  BY <1>7, <1>8, <1>9, <2>1, <2>2, <2>3 DEF labels
<1>15. CASE MoveLstat(p)
  <2> DEFINE e == IF IsDir(d) THEN IF Exists(s) THEN "EEXIST" ELSE Lookup(s) ELSE "ok"
  <2>1. Checked(p, e, "rename") /\ pc[p] = "lstat" /\ loc'[p] = c
    BY <1>15 DEF MoveLstat, At, Keeps
  <2>2. ~IsDir(d)
    BY <1>3, <1>4, <2>1 DEF MoveStage, Free
  <2>3. e = "ok"
    BY <2>2
  <2> HIDE DEF e
  <2>4. MoveStage(Now, r, "rename", loc'[p], tree)
    BY <1>3, <2>1 DEF MoveStage
  <2> QED  BY <1>9, <2>1, <2>3, <2>4
<1> QED  BY <1>10, <1>11, <1>12, <1>13, <1>14, <1>15

-----------------------------------------------------------------------------
(* The calls that change the tree, as changes of the view *)

\* The view is a function of the paths, one entry at a time.
LEMMA ViewAt ==
    /\ Now = [a \in Paths |-> Now[a]] /\ Now' = [a \in Paths |-> Now'[a]]
    /\ \A a \in Paths : /\ Now[a] = IF tree[a] = 0 THEN Contract!Absent ELSE inode[tree[a]]
                        /\ Now'[a] = IF tree'[a] = 0 THEN Contract!Absent ELSE inode'[tree'[a]]
BY DEF Now, View

\* An entry shows the same when its name and its inode are the same.
LEMMA ViewStays ==
    ASSUME TreeRange, NEW a \in Paths, tree'[a] = tree[a],
           tree[a] # 0 => inode'[tree[a]] = inode[tree[a]]
    PROVE  Now'[a] = Now[a]
BY ViewAt

\* A new entry shows its node.
LEMMA CreateView ==
    ASSUME TreeInv, NEW q \in Paths, NEW node \in Node, Create(q, node)
    PROVE  Now' = [Now EXCEPT ![q] = node] /\ \A a \in Paths : a # q => tree'[a] = tree[a]
<1>1. TreeRange /\ Len(inode) \in Nat /\ \A a \in Paths : tree[a] \in 0..Len(inode)
  BY LenProperties DEF TreeInv, TreeRange
<1>2. BytesStay /\ tree'[q] = Len(inode) + 1 /\ Len(inode') = Len(inode) + 1
  BY <1>1, CreateEffect
<1>3. \A a \in Paths : a # q => tree'[a] = tree[a]
  BY <1>1 DEF Create, TreeRange
<1>4. inode'[Len(inode) + 1] = node
  BY <1>1, AppendProperties DEF Create, TreeRange
<1>5. ASSUME NEW a \in Paths PROVE Now'[a] = IF a = q THEN node ELSE Now[a]
  <2>1. CASE a = q
    BY <1>1, <1>2, <1>4, <2>1, ViewAt
  <2>2. CASE a # q
    <3>1. tree[a] # 0 => inode'[tree[a]] = inode[tree[a]]
      BY <1>1, <1>2 DEF BytesStay
    <3> QED  BY <1>1, <1>3, <2>2, <3>1, ViewStays
  <2> QED  BY <2>1, <2>2
<1>6. Now' = [a \in Paths |-> IF a = q THEN node ELSE Now[a]]
  BY <1>5, ViewAt
<1>7. [Now EXCEPT ![q] = node] = [a \in Paths |-> IF a = q THEN node ELSE Now[a]]
  BY ViewAt
<1> QED  BY <1>3, <1>6, <1>7

\* New bytes show in the one file that has the inode.
LEMMA BytesView ==
    ASSUME TreeInv, NEW q \in Paths, Exists(q), IsFile(q), NEW d \in Seq(Bytes),
           inode' = [inode EXCEPT ![tree[q]].data = d], tree' = tree
    PROVE  Now' = [Now EXCEPT ![q] = Contract!AFile(d)]
<1>1. /\ TreeRange /\ Unique /\ Len(inode) \in Nat /\ \A a \in Paths : tree[a] \in 0..Len(inode)
      /\ tree[q] \in 1..Len(inode) /\ inode \in Seq(Node)
  BY LenProperties DEF TreeInv, TreeRange, Exists
<1>2. \A j \in 1..Len(inode) : j # tree[q] => inode'[j] = inode[j]
  BY <1>1, DataEffect
<1>3. inode'[tree[q]] = Contract!AFile(d)
  <2>1. inode[tree[q]] \in Node /\ inode[tree[q]].kind = "file"
    BY <1>1, ElementOfSeq DEF IsFile
  <2> DEFINE e == [inode[tree[q]] EXCEPT !.data = d]
  <2>2. e \in Node /\ e = Contract!AFile(d)
    BY <2>1 DEF Node, Contract!AFile
  <2>3. inode' = [inode EXCEPT ![tree[q]] = e]
    OBVIOUS
  <2> HIDE DEF e
  <2>4. inode'[tree[q]] = e
    BY <1>1, <2>2, <2>3, Replaced
  <2> QED  BY <2>2, <2>4
<1>4. ASSUME NEW a \in Paths PROVE Now'[a] = IF a = q THEN Contract!AFile(d) ELSE Now[a]
  <2>1. CASE a = q
    <3>1. tree'[q] = tree[q] /\ tree[q] # 0
      BY <1>1
    <3>2. Now'[q] = inode'[tree[q]]
      BY <3>1, ViewAt
    <3> QED  BY ONLY <1>3, <2>1, <3>2
  <2>2. CASE a # q
    <3>1. tree[a] # 0 => tree[a] # tree[q]
      BY <1>1, <2>2 DEF Unique, Exists
    <3>2. tree[a] # 0 => inode'[tree[a]] = inode[tree[a]]
      BY <1>1, <1>2, <3>1
    <3> QED  BY <1>1, <2>2, <3>2, ViewStays
  <2> QED  BY <2>1, <2>2
<1>5. Now' = [a \in Paths |-> IF a = q THEN Contract!AFile(d) ELSE Now[a]]
  BY <1>4, ViewAt
<1>6. [Now EXCEPT ![q] = Contract!AFile(d)] = [a \in Paths |-> IF a = q THEN Contract!AFile(d) ELSE Now[a]]
  BY ViewAt
<1> QED  BY <1>5, <1>6

\* open(2) leaves an empty file.
LEMMA OpenView ==
    ASSUME TreeInv, Bare, NEW q \in Paths, ~IsDir(q), OpenTruncate(q)
    PROVE  /\ Now' = [Now EXCEPT ![q] = Contract!AFile(<<>>)]
           /\ \A a \in Paths : a # q => tree'[a] = tree[a]
<1>1. CASE Exists(q)
  <2>1. inode' = [inode EXCEPT ![tree[q]].data = <<>>] /\ tree' = tree
    BY <1>1 DEF OpenTruncate
  <2>2. IsFile(q) /\ <<>> \in Seq(Bytes)
    BY <1>1, ViewMeans, EmptySeq
  <2> QED  BY <1>1, <2>1, <2>2, BytesView
<1>2. CASE ~Exists(q)
  <2>1. Create(q, File(<<>>)) /\ File(<<>>) = Contract!AFile(<<>>)
    BY <1>2 DEF OpenTruncate, File, Contract!AFile
  <2>2. File(<<>>) \in Node
    BY EmptySeq DEF File, Node
  <2> HIDE DEF File
  <2> QED  BY <2>1, <2>2, CreateView
<1> QED  BY <1>1, <1>2

\* Writing into an empty file leaves exactly what was written.
LEMMA WriteView ==
    ASSUME TreeInv, NEW q \in Paths, Exists(q), Now[q] = Contract!AFile(<<>>), NEW b \in Seq(Bytes),
           WriteAt(tree[q], b), tree' = tree
    PROVE  Now' = [Now EXCEPT ![q] = Contract!AFile(b)]
<1>1. inode[tree[q]] = Contract!AFile(<<>>)
  BY ViewAt DEF Exists
<1>2. IsFile(q) /\ inode[tree[q]].data = <<>>
  BY <1>1 DEF IsFile, Contract!AFile
<1>3. Overlay(b, <<>>) = b
  <2>1. Len(<<>>) = 0 /\ Len(b) \in Nat
    BY LenProperties, EmptySeq
  <2>2. SubSeq(<<>>, Len(b) + 1, Len(<<>>)) = <<>>
    <3>1. Len(b) + 1 \in Int /\ Len(<<>>) \in Int /\ Len(<<>>) < Len(b) + 1
      BY <2>1
    <3> QED  BY <3>1, SubSeqEmpty
  <2>3. b \o <<>> = b
    BY ConcatEmptySeq
  <2> QED  BY <2>2, <2>3 DEF Overlay
<1>4. inode' = [inode EXCEPT ![tree[q]].data = b]
  BY <1>2, <1>3 DEF WriteAt
<1> QED  BY <1>2, <1>4, BytesView

\* unlink(2) and rmdir(2) take one entry out.
LEMMA UnlinkView ==
    ASSUME TreeInv, NEW q \in Paths, Unlink(q)
    PROVE  Now' = [Now EXCEPT ![q] = Contract!Absent]
<1>1. TreeRange /\ inode' = inode /\ tree'[q] = 0 /\ \A a \in Paths : a # q => tree'[a] = tree[a]
  BY DEF TreeInv, TreeRange, Unlink
<1>2. \A a \in Paths : Now'[a] = IF a = q THEN Contract!Absent ELSE Now[a]
  BY <1>1, ViewAt
<1>3. Now' = [a \in Paths |-> IF a = q THEN Contract!Absent ELSE Now[a]]
  BY <1>2, ViewAt
<1>4. [Now EXCEPT ![q] = Contract!Absent] = [a \in Paths |-> IF a = q THEN Contract!Absent ELSE Now[a]]
  BY ViewAt
<1> QED  BY <1>3, <1>4

\* os.MkdirAll leaves directories down to q.
LEMMA MkdirAllView ==
    ASSUME TreeInv, Bare, NEW q \in Paths, MkdirAllError(q) = "ok", MkdirAll(q)
    PROVE  Now' = [a \in Paths |-> IF a = q \/ Under(q, a) THEN Contract!ADir ELSE Now[a]]
<1>1. /\ BytesStay
      /\ \A i \in (Len(inode) + 1)..Len(inode') : inode'[i] = Dir
      /\ \A a \in Paths \ MissingUpTo(q) : tree'[a] = tree[a]
      /\ \A a \in MissingUpTo(q) : tree'[a] \in (Len(inode) + 1)..Len(inode')
  BY MkdirAllEffect DEF TreeInv
<1>2. TreeRange /\ Len(inode) \in Nat /\ \A a \in Paths : tree[a] \in 0..Len(inode)
  BY LenProperties DEF TreeInv, TreeRange
<1>3. Dir = Contract!ADir
  BY DEF Dir, Contract!ADir
<1>4. ASSUME NEW a \in Paths PROVE Now'[a] = IF a = q \/ Under(q, a) THEN Contract!ADir ELSE Now[a]
  <2>1. CASE a \in MissingUpTo(q)
    <3>1. tree'[a] # 0 /\ inode'[tree'[a]] = Dir
      BY <1>1, <1>2, <2>1
    <3>2. a = q \/ Under(q, a)
      BY <2>1 DEF MissingUpTo
    <3> QED  BY <1>3, <3>1, <3>2, ViewAt
  <2>2. CASE a \notin MissingUpTo(q)
    <3>1. tree'[a] = tree[a]
      BY <1>1, <2>2
    <3>2. tree[a] # 0 => inode'[tree[a]] = inode[tree[a]]
      BY <1>1, <1>2 DEF BytesStay
    <3>3. Now'[a] = Now[a]
      BY <1>2, <3>1, <3>2, ViewStays
    <3>4. a = q \/ Under(q, a) => Now[a] = Contract!ADir
      <4>1. a = q \/ Under(q, a) => Exists(a) /\ ~IsFile(a)
        BY <2>2 DEF MissingUpTo, MkdirAllError
      <4> QED  BY <4>1, ViewMeans
    <3> QED  BY <3>3, <3>4
  <2> QED  BY <2>1, <2>2
<1> QED  BY <1>4, ViewAt

\* rename(2) moves the view of the source to the target.
LEMMA RenameView ==
    ASSUME TreeInv, NEW src \in Paths, NEW dst \in Paths, Rename(src, dst), ~Under(dst, src), ~Under(src, dst), src # dst
    PROVE  Now' = [q \in Paths |->
                     IF q = src \/ Under(q, src) THEN Contract!Absent
                     ELSE IF q = dst \/ Under(q, dst)
                     THEN LET o == src \o SubSeq(q, Len(dst) + 1, Len(q))
                          IN IF o \in Paths THEN Now[o] ELSE Contract!Absent
                     ELSE Now[q]]
<1> DEFINE from(q) == src \o SubSeq(q, Len(dst) + 1, Len(q))
           new(q) == IF q = src \/ Under(q, src) THEN Contract!Absent
                     ELSE IF q = dst \/ Under(q, dst)
                     THEN IF from(q) \in Paths THEN Now[from(q)] ELSE Contract!Absent
                     ELSE Now[q]
<1>1. TreeRange /\ inode' = inode
  BY DEF TreeInv, Rename
<1>2. ASSUME NEW q \in Paths
      PROVE  /\ ~(q = dst \/ Under(q, dst)) /\ (q = src \/ Under(q, src)) => tree'[q] = 0
             /\ ~(q = dst \/ Under(q, dst)) /\ ~(q = src \/ Under(q, src)) => tree'[q] = tree[q]
             /\ q = dst \/ Under(q, dst) => tree'[q] = IF from(q) \in Paths THEN tree[from(q)] ELSE 0
  BY DEF Rename, Origin
<1>3. \A q \in Paths : ~((q = src \/ Under(q, src)) /\ (q = dst \/ Under(q, dst)))
  BY UnderOrder
<1> HIDE DEF from
<1>4. ASSUME NEW q \in Paths PROVE Now'[q] = new(q)
  <2>1. CASE q = src \/ Under(q, src)
    BY <1>2, <1>3, <2>1, ViewAt
  <2>2. CASE (q = dst \/ Under(q, dst)) /\ ~(q = src \/ Under(q, src))
    BY <1>1, <1>2, <2>2, ViewAt
  <2>3. CASE ~(q = dst \/ Under(q, dst)) /\ ~(q = src \/ Under(q, src))
    BY <1>1, <1>2, <2>3, ViewAt
  <2> QED  BY <2>1, <2>2, <2>3
<1>5. Now' = [q \in Paths |-> new(q)]
  BY <1>4, ViewAt
<1> QED  BY <1>5 DEF from

-----------------------------------------------------------------------------
(* The steps that change the tree: the view v from which the call started *)

\* p gets to the next stage of a call that started from v.
Onward(v, p) == Stage(v, op[p], Now', pc'[p], loc'[p], result'[p], tree')

\* A step that looks leaves the view.
LEMMA SameView ==
    ASSUME UNCHANGED fsVars
    PROVE  Now' = Now /\ tree' = tree
BY DEF fsVars, Now, View

\* A refusal is right when the call was not allowed and the view is the old one.
LEMMA RefusedStage ==
    ASSUME Shapes, NEW p \in Procs, NEW v, Now' = v, NEW e, e # "ok", Expected(e),
           ~Contract!Allowed(v, op[p]), Return(p, Failed(e))
    PROVE  Onward(v, p)
<1>1. pc'[p] = "idle" /\ result'[p].err = e
  BY ReturnEffect, FailedMeans
<1>2. Outcome(v, op[p], Now', result'[p])
  BY <1>1 DEF Outcome, Expected
<1> QED  BY <1>1, <1>2, IdleStage DEF Onward

\* A success is right when the call was allowed and has done and said what it should.
LEMMA ServedStage ==
    ASSUME Shapes, NEW p \in Procs, NEW v, NEW res, res.err = "ok", Contract!Allowed(v, op[p]),
           Now' = Contract!After(v, op[p]), Contract!Reports(v, op[p], res), Return(p, res)
    PROVE  Onward(v, p)
<1>1. pc'[p] = "idle" /\ result'[p] = res
  BY ReturnEffect
<1>2. Outcome(v, op[p], Now', result'[p])
  BY <1>1 DEF Outcome
<1> QED  BY <1>1, <1>2, IdleStage DEF Onward

\* A missing parent is an expected failure.
LEMMA ParentFacts ==
    ASSUME NEW q, q # Root
    PROVE  /\ ParentLookup(q) = "ok" <=> IsDir(Parent(q))
           /\ ParentLookup(q) # "ok" => Expected(ParentLookup(q)) /\ ParentLookup(q) # "EEXIST"
<1>1. Expected("ENOTDIR") /\ Expected("ENOENT")
  BY Codes
<1> QED  BY <1>1 DEF ParentLookup

\* open(2) of write_file and copy_file
LEMMA OpenStage ==
    ASSUME NEW p \in Procs, Ready(p), Placed(p), Here(p), Open(p)
    PROVE  Onward(Now, p)
<1> DEFINE r == op[p]
           q == Target(p)
           e == OpenError(q, r.overwrite)
           f == IF e = "EEXIST" THEN "ErrFileExists" ELSE e
<1>1. /\ r.kind \in {"write", "copy"} /\ r.path \in Paths /\ r.target \in Paths /\ q \in Paths
      /\ r.overwrite \in BOOLEAN /\ Shapes /\ TreeInv /\ TreeRange /\ Bare /\ pc[p] = "open"
      /\ r.kind = "copy" => r.path # r.target
  BY AskedMeans DEF Ready, Placed, Open, Target, TreeInv
<1>2. "open" \in Looking /\ "transfer" \notin Looking /\ "open" # "idle" /\ "transfer" # "idle"
  BY DEF Looking
<1>3. /\ r.kind = "write" => WriteStage(Now, r, Now, "open", loc[p], tree)
      /\ r.kind = "copy" => CopyStage(Now, r, Now, "open", loc[p], tree)
  BY <1>1, <1>2, StageMeans DEF Here
<1>4. q # Root /\ Free(Now, q, r.overwrite) /\ (Contract!Allowed(Now, r) <=> IsDir(Parent(q)))
  <2>1. CASE r.kind = "write"
    BY <1>1, <1>3, <2>1, AllowedNow DEF WriteStage, Target
  <2>2. CASE r.kind = "copy"
    <3>1. IsFile(r.path)
      BY <1>1, <1>3, <2>2, ViewMeans DEF CopyStage
    <3> QED  BY <1>1, <1>3, <2>2, <3>1, AllowedNow DEF CopyStage, Target
  <2> QED  BY <1>1, <2>1, <2>2
<1>5. /\ Contract!Has(Now, q) <=> Exists(q)
      /\ Contract!HasFile(Now, q) <=> IsFile(q)
      /\ IsFile(q) => ~IsDir(q)
      /\ IsDir(q) => Exists(q)
      /\ Exists(q) => IsDir(Parent(q))
  BY <1>1, <1>4, ViewMeans, TreeShape
<1>6. /\ e = "ok" <=> IsDir(Parent(q))
      /\ e # "ok" => Expected(e) /\ e # "EEXIST"
      /\ ~IsDir(q)
  <2>1. CASE Exists(q)
    BY <1>4, <1>5, <2>1 DEF Free, OpenError
  <2>2. CASE ~Exists(q)
    <3>1. e = ParentLookup(q)
      BY <2>2 DEF OpenError
    <3> QED  BY <1>4, <1>5, <2>2, <3>1, ParentFacts
  <2> QED  BY <2>1, <2>2
<1>7. \/ /\ e = "ok" /\ OpenTruncate(q) /\ Goto(p, "transfer")
      \/ e # "ok" /\ Return(p, Failed(f)) /\ UNCHANGED fsVars
  BY DEF Open, Target, Looks
<1>8. e # "ok" => f = e
  BY <1>6
<1> HIDE DEF e, f, q
<1>9. CASE e # "ok"
  <2>1. Return(p, Failed(e)) /\ UNCHANGED fsVars
    BY <1>7, <1>8, <1>9
  <2>2. Now' = Now
    BY <2>1, SameView
  <2>3. Expected(e) /\ ~Contract!Allowed(Now, r)
    BY <1>4, <1>6, <1>9
  <2> QED  BY <1>1, <1>9, <2>1, <2>2, <2>3, RefusedStage
<1>10. CASE e = "ok"
  <2>1. OpenTruncate(q) /\ Goto(p, "transfer")
    BY <1>7, <1>10
  <2>2. /\ Now' = [Now EXCEPT ![q] = Contract!AFile(<<>>)]
        /\ \A a \in Paths : a # q => tree'[a] = tree[a]
    BY <1>1, <1>6, <2>1, OpenView
  <2>3. pc'[p] = "transfer" /\ loc'[p].src = loc[p].src /\ loc'[p].dst = tree'[q]
    <3>1. pc'[p] = "transfer"
      BY <1>1, <2>1, GotoEffect
    <3> QED  BY <1>1, <3>1, OpenEffect DEF q
  <2>4. Contract!Allowed(Now, r)
    BY <1>4, <1>6, <1>10
  <2>5. CASE r.kind = "write"
    <3>1. q = r.path
      BY <2>5 DEF q, Target
    <3>2. WriteStage(Now, r, Now', "transfer", loc'[p], tree')
      BY <2>2, <2>3, <2>4, <3>1 DEF WriteStage
    <3> QED  BY <1>2, <2>3, <2>5, <3>2, StageMeans DEF Onward
  <2>6. CASE r.kind = "copy"
    <3>1. q = r.target
      BY <2>6 DEF q, Target
    <3>2. loc[p].src = tree[r.path] /\ tree'[r.path] = tree[r.path]
      BY <1>1, <1>3, <2>2, <2>6, <3>1 DEF CopyStage
    <3>3. CopyStage(Now, r, Now', "transfer", loc'[p], tree')
      BY <2>2, <2>3, <2>4, <3>1, <3>2 DEF CopyStage
    <3> QED  BY <1>2, <2>3, <2>6, <3>3, StageMeans DEF Onward
  <2> QED  BY <1>1, <2>5, <2>6
<1> QED  BY <1>9, <1>10

\* What is fixed while a call that started from v goes on.
Going(v, p) == /\ Shapes /\ TreeInv /\ Bare /\ Placed(p) /\ op[p] \in Requests
               /\ v = [a \in Paths |-> v[a]]
               /\ ~(op[p].kind = "copy" /\ op[p].path = op[p].target)
               /\ Stage(v, op[p], Now, pc[p], loc[p], result[p], tree)

\* write(2) and io.Copy
LEMMA TransferStage ==
    ASSUME NEW p \in Procs, NEW v, Going(v, p), Transfer(p)
    PROVE  Onward(v, p)
<1> DEFINE r == op[p]
           q == Target(p)
           bytes == IF r.kind = "copy" THEN inode[loc[p].src].data ELSE r.content
           fromDir == r.kind = "copy" /\ inode[loc[p].src].kind = "dir"
<1>1. /\ r.kind \in {"write", "copy"} /\ r.path \in Paths /\ r.target \in Paths /\ q \in Paths
      /\ r.content \in Seq(Bytes) /\ Shapes /\ TreeInv /\ TreeRange /\ Bare /\ pc[p] = "transfer"
      /\ r.kind = "copy" => r.path # r.target /\ loc[p].src > 0
      /\ loc[p].dst > 0 /\ v = [a \in Paths |-> v[a]]
  BY RequestsAssumption DEF Going, Placed, Transfer, Target, TreeInv
<1>2. "transfer" \notin Looking /\ "transfer" # "idle"
  BY DEF Looking
<1>3. /\ r.kind = "write" => WriteStage(v, r, Now, "transfer", loc[p], tree)
      /\ r.kind = "copy" => CopyStage(v, r, Now, "transfer", loc[p], tree)
  BY <1>1, <1>2, StageMeans DEF Going
<1>4. Contract!Allowed(v, r) /\ loc[p].dst = tree[q] /\ Now = [v EXCEPT ![q] = Contract!AFile(<<>>)]
  BY <1>1, <1>3 DEF WriteStage, CopyStage, Target
<1>5. /\ Now[q] = Contract!AFile(<<>>) /\ \A a \in Paths : a # q => Now[a] = v[a]
  BY <1>1, <1>4
<1>6. Exists(q)
  BY <1>1, <1>4, LenProperties DEF Exists, TreeRange
<1>7. r.kind = "copy" => /\ IsFile(r.path) /\ inode[loc[p].src] = v[r.path] /\ v[r.path].kind = "file"
                         /\ v[r.path] = Contract!AFile(v[r.path].data) /\ v[r.path].data \in Seq(Bytes)
  <2> SUFFICES ASSUME r.kind = "copy"
               PROVE  /\ IsFile(r.path) /\ inode[loc[p].src] = v[r.path] /\ v[r.path].kind = "file"
                      /\ v[r.path] = Contract!AFile(v[r.path].data) /\ v[r.path].data \in Seq(Bytes)
    OBVIOUS
  <2>1. loc[p].src = tree[r.path] /\ r.path # q
    BY <1>1, <1>3 DEF CopyStage, Target
  <2>2. Exists(r.path)
    BY <1>1, <2>1 DEF Exists
  <2>3. Contract!HasFile(v, r.path)
    BY <1>4 DEF Contract!Allowed
  <2>4. Now[r.path] = v[r.path]
    BY <1>1, <1>5, <2>1
  <2>5. Contract!HasFile(Now, r.path) /\ v[r.path].kind = "file"
    BY <2>3, <2>4 DEF Contract!HasFile
  <2>6. /\ IsFile(r.path) /\ Now[r.path] = inode[tree[r.path]]
        /\ Now[r.path] = Contract!AFile(Now[r.path].data) /\ Now[r.path].data \in Seq(Bytes)
    BY <1>1, <2>2, <2>5, ViewMeans
  <2> QED  BY <2>1, <2>4, <2>5, <2>6
<1>8. bytes \in Seq(Bytes) /\ ~fromDir /\ [v EXCEPT ![q] = Contract!AFile(bytes)] = Contract!After(v, r)
  <2>1. CASE r.kind = "write"
    <3>1. q = r.path /\ bytes = r.content
      BY <2>1 DEF Target
    <3> QED  BY <1>1, <2>1, <3>1, AfterMeans
  <2>2. CASE r.kind = "copy"
    <3>1. q = r.target /\ bytes = v[r.path].data /\ v[r.path] = Contract!AFile(bytes)
      BY <1>7, <2>2 DEF Target
    <3>2. bytes \in Seq(Bytes) /\ ~fromDir
      BY <1>7, <2>2, <3>1
    <3>3. Contract!After(v, r) = [v EXCEPT ![r.target] = v[r.path]]
      BY <2>2, AfterMeans
    <3> HIDE DEF bytes, fromDir, q, r
    <3> QED  BY ONLY <3>1, <3>2, <3>3
  <2> QED  BY <1>1, <2>1, <2>2
<1>9. \/ WriteAt(loc[p].dst, bytes) /\ tree' = tree /\ Return(p, Ok)
      \/ Return(p, Failed("EIO")) /\ UNCHANGED fsVars
  BY <1>8 DEF Transfer, Looks
<1> HIDE DEF bytes, fromDir, q
<1>10. CASE WriteAt(loc[p].dst, bytes) /\ tree' = tree /\ Return(p, Ok)
  <2>1. Now' = [Now EXCEPT ![q] = Contract!AFile(bytes)]
    BY <1>1, <1>4, <1>5, <1>6, <1>8, <1>10, WriteView
  <2>2. Now' = [v EXCEPT ![q] = Contract!AFile(bytes)]
    BY <1>1, <1>4, <2>1
  <2>3. Contract!Reports(v, r, Ok) /\ Ok.err = "ok"
    BY <1>1, ReportsMeans, FailedMeans
  <2> HIDE DEF Ok
  <2> QED  BY <1>1, <1>4, <1>8, <1>10, <2>2, <2>3, ServedStage
<1>11. CASE Return(p, Failed("EIO")) /\ UNCHANGED fsVars
  <2>1. pc'[p] = "idle" /\ result'[p].err = "EIO"
    <3>1. Failed("EIO").err = "EIO"
      BY FailedMeans
    <3>2. Shapes /\ Return(p, Failed("EIO"))
      BY <1>1, <1>11
    <3> HIDE DEF Failed
    <3> QED  BY ONLY <3>1, <3>2, p \in Procs, ReturnEffect
  <2>2. result'[p].err # "EIO" => Outcome(v, r, Now', result'[p])
    BY <2>1
  <2> QED  BY <2>1, <2>2, IdleStage DEF Onward
<1> QED  BY <1>9, <1>10, <1>11

\* os.MkdirAll of create_directory
LEMMA MkdirParentsStage ==
    ASSUME NEW p \in Procs, Ready(p), Here(p), MkdirParents(p)
    PROVE  Onward(Now, p)
<1> DEFINE r == op[p]
           q == r.path
           up == Parent(q)
           e == MkdirAllError(up)
<1>1. /\ r.kind = "mkdir" /\ q \in Paths /\ r.target \in Paths /\ Root \in Paths /\ up \in Paths
      /\ Shapes /\ TreeInv /\ Bare /\ pc[p] = "mkdirall"
  BY AskedMeans, ParentMeans DEF Ready, MkdirParents, At
<1>2. "mkdirall" \in Looking /\ "mkdir" \notin Looking /\ "mkdirall" # "idle" /\ "mkdir" # "idle"
  BY DEF Looking
<1>3. Contract!Has(Now, Root) /\ q # Root
  <2>1. MkdirStage(Now, r, Now, "mkdirall")
    BY <1>1, <1>2, StageMeans DEF Here
  <2> QED  BY <2>1 DEF MkdirStage
<1>4. \A a \in Paths : (a = up \/ Under(up, a)) <=> Under(q, a)
  BY <1>1, <1>3, ParentMeans, UnderOrder
<1>5. Checked(p, e, "mkdir") /\ (IF e = "ok" THEN MkdirAll(up) ELSE UNCHANGED fsVars)
  BY DEF MkdirParents, Looks
<1>6. /\ e \in {"ok", "ENOTDIR"}
      /\ e = "ok" => \A a \in Paths : Under(q, a) => ~IsFile(a)
      /\ e # "ok" => \E a \in Paths : Under(q, a) /\ IsFile(a)
  BY <1>4 DEF MkdirAllError
<1> HIDE DEF e, up
<1>7. CASE e # "ok"
  <2>1. Return(p, Failed(e)) /\ UNCHANGED fsVars
    BY <1>5, <1>7 DEF Checked
  <2>2. ~Contract!Allowed(Now, r)
    BY <1>1, <1>6, <1>7, AllowedNow
  <2>3. Now' = Now /\ Expected(e)
    BY <1>6, <1>7, <2>1, SameView, Codes
  <2> QED  BY <1>1, <1>7, <2>1, <2>2, <2>3, RefusedStage
<1>8. CASE e = "ok"
  <2>1. pc'[p] = "mkdir" /\ MkdirAll(up)
    BY <1>1, <1>5, <1>8, GotoEffect DEF Checked
  <2>2. Now' = [a \in Paths |-> IF a = up \/ Under(up, a) THEN Contract!ADir ELSE Now[a]]
    BY <1>1, <1>8, <2>1, MkdirAllView DEF e
  <2>3. Now' = [a \in Paths |-> IF Contract!Inside(q, a) THEN Contract!ADir ELSE Now[a]]
    <3>1. \A a \in Paths : Contract!Inside(q, a) <=> (a = up \/ Under(up, a))
      BY <1>4, Words
    <3> QED  BY <2>2, <3>1
  <2>4. \A a \in Paths : Contract!Inside(q, a) => ~Contract!HasFile(Now, a)
    <3>1. \A a \in Paths : Contract!Inside(q, a) <=> Under(q, a)
      BY Words
    <3>2. \A a \in Paths : Contract!HasFile(Now, a) <=> IsFile(a)
      BY <1>1, ViewMeans
    <3> QED  BY <1>6, <1>8, <3>1, <3>2
  <2>5. ASSUME Contract!Has(Now, q) PROVE Now' = Now
    <3>1. Exists(q)
      BY <1>1, <2>5, ViewMeans
    <3>2. \A a \in Paths : Contract!Inside(q, a) => Now[a] = Contract!ADir
      BY <1>1, <3>1, TreeShape, ViewMeans, Words
    <3>3. Now = [a \in Paths |-> Now[a]]
      BY ViewAt
    <3> QED  BY <2>3, <3>2, <3>3
  <2>6. MkdirStage(Now, r, Now', "mkdir")
    BY <1>3, <2>3, <2>4, <2>5 DEF MkdirStage
  <2> QED  BY <1>1, <1>2, <2>1, <2>6, StageMeans DEF Onward
<1> QED  BY <1>7, <1>8

\* What the second and the third call of create_directory find.
LEMMA MkdirFound ==
    ASSUME NEW p \in Procs, NEW v, Going(v, p), op[p].kind = "mkdir", pc[p] \in {"mkdir", "mkstat"}
    PROVE  /\ Shapes /\ TreeInv /\ Bare /\ op[p].path \in Paths /\ op[p].path # Root
           /\ MkdirStage(v, op[p], Now, pc[p])
           /\ \A a \in Paths : Under(op[p].path, a) => Now[a] = Contract!ADir
           /\ \A a \in Paths : ~Under(op[p].path, a) => Now[a] = v[a]
           /\ Now[op[p].path] = v[op[p].path] /\ ~Under(op[p].path, op[p].path)
           /\ IsDir(Parent(op[p].path))
           /\ Exists(op[p].path) <=> Contract!Has(v, op[p].path)
           /\ ~IsFile(op[p].path) => Contract!Allowed(v, op[p])
           /\ IsFile(op[p].path) => ~Contract!Allowed(v, op[p])
<1> DEFINE r == op[p]
           q == r.path
<1>1. q \in Paths /\ Shapes /\ TreeInv /\ Bare
  BY RequestsAssumption DEF Going
<1>2. MkdirStage(v, r, Now, pc[p])
  <2>1. pc[p] \notin Looking /\ pc[p] # "idle"
    BY DEF Looking
  <2> QED  BY <2>1, StageMeans DEF Going
<1>3. /\ q # Root /\ Contract!Has(v, Root)
      /\ \A a \in Paths : Contract!Inside(q, a) => ~Contract!HasFile(v, a)
      /\ Now = [a \in Paths |-> IF Contract!Inside(q, a) THEN Contract!ADir ELSE v[a]]
  BY <1>2 DEF MkdirStage
<1>4. \A a : Contract!Inside(q, a) <=> Under(q, a)
  BY Words
<1>5. /\ \A a \in Paths : Under(q, a) => Now[a] = Contract!ADir
      /\ \A a \in Paths : ~Under(q, a) => Now[a] = v[a]
  BY <1>3, <1>4
<1>6. Now[q] = v[q] /\ ~Under(q, q)
  BY <1>1, <1>5, UnderOrder
<1>7. IsDir(Parent(q))
  <2>1. Parent(q) \in Paths /\ Now[Parent(q)] = Contract!ADir
    BY <1>1, <1>3, <1>5, ParentMeans
  <2>2. Contract!HasDir(Now, Parent(q))
    BY <2>1 DEF Contract!HasDir, Contract!ADir
  <2> QED  BY <1>1, <2>1, <2>2, ViewMeans
<1>8. /\ Exists(q) <=> Contract!Has(v, q)
      /\ IsFile(q) <=> Contract!HasFile(v, q)
  <2>1. /\ Exists(q) <=> Contract!Has(Now, q)
        /\ IsFile(q) <=> Contract!HasFile(Now, q)
    BY <1>1, ViewMeans
  <2> QED  BY <1>6, <2>1 DEF Contract!Has, Contract!HasFile
<1>9. Contract!Allowed(v, r) <=>
        Contract!Has(v, Root) /\ \A a \in Paths : (q = a \/ Under(q, a)) => ~Contract!HasFile(v, a)
  <2>1. Contract!Allowed(v, r) <=>
          Contract!Has(v, Root) /\ \A a \in Paths : Contract!At(q, a) => ~Contract!HasFile(v, a)
    BY DEF Contract!Allowed, Root
  <2>2. \A a : Contract!At(q, a) <=> (q = a \/ Under(q, a))
    BY Words
  <2> QED  BY <2>1, <2>2
<1>10. /\ ~IsFile(q) => Contract!Allowed(v, r)
       /\ IsFile(q) => ~Contract!Allowed(v, r)
  BY <1>1, <1>3, <1>4, <1>8, <1>9
<1> QED  BY <1>1, <1>2, <1>3, <1>5, <1>6, <1>7, <1>8, <1>10

\* mkdir(2), and the stat after an EEXIST
LEMMA MkdirStages ==
    ASSUME NEW p \in Procs, NEW v, Going(v, p), MkdirLeaf(p) \/ MkdirStat(p)
    PROVE  Onward(v, p)
<1> DEFINE r == op[p]
           q == r.path
<1>1. r.kind = "mkdir" /\ pc[p] \in {"mkdir", "mkstat"} /\ loc'[p] = loc[p]
  BY DEF MkdirLeaf, MkdirStat, At, Keeps
<1>2. /\ Shapes /\ TreeInv /\ Bare /\ q \in Paths /\ q # Root
      /\ MkdirStage(v, r, Now, pc[p])
      /\ \A a \in Paths : Under(q, a) => Now[a] = Contract!ADir
      /\ \A a \in Paths : ~Under(q, a) => Now[a] = v[a]
      /\ Now[q] = v[q] /\ ~Under(q, q)
      /\ IsDir(Parent(q))
      /\ Exists(q) <=> Contract!Has(v, q)
      /\ ~IsFile(q) => Contract!Allowed(v, r)
      /\ IsFile(q) => ~Contract!Allowed(v, r)
  BY <1>1, MkdirFound
<1>3. Contract!After(v, r) = [a \in Paths |-> IF q = a \/ Under(q, a) THEN Contract!ADir ELSE v[a]]
  BY <1>1, AfterMeans
<1>4. \A res : Contract!Reports(v, r, res) <=> res.created = ~Contract!Has(v, q)
  BY <1>1, ReportsMeans
<1>5. "mkstat" \notin Looking /\ "mkstat" # "idle"
  BY DEF Looking
<1>6. CASE MkdirLeaf(p) /\ Exists(q)
  <2>1. Goto(p, "mkstat") /\ UNCHANGED fsVars /\ pc[p] = "mkdir"
    BY <1>6 DEF MkdirLeaf, MkdirError, Looks, At
  <2>2. pc'[p] = "mkstat" /\ Now' = Now
    BY <1>2, <2>1, GotoEffect, SameView
  <2>3. MkdirStage(v, r, Now', "mkstat")
    BY <1>2, <1>6, <2>1, <2>2 DEF MkdirStage
  <2> QED  BY <1>1, <1>5, <2>2, <2>3, StageMeans DEF Onward
<1>7. CASE MkdirLeaf(p) /\ ~Exists(q)
  <2> DEFINE res == [Ok EXCEPT !.created = TRUE]
  <2>1. MkdirError(q) = "ok"
    BY <1>2, <1>7 DEF MkdirError, ParentLookup
  <2>2. Create(q, Dir) /\ Return(p, res)
    BY <1>7, <2>1 DEF MkdirLeaf
  <2>3. res.err = "ok" /\ res.created = TRUE
    BY DEF Ok, NoResult
  <2> HIDE DEF res
  <2>4. Dir \in Node /\ Dir = Contract!ADir
    BY EmptySeq DEF Dir, Node, Contract!ADir
  <2>5. Now' = [Now EXCEPT ![q] = Contract!ADir]
    <3> HIDE DEF Dir
    <3>1. Now' = [Now EXCEPT ![q] = Dir]
      BY <1>2, <2>2, <2>4, CreateView
    <3> QED  BY <2>4, <3>1
  <2>6. Now' = Contract!After(v, r)
    <3>1. Now = [a \in Paths |-> Now[a]]
      BY ViewAt
    <3>2. Now' = [a \in Paths |-> IF q = a THEN Contract!ADir ELSE Now[a]]
      BY <2>5, <3>1
    <3>3. \A a \in Paths : (IF q = a THEN Contract!ADir ELSE Now[a]) =
                           (IF q = a \/ Under(q, a) THEN Contract!ADir ELSE v[a])
      BY <1>2
    <3> QED  BY <1>3, <3>2, <3>3
  <2>7. Contract!Allowed(v, r) /\ Contract!Reports(v, r, res)
    <3>1. ~IsFile(q) /\ ~Contract!Has(v, q)
      BY <1>2, <1>7 DEF IsFile
    <3> QED  BY <1>2, <1>4, <2>3, <3>1
  <2> QED  BY <1>2, <2>2, <2>3, <2>6, <2>7, ServedStage
<1>8. CASE MkdirStat(p)
  <2>1. pc[p] = "mkstat" /\ UNCHANGED fsVars
    BY <1>8 DEF MkdirStat, At, Looks
  <2>2. Contract!Has(v, q) /\ Exists(q) /\ Now' = v
    BY <1>2, <2>1, SameView DEF MkdirStage
  <2>3. Return(p, IF IsFile(q) THEN Failed("ErrPathIsNotDirectory") ELSE Ok)
    BY <1>8, <2>2 DEF MkdirStat
  <2>4. CASE IsFile(q)
    <3> DEFINE e == "ErrPathIsNotDirectory"
    <3>1. Return(p, Failed(e)) /\ e # "ok" /\ Expected(e)
      BY <2>3, <2>4, Codes
    <3> HIDE DEF e
    <3> QED  BY <1>2, <2>2, <2>4, <3>1, RefusedStage
  <2>5. CASE ~IsFile(q)
    <3>1. Return(p, Ok) /\ Ok.err = "ok" /\ Ok.created = FALSE
      BY <2>3, <2>5, FailedMeans
    <3>2. Now[q] = Contract!ADir
      BY <1>2, <2>2, <2>5, ViewMeans
    <3>3. Now' = Contract!After(v, r)
      <4>1. Now = [a \in Paths |-> Now[a]] /\ Now' = Now
        BY <2>1, ViewAt, SameView
      <4>2. \A a \in Paths : Now[a] = (IF q = a \/ Under(q, a) THEN Contract!ADir ELSE v[a])
        BY <1>2, <3>2
      <4> QED  BY <1>3, <4>1, <4>2
    <3> HIDE DEF Ok
    <3>4. Contract!Reports(v, r, Ok)
      BY <1>4, <2>2, <3>1
    <3> QED  BY <1>2, <2>5, <3>1, <3>3, <3>4, ServedStage
  <2> QED  BY <2>4, <2>5
<1> QED  BY <1>6, <1>7, <1>8

\* unlink(2) or rmdir(2) of delete_path
LEMMA DeleteRemoveStage ==
    ASSUME NEW p \in Procs, Ready(p), Here(p), DeleteRemove(p)
    PROVE  Onward(Now, p)
<1> DEFINE r == op[p]
           q == r.path
<1>1. /\ r.kind = "delete" /\ q \in Paths /\ r.target \in Paths
      /\ Shapes /\ TreeInv /\ Bare /\ pc[p] = "remove"
  BY AskedMeans DEF Ready, DeleteRemove, At
<1>2. Contract!Has(Now, q) /\ Contract!Content(Now, q) = {}
  <2>1. "remove" \in Looking /\ "remove" # "idle"
    BY DEF Looking
  <2>2. DeleteStage(Now, r, Now, "remove")
    BY <1>1, <2>1, StageMeans DEF Here
  <2> QED  BY <2>2 DEF DeleteStage
<1>3. Exists(q) /\ Below(q) = {} /\ Contract!Allowed(Now, r)
  <2>1. Exists(q) /\ Below(q) = {}
    BY <1>1, <1>2, ViewMeans, ContentMeans
  <2> QED  BY <1>1, <2>1, AllowedNow
<1>4. Return(p, Ok) /\ Unlink(q)
  <2>1. RemoveError(q) = "ok"
    BY <1>3 DEF RemoveError
  <2> QED  BY <2>1 DEF DeleteRemove
<1>5. Now' = Contract!After(Now, r)
  <2>1. Now' = [Now EXCEPT ![q] = Contract!Absent]
    BY <1>1, <1>4, UnlinkView
  <2>2. Contract!After(Now, r) = [a \in Paths |-> IF a = q \/ Under(a, q) THEN Contract!Absent ELSE Now[a]]
    BY <1>1, AfterMeans
  <2>3. \A a \in Paths : Under(a, q) => Now[a] = Contract!Absent
    <3>1. \A a \in Paths : Under(a, q) => ~Exists(a)
      BY <1>3 DEF Below
    <3> QED  BY <1>1, <3>1, ViewMeans
  <2>4. Now = [a \in Paths |-> Now[a]]
    BY ViewAt
  <2>5. Now' = [a \in Paths |-> IF a = q THEN Contract!Absent ELSE Now[a]]
    BY <2>1, <2>4
  <2> QED  BY <2>2, <2>3, <2>5
<1>6. Contract!Reports(Now, r, Ok) /\ Ok.err = "ok"
  BY <1>1, ReportsMeans, FailedMeans
<1> HIDE DEF Ok
<1> QED  BY <1>1, <1>3, <1>4, <1>5, <1>6, ServedStage

\* One call of os.RemoveAll
LEMMA DeleteRemoveAllStage ==
    ASSUME NEW p \in Procs, NEW v, Going(v, p), ~ghost[p].disturbed, DeleteRemoveAll(p)
    PROVE  Onward(v, p)
<1> DEFINE r == op[p]
           q == r.path
<1>1. r.kind = "delete" /\ q \in Paths /\ Shapes /\ TreeInv /\ Bare /\ pc[p] = "removeall"
  BY RequestsAssumption DEF Going, DeleteRemoveAll, At
<1>2. "removeall" \notin Looking /\ "removeall" # "idle"
  BY DEF Looking
<1>3. /\ Contract!Allowed(v, r) /\ Contract!Has(Now, q)
      /\ \A a \in Paths : Now[a] = v[a] \/ ((a = q \/ Under(a, q)) /\ Now[a] = Contract!Absent)
  <2>1. DeleteStage(v, r, Now, "removeall")
    BY <1>1, <1>2, StageMeans DEF Going
  <2> QED  BY <2>1, Words DEF DeleteStage
<1>4. Exists(q)
  BY <1>1, <1>3, ViewMeans
<1>5. Now = [a \in Paths |-> Now[a]]
  BY ViewAt
<1>6. CASE Below(q) = {} /\ Unlink(q) /\ Return(p, Ok)
  <2>1. Now' = [Now EXCEPT ![q] = Contract!Absent]
    BY <1>1, <1>6, UnlinkView
  <2>2. Contract!After(v, r) = [a \in Paths |-> IF a = q \/ Under(a, q) THEN Contract!Absent ELSE v[a]]
    BY <1>1, AfterMeans
  <2>3. \A a \in Paths : Under(a, q) => Now[a] = Contract!Absent
    <3>1. \A a \in Paths : Under(a, q) => ~Exists(a)
      BY <1>6 DEF Below
    <3> QED  BY <1>1, <3>1, ViewMeans
  <2>4. Now' = [a \in Paths |-> IF a = q THEN Contract!Absent ELSE Now[a]]
    BY <1>5, <2>1
  <2>5. \A a \in Paths : (IF a = q THEN Contract!Absent ELSE Now[a]) =
                         (IF a = q \/ Under(a, q) THEN Contract!Absent ELSE v[a])
    BY <1>3, <2>3
  <2>6. Now' = Contract!After(v, r)
    BY <2>2, <2>4, <2>5
  <2>7. Contract!Reports(v, r, Ok) /\ Ok.err = "ok"
    BY <1>1, ReportsMeans, FailedMeans
  <2> HIDE DEF Ok
  <2> QED  BY <1>1, <1>3, <1>6, <2>6, <2>7, ServedStage
<1>7. ASSUME NEW c \in Below(q), Unlink(c), UNCHANGED <<pc, result>>
      PROVE  Onward(v, p)
  <2>1. c \in Paths /\ Under(c, q) /\ c # q
    BY <1>1, UnderOrder DEF Below
  <2>2. Now' = [Now EXCEPT ![c] = Contract!Absent]
    BY <1>1, <1>7, <2>1, UnlinkView
  <2>3. \A a \in Paths : Now'[a] = IF a = c THEN Contract!Absent ELSE Now[a]
    BY <1>5, <2>2
  <2>4. Contract!Has(Now', q)
    BY <1>1, <1>3, <2>1, <2>3 DEF Contract!Has
  <2>5. \A a \in Paths : Now'[a] = v[a] \/ (Contract!At(a, q) /\ Now'[a] = Contract!Absent)
    BY <1>3, <2>1, <2>3, Words
  <2>6. DeleteStage(v, r, Now', "removeall")
    BY <1>3, <2>4, <2>5 DEF DeleteStage
  <2>7. pc'[p] = "removeall"
    BY <1>1, <1>7
  <2> QED  BY <1>1, <1>2, <2>6, <2>7, StageMeans DEF Onward
<1>8. \/ Below(q) = {} /\ Unlink(q) /\ Return(p, Ok)
      \/ \E c \in Below(q) : Unlink(c) /\ UNCHANGED <<pc, result>>
  BY <1>4 DEF DeleteRemoveAll
<1> QED  BY <1>6, <1>7, <1>8

\* rename(2) of move_path
LEMMA MoveRenameStage ==
    ASSUME NEW p \in Procs, Ready(p), Here(p), MoveRename(p)
    PROVE  Onward(Now, p)
<1> DEFINE r == op[p]
           s == r.path
           d == r.target
           e == RenameError(s, d)
<1>1. /\ r.kind = "move" /\ s \in Paths /\ d \in Paths /\ r.overwrite \in BOOLEAN
      /\ Shapes /\ TreeInv /\ Bare /\ pc[p] = "rename"
  BY AskedMeans DEF Ready, MoveRename, At
<1>2. /\ s # d /\ Contract!Has(Now, s) /\ ~Contract!At(d, s) /\ d # Root
      /\ Free(Now, d, r.overwrite)
      /\ Contract!Has(Now, d) => Contract!HasFile(Now, s)
  <2>1. "rename" \in Looking /\ "rename" # "idle"
    BY DEF Looking
  <2>2. MoveStage(Now, r, "rename", loc[p], tree)
    BY <1>1, <2>1, StageMeans DEF Here
  <2> QED  BY <2>2 DEF MoveStage
<1>3. /\ Exists(s) /\ ~(d = s \/ Under(d, s))
      /\ Exists(d) => IsFile(d) /\ IsFile(s)
      /\ IsFile(d) => ~IsDir(d)
      /\ IsFile(s) => ~IsDir(s)
      /\ IsDir(d) => Exists(d)
  <2>1. /\ Contract!Has(Now, s) <=> Exists(s)
        /\ Contract!HasFile(Now, s) <=> IsFile(s)
        /\ Contract!Has(Now, d) <=> Exists(d)
        /\ Contract!HasFile(Now, d) <=> IsFile(d)
    BY <1>1, ViewMeans
  <2>2. Contract!At(d, s) <=> (d = s \/ Under(d, s))
    BY Words
  <2> QED  BY <1>2, <2>1, <2>2 DEF Free, IsFile, IsDir
<1>4. ~Under(s, d)
  BY <1>1, <1>3, TreeShape
<1>5. Contract!Allowed(Now, r) <=> IsDir(Parent(d))
  BY <1>1, <1>2, <1>3, AllowedNow
<1>6. /\ e = "ok" <=> IsDir(Parent(d))
      /\ e # "ok" => Expected(e)
  <2>1. CASE Exists(d)
    <3>1. Below(d) = {} /\ IsDir(Parent(d))
      BY <1>1, <1>2, <1>3, <2>1, TreeShape
    <3> QED  BY <1>3, <2>1, <3>1 DEF RenameError
  <2>2. CASE ~Exists(d)
    <3>1. e = ParentLookup(d)
      BY <1>3, <2>2 DEF RenameError
    <3> QED  BY <1>2, <3>1, ParentFacts
  <2> QED  BY <2>1, <2>2
<1>7. /\ Return(p, IF e = "ok" THEN Ok ELSE Failed(e))
      /\ IF e = "ok" THEN Rename(s, d) ELSE UNCHANGED fsVars
  BY DEF MoveRename, Looks
<1> HIDE DEF e
<1>8. CASE e # "ok"
  <2>1. Return(p, Failed(e)) /\ Now' = Now
    BY <1>7, <1>8, SameView
  <2> QED  BY <1>1, <1>5, <1>6, <1>8, <2>1, RefusedStage
<1>9. CASE e = "ok"
  <2>1. Return(p, Ok) /\ Rename(s, d)
    BY <1>7, <1>9
  <2>2. Now' = Contract!After(Now, r)
    BY <1>1, <1>3, <1>4, <2>1, RenameView, AfterMeans
  <2>3. Contract!Reports(Now, r, Ok) /\ Ok.err = "ok"
    BY <1>1, ReportsMeans, FailedMeans
  <2> HIDE DEF Ok
  <2> QED  BY <1>1, <1>5, <1>6, <1>9, <2>1, <2>2, <2>3, ServedStage
<1> QED  BY <1>8, <1>9

-----------------------------------------------------------------------------
(* The stages as an invariant *)

\* A call that was started is one of Requests.
Asked(p) == used[p] > 0 => op[p] \in Requests
StageInv == Bare /\ \A p \in Procs : Handle(p) /\ Asked(p) /\ Staged(p)

\* A step forgets nothing of where the calls started, and disturbs the others
\* when it changes something.
LEMMA StepDisturbs ==
    ASSUME Shapes, NEW p \in Procs, Record(p)
    PROVE  /\ \A q \in Procs : ghost'[q].before = ghost[q].before
           /\ ghost'[p].disturbed = ghost[p].disturbed
           /\ \A q \in Procs \ {p} : ~ghost'[q].disturbed =>
                ~ghost[q].disturbed /\ tree' = tree /\ inode' = inode
<1> DEFINE changed == tree' # tree \/ inode' # inode
           new == (Len(inode) + 1)..Len(inode')
           own == [ghost[p] EXCEPT !.touched = @ \/ changed, !.late = @ \ Settled(pc[p]), !.made = @ \cup new]
           other(q) == [ghost[q] EXCEPT !.disturbed = @ \/ changed,
                                        !.late = IF changed THEN {"src", "dst"} ELSE @]
<1>1. ghost' = [q \in Procs |-> IF q = p THEN own ELSE other(q)]
  BY DEF Record
<1>2. \A q \in Procs : ghost[q] \in History
  BY DEF Shapes
<1>3. own.before = ghost[p].before /\ own.disturbed = ghost[p].disturbed
  BY <1>2 DEF History
<1>4. ASSUME NEW q \in Procs
      PROVE  /\ other(q).before = ghost[q].before
             /\ other(q).disturbed = (ghost[q].disturbed \/ changed)
  BY <1>2 DEF History
<1>5. ghost'[p] = own /\ \A q \in Procs \ {p} : ghost'[q] = other(q)
  BY <1>1
<1> HIDE DEF own, other
<1> QED  BY <1>2, <1>3, <1>4, <1>5 DEF History

\* The new inodes of a step, and those whose bytes it changes.
Plain == \A i \in 1..Len(inode') :
            \/ i \in 1..Len(inode) /\ (inode'[i] = inode[i] \/ inode[i].kind = "file")
            \/ inode'[i] \in {Dir, File(<<>>)}

\* A new entry is a directory or an empty file.
LEMMA CreatePlain ==
    ASSUME TreeRange, NEW q \in Paths, NEW node \in Node, node \in {Dir, File(<<>>)}, Create(q, node)
    PROVE  Plain
<1>1. inode \in Seq(Node) /\ Len(inode) \in Nat
  BY LenProperties DEF TreeRange
<1>2. /\ Len(inode') = Len(inode) + 1 /\ inode'[Len(inode) + 1] = node
      /\ \A i \in 1..Len(inode) : inode'[i] = inode[i]
  BY <1>1, AppendProperties DEF Create
<1>3. \A i \in 1..Len(inode') : i \in 1..Len(inode) \/ i = Len(inode) + 1
  BY <1>1, <1>2
<1> HIDE DEF Dir, File
<1> QED  BY <1>2, <1>3 DEF Plain

\* open(2) opens files only.
LEMMA OpensFiles ==
    ASSUME Shapes, TreeInv, Bare, NEW p \in Procs, Open(p)
    PROVE  Plain /\ (pc'[p] = "transfer" => inode'[loc'[p].dst].kind = "file")
<1> DEFINE q == Target(p)
           e == OpenError(q, op[p].overwrite)
<1>1. q \in Paths /\ TreeRange
  BY Requested DEF Target, TreeInv
<1>2. \/ e = "ok" /\ OpenTruncate(q)
      \/ e # "ok" /\ UNCHANGED fsVars /\ \E res : Return(p, res)
  BY DEF Open, Target, Looks
<1>3. e = "ok" => ~IsDir(q)
  BY DEF OpenError, IsDir
<1> HIDE DEF e
<1>4. CASE e # "ok"
  <2>1. inode' = inode /\ pc'[p] = "idle"
    BY <1>2, <1>4, ReturnEffect DEF fsVars
  <2> QED  BY <2>1 DEF Plain
<1>5. CASE e = "ok"
  <2>1. OpenTruncate(q) /\ ~IsDir(q)
    BY <1>2, <1>3, <1>5
  <2>2. Plain
    <3>1. CASE Exists(q)
      <4>1. inode' = [inode EXCEPT ![tree[q]].data = <<>>] /\ tree' = tree
        BY <2>1, <3>1 DEF OpenTruncate
      <4>2. tree[q] \in 1..Len(inode) /\ inode[tree[q]].kind = "file" /\ <<>> \in Seq(Bytes)
        BY <1>1, <2>1, <3>1, ViewMeans, EmptySeq DEF IsFile
      <4>3. Len(inode') = Len(inode) /\ \A j \in 1..Len(inode) : j # tree[q] => inode'[j] = inode[j]
        BY <1>1, <4>1, <4>2, DataEffect
      <4> QED  BY <4>2, <4>3 DEF Plain
    <3>2. CASE ~Exists(q)
      <4>1. Create(q, File(<<>>)) /\ File(<<>>) \in Node
        BY <2>1, <3>2, EmptySeq DEF OpenTruncate, File, Node
      <4> HIDE DEF File
      <4> QED  BY <1>1, <4>1, CreatePlain
    <3> QED  BY <3>1, <3>2
  <2>3. pc'[p] = "transfer" => loc'[p].dst = tree'[q] /\ tree'[q] > 0
    BY <1>1, OpenEffect
  <2>4. Now'[q] = Contract!AFile(<<>>)
    <3>1. Now' = [Now EXCEPT ![q] = Contract!AFile(<<>>)]
      BY <1>1, <2>1, OpenView
    <3>2. Now = [a \in Paths |-> Now[a]]
      BY ViewAt
    <3> QED  BY <1>1, <3>1, <3>2
  <2>5. tree'[q] > 0 => inode'[tree'[q]] = Contract!AFile(<<>>)
    BY <1>1, <2>4, ViewAt
  <2> QED  BY <2>2, <2>3, <2>5 DEF Contract!AFile
<1> QED  BY <1>4, <1>5

\* A directory never gets bytes, and no handle becomes that of a directory.
LEMMA BareStep ==
    ASSUME FSInv, TreeInv, StageInv, NEW p \in Procs, Step(p)
    PROVE  Bare' /\ \A q \in Procs : Handle(q)'
<1>1. /\ Shapes /\ TreeRange /\ Bare /\ Grown /\ Runs(p) /\ Notes(p) /\ Len(inode) \in Nat /\ Placed(p)
      /\ op[p].path \in Paths /\ Handle(p)
  BY StepEffect, Requested, LenProperties DEF FSInv, ProcInv, TreeRange, StageInv
<1>2. Plain /\ (pc'[p] = "transfer" => inode'[loc'[p].dst].kind = "file")
  <2>1. inode' = inode => Plain
    BY DEF Plain
  <2>2. CASE LookAction(p)
    BY <1>1, <2>1, <2>2, LookEffect DEF Looked, fsVars
  <2>3. CASE Open(p)
    BY <1>1, <2>3, OpensFiles
  <2>4. CASE Transfer(p)
    <3>1. /\ pc[p] = "transfer" /\ Len(inode') = Len(inode) /\ pc'[p] = "idle"
          /\ \A j \in 1..Len(inode) : j # loc[p].dst => inode'[j] = inode[j]
      BY <1>1, <2>4, TransferEffect DEF Transfer
    <3>2. inode[loc[p].dst].kind = "file"
      BY <1>1, <3>1 DEF Handle
    <3> QED  BY <3>1, <3>2 DEF Plain
  <2>5. CASE MkdirParents(p)
    <3>1. pc'[p] # "transfer"
      BY <1>1, <2>5, MkdirEffect
    <3>2. MkdirAll(Parent(op[p].path)) \/ inode' = inode
      BY <2>5 DEF MkdirParents, Looks, fsVars
    <3>3. ASSUME MkdirAll(Parent(op[p].path)) PROVE Plain
      <4>1. /\ BytesStay /\ Grown
            /\ \A i \in (Len(inode) + 1)..Len(inode') : inode'[i] = Dir
        BY <1>1, <3>3, MkdirAllEffect
      <4>2. \A i \in 1..Len(inode') : i \in 1..Len(inode) \/ i \in (Len(inode) + 1)..Len(inode')
        BY <1>1
      <4> QED  BY <4>1, <4>2 DEF BytesStay, Plain
    <3> QED  BY <2>1, <3>1, <3>2, <3>3
  <2>6. CASE MkdirLeaf(p)
    <3>1. pc'[p] # "transfer"
      BY <1>1, <2>6, MkdirEffect
    <3>2. Create(op[p].path, Dir) \/ inode' = inode
      BY <2>6 DEF MkdirLeaf, Looks, fsVars
    <3>3. Dir \in Node
      BY EmptySeq DEF Dir, Node
    <3> QED  BY <1>1, <2>1, <3>1, <3>2, <3>3, CreatePlain
  <2>7. CASE DeleteRemove(p) \/ DeleteRemoveAll(p) \/ MoveRename(p)
    BY <1>1, <2>1, <2>7, RemoveEffect
  <2> QED  BY <2>2, <2>3, <2>4, <2>5, <2>6, <2>7, StepKinds
<1>3. Bare'
  <2> SUFFICES ASSUME NEW i \in 1..Len(inode'), inode'[i].kind = "dir"
               PROVE  inode'[i] = Dir
    BY DEF Bare
  <2>1. File(<<>>).kind = "file"
    BY DEF File
  <2>2. i \in 1..Len(inode) /\ inode'[i] = inode[i] => inode'[i] = Dir
    BY <1>1 DEF Bare
  <2>3. ~(i \in 1..Len(inode) /\ inode[i].kind = "file")
    BY <1>1 DEF Grown
  <2> HIDE DEF File, Dir
  <2> QED  BY <1>2, <2>1, <2>2, <2>3 DEF Plain
<1>4. ASSUME NEW q \in Procs, q # p PROVE Handle(q)'
  <2>1. pc'[q] = pc[q] /\ loc'[q] = loc[q] /\ Handle(q) /\ Placed(q) /\ loc[q] \in Locals
    BY <1>1, <1>4 DEF Runs, Notes, StageInv, FSInv, ProcInv, Shapes
  <2>2. pc[q] = "transfer" => loc[q].dst \in 1..Len(inode)
    BY <1>1, <2>1 DEF Placed, Locals
  <2> QED  BY <1>1, <2>1, <2>2 DEF Handle, Grown
<1>5. Handle(p)'
  BY <1>2 DEF Handle
<1> QED  BY <1>3, <1>4, <1>5

\* A call that has not changed anything yet.
LEMMA LookingStage ==
    ASSUME NEW p \in Procs, NEW v, Going(v, p), ~Contract!HasFile(v, Root), pc[p] \in Looking, Step(p)
    PROVE  Onward(v, p)
<1>1. Shapes /\ TreeInv /\ TreeRange /\ Bare /\ Placed(p) /\ op[p] \in Requests /\ Root \in Paths
  BY PathsAssumption DEF Going, TreeInv, Root
<1>2. Now = v
  BY StageMeans DEF Going
<1>3. Here(p) /\ ~IsFile(Root)
  <2>1. Here(p)
    BY <1>2 DEF Going, Here
  <2> QED  BY <1>1, <1>2, <2>1, ViewMeans
<1>4. Ready(p)
  BY <1>1, <1>3 DEF Ready, Going
<1>5. ASSUME There(p), UNCHANGED fsVars PROVE Onward(Now, p)
  BY <1>5, SameView DEF There, Onward
<1>6. CASE LookAction(p) /\ ~MkdirStat(p)
  <2>1. There(p)
    BY <1>3, <1>4, <1>6, ResolveStage, ReadStages, StatStages, ListStages, WriteStages, CopyStages,
       DeleteStages, MoveStages DEF LookAction
  <2>2. UNCHANGED fsVars
    BY <1>1, <1>6, LookEffect DEF Looked
  <2> QED  BY <1>2, <1>5, <2>1, <2>2
<1>7. CASE Open(p)
  BY <1>1, <1>2, <1>3, <1>4, <1>7, OpenStage
<1>8. CASE MkdirParents(p)
  BY <1>2, <1>3, <1>4, <1>8, MkdirParentsStage
<1>9. CASE DeleteRemove(p)
  BY <1>2, <1>3, <1>4, <1>9, DeleteRemoveStage
<1>10. CASE MoveRename(p)
  BY <1>2, <1>3, <1>4, <1>10, MoveRenameStage
<1>11. ~(Transfer(p) \/ MkdirLeaf(p) \/ MkdirStat(p) \/ DeleteRemoveAll(p))
  BY DEF Transfer, MkdirLeaf, MkdirStat, DeleteRemoveAll, At, Looking
<1> QED  BY <1>6, <1>7, <1>8, <1>9, <1>10, <1>11, StepKinds

\* A call that may have.
LEMMA ChangingStage ==
    ASSUME NEW p \in Procs, NEW v, Going(v, p), ~ghost[p].disturbed, pc[p] \notin Looking, Step(p)
    PROVE  Onward(v, p)
<1>1. ~(Open(p) \/ MkdirParents(p) \/ DeleteRemove(p) \/ MoveRename(p))
  BY DEF Open, MkdirParents, DeleteRemove, MoveRename, At, Looking
<1>2. LookAction(p) => MkdirStat(p)
  BY DEF LookAction, Resolve, ReadStat, ReadFile, Stat, ListReadDir, ListEntry, WriteStat, CopyStat, CopyTarget,
     CopyOpenSource, DeleteStat, DeleteCount, DeleteReadDir, MoveStatSource, MoveStatTarget, MoveCheck,
     MoveRevalidateSource, MoveRevalidateTarget, MoveLstat, At, Looking
<1>3. Transfer(p) \/ MkdirLeaf(p) \/ MkdirStat(p) \/ DeleteRemoveAll(p)
  BY <1>1, <1>2, StepKinds
<1> QED  BY <1>3, TransferStage, MkdirStages, DeleteRemoveAllStage

\* A step of p leads p to its next stage.
LEMMA OwnStage ==
    ASSUME FSInv, TreeInv, StageInv, NEW p \in Procs, Step(p)
    PROVE  Staged(p)'
<1> DEFINE v == Before(p)
<1>1. Shapes /\ Bare /\ Placed(p) /\ Asked(p) /\ Staged(p)
  BY DEF FSInv, ProcInv, StageInv
<1>2. op' = op /\ used' = used /\ Record(p)
  BY StepKinds
<1>3. ghost'[p].before = ghost[p].before /\ ghost'[p].disturbed = ghost[p].disturbed
  BY <1>1, <1>2, StepDisturbs
<1>4. Before(p)' = v
  BY <1>3 DEF Before, View
<1>5. SUFFICES ASSUME Alone(p)' PROVE Onward(v, p)
  BY <1>2, <1>4 DEF Staged, Onward
<1>6. Alone(p)
  BY <1>2, <1>3, <1>4, <1>5 DEF Alone
<1>7. v = [a \in Paths |-> v[a]]
  BY DEF Before, View
<1> HIDE DEF v
<1>8. Going(v, p) /\ ~Contract!HasFile(v, Root) /\ ~ghost[p].disturbed
  BY <1>1, <1>6, <1>7 DEF Going, Alone, Staged, Asked, v
<1> QED  BY <1>8, LookingStage, ChangingStage

\* A step of p that does not disturb q leaves q at its stage.
LEMMA OtherStage ==
    ASSUME FSInv, TreeInv, StageInv, NEW p \in Procs, Step(p), NEW q \in Procs, q # p
    PROVE  Staged(q)'
<1>1. Shapes /\ Placed(p) /\ TreeRange /\ Staged(q)
  BY DEF FSInv, ProcInv, StageInv
<1>2. op' = op /\ used' = used /\ Record(p) /\ Runs(p) /\ Notes(p)
  BY <1>1, StepKinds, StepEffect
<1>3. /\ ghost'[q].before = ghost[q].before
      /\ ~ghost'[q].disturbed => ~ghost[q].disturbed /\ tree' = tree /\ inode' = inode
  BY <1>1, <1>2, StepDisturbs
<1>4. Before(q)' = Before(q)
  BY <1>3 DEF Before, View
<1>5. SUFFICES ASSUME Alone(q)' PROVE Stage(Before(q), op[q], Now', pc'[q], loc'[q], result'[q], tree')
  BY <1>2, <1>4 DEF Staged
<1>6. Alone(q) /\ tree' = tree /\ inode' = inode
  BY <1>2, <1>3, <1>4, <1>5 DEF Alone
<1>7. Now' = Now /\ pc'[q] = pc[q] /\ loc'[q] = loc[q] /\ result'[q] = result[q]
  BY <1>2, <1>6, SameView DEF fsVars, Runs, Notes
<1> QED  BY <1>1, <1>6, <1>7 DEF Staged

\* A new call starts from the present view.
LEMMA StartStage ==
    ASSUME FSInv, TreeInv, StageInv, NEW p \in Procs, NEW r \in Requests, Start(p, r)
    PROVE  StageInv'
<1> DEFINE g == [before |-> <<tree, inode>>, disturbed |-> FALSE,
                 late |-> {"src", "dst"}, touched |-> FALSE, made |-> {}]
<1>1. /\ op' = [op EXCEPT ![p] = r] /\ pc' = [pc EXCEPT ![p] = "resolve"]
      /\ loc' = [loc EXCEPT ![p] = NoLocals] /\ result' = [result EXCEPT ![p] = NoResult]
      /\ used' = [used EXCEPT ![p] = @ + 1] /\ ghost' = [ghost EXCEPT ![p] = g] /\ UNCHANGED fsVars
  BY DEF Start, Looks
<1>2. Shapes /\ Counted /\ Bare
  BY DEF FSInv, StageInv
<1>3. g.before[1] = tree /\ g.before[2] = inode
  OBVIOUS
<1> HIDE DEF g
<1>4. /\ op'[p] = r /\ pc'[p] = "resolve" /\ loc'[p] = NoLocals /\ ghost'[p] = g
      /\ \A q \in Procs \ {p} : /\ op'[q] = op[q] /\ pc'[q] = pc[q] /\ loc'[q] = loc[q]
                                /\ result'[q] = result[q] /\ ghost'[q] = ghost[q] /\ used'[q] = used[q]
  BY <1>1, <1>2 DEF Shapes, Counted
<1>5. Now' = Now /\ tree' = tree /\ inode' = inode
  BY <1>1, SameView DEF fsVars
<1>6. Bare'
  BY <1>2, <1>5 DEF Bare
<1>7. ASSUME NEW q \in Procs, q # p PROVE (Handle(q) /\ Asked(q) /\ Staged(q))'
  <2>1. Before(q)' = Before(q)
    BY <1>4, <1>7 DEF Before, View
  <2>2. Handle(q) /\ Asked(q) /\ Staged(q)
    BY DEF StageInv
  <2>3. Handle(q)' /\ Asked(q)'
    BY <1>4, <1>5, <1>7, <2>2 DEF Handle, Asked
  <2>4. Alone(q)' => Alone(q)
    BY <1>4, <1>7, <2>1 DEF Alone
  <2>5. Staged(q)'
    BY <1>4, <1>5, <1>7, <2>1, <2>2, <2>4 DEF Staged
  <2> QED  BY <2>3, <2>5
<1>8. Handle(p)' /\ Asked(p)'
  BY <1>4 DEF Handle, Asked
<1>9. Staged(p)'
  <2>1. Before(p)' = Now
    BY <1>3, <1>4 DEF Before, Now
  <2>2. "resolve" \in Looking /\ "resolve" # "idle" /\ NoLocals.names = {}
    BY DEF Looking, NoLocals
  <2>3. /\ ReadStage(Now, r, "resolve") /\ ListStage(Now, r, "resolve", NoLocals)
        /\ WriteStage(Now, r, Now, "resolve", NoLocals, tree) /\ CopyStage(Now, r, Now, "resolve", NoLocals, tree)
        /\ MkdirStage(Now, r, Now, "resolve") /\ DeleteStage(Now, r, Now, "resolve")
        /\ MoveStage(Now, r, "resolve", NoLocals, tree)
    <3> HIDE DEF NoLocals
    <3> QED  BY <2>2 DEF ReadStage, ListStage, WriteStage, CopyStage, MkdirStage, DeleteStage, MoveStage
  <2> HIDE DEF NoLocals
  <2>4. Stage(Now, r, Now, "resolve", NoLocals, result'[p], tree)
    BY <2>2, <2>3, RequestsAssumption, StageMeans
  <2> QED  BY <1>4, <1>5, <2>1, <2>4 DEF Staged
<1> QED  BY <1>6, <1>7, <1>8, <1>9 DEF StageInv

\* The stages hold in every state.
LEMMA StageInvariant == Spec => []StageInv
<1>1. Init => StageInv
  <2> SUFFICES ASSUME Init PROVE StageInv
    OBVIOUS
  <2>1. Bare
    BY TreesAssumption DEF Init, Bare
  <2>2. \A p \in Procs : pc[p] = "idle" /\ used[p] = 0
    BY DEF Init
  <2> QED  BY <2>1, <2>2 DEF StageInv, Handle, Asked, Staged, Alone
<1>2. FSInv /\ TreeInv /\ StageInv /\ [Next]_vars => StageInv'
  <2> SUFFICES ASSUME FSInv, TreeInv, StageInv, [Next]_vars PROVE StageInv'
    OBVIOUS
  <2>1. CASE UNCHANGED vars
    <3>1. /\ op' = op /\ pc' = pc /\ loc' = loc /\ result' = result /\ used' = used /\ ghost' = ghost
          /\ UNCHANGED fsVars /\ tree' = tree /\ inode' = inode
      BY <2>1 DEF vars, procVars, fsVars
    <3>2. Now' = Now /\ \A p \in Procs : Before(p)' = Before(p)
      BY <3>1, SameView DEF Before, View
    <3>3. \A p \in Procs : Staged(p)'
      BY <3>1, <3>2 DEF StageInv, Staged, Alone
    <3> QED  BY <3>1, <3>3 DEF StageInv, Bare, Handle, Asked
  <2>2. ASSUME NEW p \in Procs, NEW r \in Requests, Start(p, r) PROVE StageInv'
    BY <2>2, StartStage
  <2>3. ASSUME NEW p \in Procs, Step(p) PROVE StageInv'
    <3>1. \A q \in Procs : Asked(q)'
      BY <2>3, StepKinds DEF StageInv, Asked
    <3>2. \A q \in Procs : Staged(q)'
      BY <2>3, OwnStage, OtherStage
    <3> QED  BY <2>3, <3>1, <3>2, BareStep DEF StageInv
  <2> QED  BY <2>1, <2>2, <2>3 DEF Next
<1> QED  BY <1>1, <1>2, FSInvariant, TreeInvariant, PTL DEF Spec

\* A call that nothing disturbs does what docs/tools.md says of its tool: it
\* succeeds exactly when it should, reports the truth, leaves exactly the tree
\* that is promised, and a call that fails leaves the tree alone - for every
\* tree, every request, all limits and any number of other processes.
THEOREM UndisturbedCallsKeepTheContract == Spec => []SequentialContract
<1>1. FSInv /\ StageInv => SequentialContract
  <2> SUFFICES ASSUME FSInv, StageInv, NEW p \in Procs,
                      Done(p), ~ghost[p].disturbed, result[p].err # "EIO",
                      ~(op[p].kind = "copy" /\ op[p].path = op[p].target),
                      ~Contract!HasFile(Before(p), Root)
               PROVE  Outcome(Before(p), op[p], Now, result[p])
    BY DEF SequentialContract, Outcome
  <2>1. Alone(p) /\ Staged(p) /\ pc[p] = "idle"
    BY DEF Done, Alone, StageInv
  <2>2. Stage(Before(p), op[p], Now, "idle", loc[p], result[p], tree)
    BY <2>1 DEF Staged
  <2> QED  BY <2>2, StageMeans
<1> QED  BY <1>1, FSInvariant, StageInvariant, PTL

=============================================================================
