------------------------------ MODULE FileTree ------------------------------
(***************************************************************************)
(* The operating system below the sandbox root, as internal/fs uses it     *)
(* (external code): a directory tree, a table of inodes, and what the      *)
(* system calls behind os.Stat, os.OpenFile, os.Mkdir, os.Remove and       *)
(* os.Rename answer and do on a POSIX system, each in one atomic step.     *)
(*                                                                         *)
(* A path is the sequence of names below the root, the root is <<>>.       *)
(* Inode numbers are never reused.  Left out: symbolic and hard links (see *)
(* PathGuard for links), permissions, and a second volume.                 *)
(***************************************************************************)
EXTENDS Naturals, Sequences, FiniteSets

CONSTANTS Paths,  \* the paths the model knows, closed under taking prefixes
          Bytes   \* the bytes files are made of

Names == UNION {{q[i] : i \in DOMAIN q} : q \in Paths}

ASSUME PathsAssumption ==
    /\ IsFiniteSet(Paths)
    /\ Paths \subseteq Seq(Names)
    /\ <<>> \in Paths
    /\ \A q \in Paths : \A n \in 0..Len(q) : SubSeq(q, 1, n) \in Paths

VARIABLES tree,  \* inode number of each path; 0: no such entry
          inode  \* the inodes allocated so far

fsVars == <<tree, inode>>

Root == <<>>
Parent(q) == SubSeq(q, 1, Len(q) - 1)
Under(q, p) == Len(q) > Len(p) /\ SubSeq(q, 1, Len(p)) = p

File(data) == [kind |-> "file", data |-> data]
Dir == [kind |-> "dir", data |-> <<>>]

Node == [kind : {"file", "dir"}, data : Seq(Bytes)]

Exists(q) == tree[q] # 0
IsDir(q)  == Exists(q) /\ inode[tree[q]].kind = "dir"
IsFile(q) == Exists(q) /\ inode[tree[q]].kind = "file"
Below(p)  == {q \in Paths : Under(q, p) /\ Exists(q)}

\* Every entry other than the root is in a directory.
WellFormed == \A q \in Paths : Exists(q) /\ q # Root => IsDir(Parent(q))

TreeTypeOK ==
    /\ inode \in Seq(Node)
    /\ tree \in [Paths -> 0..Len(inode)]
    /\ \A i \in 1..Len(inode) : Cardinality({q \in Paths : tree[q] = i}) <= 1
    /\ WellFormed

\* stat(2), lstat(2): a file where a directory is needed is ENOTDIR.
Lookup(q) ==
    IF Exists(q) THEN "ok"
    ELSE IF \E a \in Paths : Under(q, a) /\ IsFile(a) THEN "ENOTDIR"
    ELSE "ENOENT"

\* What creating the missing entry q would answer.
ParentLookup(q) ==
    IF q = Root \/ IsDir(Parent(q)) THEN "ok"
    ELSE IF Lookup(q) = "ENOTDIR" THEN "ENOTDIR" ELSE "ENOENT"

\* A new inode under the name q.
Create(q, node) ==
    /\ inode' = Append(inode, node)
    /\ tree' = [tree EXCEPT ![q] = Len(inode) + 1]

\* open(2) for writing with O_CREAT and O_EXCL or O_TRUNC: the error, if any.
OpenError(q, overwrite) ==
    IF Exists(q)
    THEN IF ~overwrite THEN "EEXIST" ELSE IF IsDir(q) THEN "EISDIR" ELSE "ok"
    ELSE ParentLookup(q)

OpenTruncate(q) ==
    IF Exists(q) THEN /\ inode' = [inode EXCEPT ![tree[q]].data = <<>>]
                      /\ tree' = tree
                 ELSE Create(q, File(<<>>))

\* write(2) at offset 0: what is behind the written bytes stays.
Overlay(new, old) == new \o SubSeq(old, Len(new) + 1, Len(old))
WriteAt(i, content) == inode' = [inode EXCEPT ![i].data = Overlay(content, @)]

\* mkdir(2)
MkdirError(q) == IF Exists(q) THEN "EEXIST" ELSE ParentLookup(q)

\* os.MkdirAll, which tolerates directories that others make meanwhile.
MissingUpTo(q) == {a \in Paths : (a = q \/ Under(q, a)) /\ ~Exists(a)}
MkdirAllError(q) ==
    IF \E a \in Paths : (a = q \/ Under(q, a)) /\ IsFile(a) THEN "ENOTDIR" ELSE "ok"
MkdirAll(q) ==
    /\ inode' = inode \o [k \in 1..Cardinality(MissingUpTo(q)) |-> Dir]
    /\ tree' = [a \in Paths |-> IF a \in MissingUpTo(q)
                                THEN Len(inode) + 1 + Cardinality({b \in MissingUpTo(q) : Len(b) < Len(a)})
                                ELSE tree[a]]

\* unlink(2), rmdir(2): os.Remove tries the one, then the other.
RemoveError(q) ==
    IF ~Exists(q) THEN Lookup(q) ELSE IF Below(q) # {} THEN "ENOTEMPTY" ELSE "ok"
Unlink(q) == tree' = [tree EXCEPT ![q] = 0] /\ inode' = inode

\* rename(2)
RenameError(src, dst) ==
    IF ~Exists(src) THEN Lookup(src)
    ELSE IF Under(dst, src) THEN "EINVAL"
    ELSE IF ~Exists(dst) THEN ParentLookup(dst)
    ELSE IF IsDir(src) /\ IsFile(dst) THEN "ENOTDIR"
    ELSE IF IsFile(src) /\ IsDir(dst) THEN "EISDIR"
    ELSE IF Below(dst) # {} THEN "ENOTEMPTY"
    ELSE "ok"

\* The path whose entry ends up at q when src becomes dst.
Origin(q, src, dst) ==
    IF q = dst \/ Under(q, dst) THEN src \o SubSeq(q, Len(dst) + 1, Len(q)) ELSE q
Rename(src, dst) ==
    /\ tree' = [q \in Paths |->
                  LET o == Origin(q, src, dst)
                  IN IF q # dst /\ ~Under(q, dst) /\ (q = src \/ Under(q, src)) THEN 0
                     ELSE IF o \in Paths THEN tree[o] ELSE 0]
    /\ inode' = inode

\* Bound: the model has a name for everything the rename moves.
RenameFits(src, dst) ==
    \A q \in Below(src) : dst \o SubSeq(q, Len(src) + 1, Len(q)) \in Paths
=============================================================================
