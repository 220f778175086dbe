--------------------------- MODULE FileTreeProofs ----------------------------
(***************************************************************************)
(* What the system calls do, for every set of paths and every tree: how    *)
(* the table of inodes and the names change, and that a tree stays a tree. *)
(*                                                                         *)
(* TreeTypeOK looks at parents only, and a rename moves entries of every   *)
(* depth at once.  TreeInv therefore speaks of everything above an entry   *)
(* (Rooted) and of names in pairs (Unique), which each call can be shown   *)
(* to keep on its own.                                                     *)
(***************************************************************************)
EXTENDS FileTree, SequenceTheorems, FiniteSetTheorems, TLAPS

\* The inodes are a sequence and the names point into it.
TreeRange == inode \in Seq(Node) /\ tree \in [Paths -> 0..Len(inode)]

-----------------------------------------------------------------------------
(* Paths *)

\* A path is a sequence of names, and so is every part of it.
LEMMA PathTypes ==
    ASSUME NEW q \in Paths
    PROVE  /\ q \in Seq(Names) /\ Len(q) \in Nat
           /\ \A i \in 1..Len(q) : q[i] \in Names
           /\ \A n \in 0..Len(q) : /\ SubSeq(q, 1, n) \in Paths /\ Len(SubSeq(q, 1, n)) = n
                                   /\ \A i \in 1..n : SubSeq(q, 1, n)[i] = q[i]
<1>1. q \in Seq(Names) /\ Len(q) \in Nat
  BY PathsAssumption, LenProperties
<1>2. \A i \in 1..Len(q) : q[i] \in Names
  BY <1>1, ElementOfSeq
<1>3. ASSUME NEW n \in 0..Len(q)
      PROVE  /\ SubSeq(q, 1, n) \in Paths /\ Len(SubSeq(q, 1, n)) = n
             /\ \A i \in 1..n : SubSeq(q, 1, n)[i] = q[i]
  <2>1. n \in Int /\ \A i \in 1..n : q[i] \in Names
    BY <1>1, <1>2
  <2>2. /\ Len(SubSeq(q, 1, n)) = IF 1 <= n THEN n - 1 + 1 ELSE 0
        /\ \A i \in 1..(n - 1 + 1) : SubSeq(q, 1, n)[i] = q[1 + i - 1]
    BY <2>1, SubSeqProperties
  <2> QED  BY <1>1, <2>2, PathsAssumption
<1> QED  BY <1>1, <1>2, <1>3

\* Two paths with the same names are the same.
LEMMA SamePath ==
    ASSUME NEW a \in Paths, NEW b \in Paths, Len(a) = Len(b), \A i \in 1..Len(a) : a[i] = b[i]
    PROVE  a = b
BY PathTypes, SeqEqual

\* One path is below another when its first names are those of the other.
LEMMA UnderMeans ==
    ASSUME NEW q \in Paths, NEW a \in Paths
    PROVE  Under(q, a) <=> Len(q) > Len(a) /\ \A i \in 1..Len(a) : q[i] = a[i]
<1>1. Len(q) \in Nat /\ Len(a) \in Nat
  BY PathTypes
<1>2. CASE Len(q) > Len(a)
  <2> DEFINE s == SubSeq(q, 1, Len(a))
  <2>1. s \in Paths /\ Len(s) = Len(a) /\ \A i \in 1..Len(a) : s[i] = q[i]
    BY <1>1, <1>2, PathTypes
  <2>2. Under(q, a) <=> s = a
    BY <1>2 DEF Under
  <2> HIDE DEF s
  <2>3. (\A i \in 1..Len(a) : q[i] = a[i]) => s = a
    BY <2>1, SamePath
  <2> QED  BY <1>2, <2>1, <2>2, <2>3
<1>3. CASE ~(Len(q) > Len(a))
  BY <1>3 DEF Under
<1> QED  BY <1>2, <1>3

\* Of two paths above the same one, the shorter is above the longer.
LEMMA UnderOrder ==
    ASSUME NEW q \in Paths, NEW a \in Paths, NEW b \in Paths
    PROVE  /\ Under(q, a) /\ Under(a, b) => Under(q, b)
           /\ ~Under(a, a)
           /\ (q = a \/ Under(q, a)) /\ Under(q, b) => a = b \/ Under(a, b) \/ Under(b, a)
           /\ (q = a \/ Under(q, a)) /\ (q = b \/ Under(q, b)) /\ Len(a) = Len(b) => a = b
<1>1. Len(q) \in Nat /\ Len(a) \in Nat /\ Len(b) \in Nat
  BY PathTypes
<1>2. /\ Under(q, a) <=> Len(q) > Len(a) /\ \A i \in 1..Len(a) : q[i] = a[i]
      /\ Under(q, b) <=> Len(q) > Len(b) /\ \A i \in 1..Len(b) : q[i] = b[i]
      /\ Under(a, b) <=> Len(a) > Len(b) /\ \A i \in 1..Len(b) : a[i] = b[i]
      /\ Under(b, a) <=> Len(b) > Len(a) /\ \A i \in 1..Len(a) : b[i] = a[i]
  BY UnderMeans
<1>3. ~Under(a, a)
  BY <1>1 DEF Under
<1>4. Under(q, a) /\ Under(a, b) => Under(q, b)
  BY <1>1, <1>2
<1>5. (q = a \/ Under(q, a)) /\ (q = b \/ Under(q, b)) /\ Len(a) = Len(b) => a = b
  <2> SUFFICES ASSUME q = a \/ Under(q, a), q = b \/ Under(q, b), Len(a) = Len(b) PROVE a = b
    OBVIOUS
  <2>1. \A i \in 1..Len(a) : a[i] = b[i]
    BY <1>2
  <2> QED  BY <2>1, SamePath
<1>6. (q = a \/ Under(q, a)) /\ Under(q, b) => a = b \/ Under(a, b) \/ Under(b, a)
  <2> SUFFICES ASSUME q = a \/ Under(q, a), Under(q, b), Len(a) # Len(b)
               PROVE  Under(a, b) \/ Under(b, a)
    BY <1>5
  <2>1. CASE Len(a) > Len(b)
    BY <1>1, <1>2, <2>1
  <2>2. CASE Len(b) > Len(a)
    BY <1>1, <1>2, <2>2
  <2> QED  BY <1>1, <2>1, <2>2
<1> QED  BY <1>3, <1>4, <1>5, <1>6

\* The parent is the longest path above.
LEMMA ParentMeans ==
    ASSUME NEW q \in Paths
    PROVE  /\ Parent(q) \in Paths
           /\ q # Root => Under(q, Parent(q))
           /\ \A a \in Paths : Under(q, a) => a = Parent(q) \/ Under(Parent(q), a)
<1>1. Len(q) \in Nat /\ q \in Seq(Names)
  BY PathTypes
<1>2. CASE q = Root
  <2>1. Len(q) = 0
    BY <1>2, EmptySeq DEF Root
  <2>2. Parent(q) = <<>>
    <3>1. Len(q) - 1 \in Int /\ Len(q) - 1 < 1
      BY <2>1
    <3> QED  BY <3>1, SubSeqEmpty DEF Parent
  <2>3. \A a \in Paths : ~Under(q, a)
    BY <2>1, PathTypes DEF Under
  <2> QED  BY <1>2, <2>2, <2>3, PathsAssumption
<1>3. CASE q # Root
  <2>1. Len(q) > 0
    BY <1>1, <1>3, EmptySeq DEF Root
  <2>2. /\ Parent(q) \in Paths /\ Len(Parent(q)) = Len(q) - 1
        /\ \A i \in 1..(Len(q) - 1) : Parent(q)[i] = q[i]
    <3>1. Len(q) - 1 \in 0..Len(q)
      BY <1>1, <2>1
    <3>2. \A n \in 0..Len(q) : /\ SubSeq(q, 1, n) \in Paths /\ Len(SubSeq(q, 1, n)) = n
                              /\ \A i \in 1..n : SubSeq(q, 1, n)[i] = q[i]
      BY PathTypes
    <3> QED  BY ONLY <3>1, <3>2 DEF Parent
  <2>3. Under(q, Parent(q))
    BY <1>1, <2>1, <2>2, UnderMeans
  <2>4. ASSUME NEW a \in Paths, Under(q, a) PROVE a = Parent(q) \/ Under(Parent(q), a)
    <3>1. ~Under(a, Parent(q))
      BY <1>1, <2>2, <2>4, PathTypes DEF Under
    <3> QED  BY <2>2, <2>3, <2>4, <3>1, UnderOrder
  <2> QED  BY <2>2, <2>3, <2>4
<1> QED  BY <1>2, <1>3

-----------------------------------------------------------------------------
(* What the system calls do to the table of inodes and to the names *)

\* Inodes are added and never change their kind.
Grown == /\ TreeRange' /\ Len(inode) <= Len(inode')
         /\ \A i \in 1..Len(inode) : inode'[i].kind = inode[i].kind
BytesStay == \A i \in 1..Len(inode) : inode'[i] = inode[i]
NamesStay == \A a \in Paths : tree[a] # 0 => tree'[a] = tree[a]

\* A new entry.
LEMMA CreateEffect ==
    ASSUME TreeRange, NEW q \in Paths, NEW node \in Node, Create(q, node)
    PROVE  /\ Grown /\ BytesStay
           /\ Len(inode') = Len(inode) + 1 /\ tree'[q] = Len(inode) + 1
           /\ tree[q] = 0 => NamesStay
<1>1. inode \in Seq(Node) /\ Len(inode) \in Nat
  BY LenProperties DEF TreeRange
<1>2. /\ inode' \in Seq(Node) /\ Len(inode') = Len(inode) + 1
      /\ \A i \in 1..Len(inode) : inode'[i] = inode[i]
  BY <1>1, AppendProperties DEF Create
<1>3. tree' \in [Paths -> 0..Len(inode')] /\ tree'[q] = Len(inode) + 1
      /\ \A a \in Paths \ {q} : tree'[a] = tree[a]
  BY <1>1, <1>2 DEF TreeRange, Create
<1> QED  BY <1>1, <1>2, <1>3 DEF TreeRange, Grown, BytesStay, NamesStay

\* One element of a sequence is replaced.
LEMMA Replaced ==
    ASSUME NEW S, NEW s \in Seq(S), NEW i \in 1..Len(s), NEW e \in S, NEW t, t = [s EXCEPT ![i] = e]
    PROVE  /\ t \in Seq(S) /\ Len(t) = Len(s)
           /\ \A j \in 1..Len(s) : t[j] = IF j = i THEN e ELSE s[j]
BY ExceptSeq

\* New bytes in a file.
LEMMA DataEffect ==
    ASSUME TreeRange, NEW i \in 1..Len(inode), NEW d \in Seq(Bytes),
           inode' = [inode EXCEPT ![i].data = d], tree' = tree
    PROVE  /\ Grown /\ NamesStay /\ Len(inode') = Len(inode)
           /\ \A j \in 1..Len(inode) : j # i => inode'[j] = inode[j]
<1>1. inode \in Seq(Node) /\ Len(inode) \in Nat
  BY LenProperties DEF TreeRange
<1> DEFINE e == [inode[i] EXCEPT !.data = d]
<1>2. inode[i] \in Node
  BY <1>1, ElementOfSeq
<1>3. e \in Node /\ e.kind = inode[i].kind
  BY <1>2 DEF Node
<1>4. inode' = [inode EXCEPT ![i] = e]
  OBVIOUS
<1> HIDE DEF e
<1>5. /\ inode' \in Seq(Node) /\ Len(inode') = Len(inode)
      /\ \A j \in 1..Len(inode) : inode'[j] = IF j = i THEN e ELSE inode[j]
  BY ONLY i \in 1..Len(inode), <1>1, <1>3, <1>4, Replaced
<1> QED  BY <1>1, <1>3, <1>5 DEF TreeRange, Grown, NamesStay

\* What a write leaves in a file.
LEMMA OverlayType ==
    ASSUME NEW new \in Seq(Bytes), NEW old \in Seq(Bytes)
    PROVE  Overlay(new, old) \in Seq(Bytes)
<1>1. Len(new) \in Nat /\ Len(old) \in Nat
  BY LenProperties
<1>2. \A i \in (Len(new) + 1)..Len(old) : old[i] \in Bytes
  BY <1>1, ElementOfSeq
<1>3. SubSeq(old, Len(new) + 1, Len(old)) \in Seq(Bytes)
  BY <1>1, <1>2, SubSeqProperties
<1> QED  BY <1>3, ConcatProperties DEF Overlay

\* Entries that go away, or get another name.
LEMMA NamesEffect ==
    ASSUME TreeRange, \/ \E q \in Paths : Unlink(q)
                      \/ \E src, dst \in Paths : Rename(src, dst)
    PROVE  Grown /\ BytesStay /\ inode' = inode
<1>1. Len(inode) \in Nat
  BY LenProperties DEF TreeRange
<1>2. inode' = inode
  BY DEF Unlink, Rename
<1>3. CASE \E q \in Paths : Unlink(q)
  BY <1>1, <1>2, <1>3 DEF Unlink, TreeRange, Grown, BytesStay
<1>4. CASE \E src, dst \in Paths : Rename(src, dst)
  <2>1. PICK src, dst \in Paths : Rename(src, dst)
    BY <1>4
  <2>2. tree' \in [Paths -> 0..Len(inode)]
    BY <1>1, <2>1 DEF Rename, TreeRange
  <2> QED  BY <1>1, <1>2, <2>2 DEF TreeRange, Grown, BytesStay
<1> QED  BY <1>3, <1>4

\* Directories for all that is missing.
LEMMA MkdirAllEffect ==
    ASSUME TreeRange, NEW q, MkdirAll(q)
    PROVE  /\ Grown /\ BytesStay /\ NamesStay
           /\ \A i \in (Len(inode) + 1)..Len(inode') : inode'[i] = Dir
           /\ \A a \in Paths \ MissingUpTo(q) : tree'[a] = tree[a]
           /\ \A a \in MissingUpTo(q) : tree'[a] \in (Len(inode) + 1)..Len(inode')
           /\ \A a, b \in MissingUpTo(q) : Len(a) < Len(b) => tree'[a] # tree'[b]
<1> DEFINE M == MissingUpTo(q)
           dirs == [k \in 1..Cardinality(M) |-> Dir]
           before(a) == {b \in M : Len(b) < Len(a)}
<1>1. inode \in Seq(Node) /\ Len(inode) \in Nat
  BY LenProperties DEF TreeRange
<1>2. M \subseteq Paths /\ IsFiniteSet(M) /\ Cardinality(M) \in Nat
  BY PathsAssumption, FS_Subset, FS_CardinalityType DEF MissingUpTo
<1>3. Dir \in Node
  BY EmptySeq DEF Dir, Node
<1>4. dirs \in Seq(Node) /\ Len(dirs) = Cardinality(M)
  BY <1>2, <1>3
<1>5. ASSUME NEW a \in M
      PROVE  Cardinality(before(a)) \in Nat /\ Cardinality(before(a)) < Cardinality(M)
  <2>1. before(a) \in SUBSET M /\ a \notin before(a)
    <3>1. ~(Len(a) < Len(a))
      OBVIOUS
    <3> QED  BY <3>1
  <2>2. before(a) # M
    BY <2>1
  <2> HIDE DEF M, before
  <2>3. IsFiniteSet(before(a)) /\ Cardinality(before(a)) <= Cardinality(M)
        /\ Cardinality(before(a)) # Cardinality(M)
    BY <1>2, <2>1, <2>2, FS_Subset
  <2>4. Cardinality(before(a)) \in Nat
    BY <2>3, FS_CardinalityType
  <2> QED  BY <1>2, <2>3, <2>4
<1> HIDE DEF dirs
<1>6. inode' = inode \o dirs
  BY DEF MkdirAll, dirs
<1>7. /\ inode' \in Seq(Node) /\ Len(inode') = Len(inode) + Cardinality(M)
      /\ \A i \in 1..Len(inode) : inode'[i] = inode[i]
      /\ \A i \in (Len(inode) + 1)..Len(inode') : inode'[i] = Dir
  <2> HIDE DEF M
  <2>1. /\ inode' \in Seq(Node) /\ Len(inode') = Len(inode) + Len(dirs)
        /\ \A i \in 1..(Len(inode) + Len(dirs)) :
             inode'[i] = IF i <= Len(inode) THEN inode[i] ELSE dirs[i - Len(inode)]
    BY <1>1, <1>4, <1>6, ConcatProperties, Zenon
  <2>2. \A k \in 1..Cardinality(M) : dirs[k] = Dir
    BY DEF dirs
  <2>3. \A i \in (Len(inode) + 1)..Len(inode') :
          /\ ~(i <= Len(inode)) /\ i \in 1..(Len(inode) + Len(dirs)) /\ i - Len(inode) \in 1..Cardinality(M)
    BY <1>1, <1>2, <1>4, <2>1
  <2>4. \A i \in (Len(inode) + 1)..Len(inode') : inode'[i] = Dir
    BY <2>1, <2>2, <2>3
  <2>5. \A i \in 1..Len(inode) : inode'[i] = inode[i]
    BY <1>1, <1>2, <1>4, <2>1
  <2> QED  BY <1>4, <2>1, <2>4, <2>5
<1>8. tree' = [a \in Paths |-> IF a \in M THEN Len(inode) + 1 + Cardinality(before(a)) ELSE tree[a]]
  BY DEF MkdirAll
<1>9. \A a \in M : tree[a] = 0
  BY DEF MissingUpTo, Exists
<1> HIDE DEF M, before
<1>10. tree' \in [Paths -> 0..Len(inode')]
  BY <1>1, <1>2, <1>5, <1>7, <1>8 DEF TreeRange
<1>11. NamesStay
  BY <1>8, <1>9 DEF NamesStay
<1>12. /\ \A a \in Paths \ M : tree'[a] = tree[a]
       /\ \A a \in M : tree'[a] \in (Len(inode) + 1)..Len(inode')
  BY <1>1, <1>2, <1>5, <1>7, <1>8
<1>13. ASSUME NEW a \in M, NEW b \in M, Len(a) < Len(b)
       PROVE  tree'[a] # tree'[b]
  <2>1. before(b) \in SUBSET M /\ before(a) \in SUBSET before(b) /\ before(a) # before(b)
    <3>1. Len(a) \in Nat /\ Len(b) \in Nat /\ \A c \in M : Len(c) \in Nat
      BY <1>2, PathTypes
    <3>2. a \in before(b) /\ a \notin before(a)
      BY <1>13, <3>1 DEF before
    <3> QED  BY <1>13, <3>1, <3>2 DEF before
  <2>2. Cardinality(before(a)) # Cardinality(before(b))
    BY <1>2, <2>1, FS_Subset
  <2>3. tree'[a] = Len(inode) + 1 + Cardinality(before(a)) /\ tree'[b] = Len(inode) + 1 + Cardinality(before(b))
    BY <1>2, <1>8
  <2>4. Cardinality(before(a)) \in Nat /\ Cardinality(before(b)) \in Nat
    BY <1>5
  <2> QED  BY <1>1, <2>2, <2>3, <2>4
<1>14. Grown /\ BytesStay
  <2>1. BytesStay /\ \A i \in 1..Len(inode) : inode'[i].kind = inode[i].kind
    BY <1>7 DEF BytesStay
  <2>2. Len(inode) <= Len(inode')
    BY <1>1, <1>2, <1>7
  <2>3. TreeRange'
    BY <1>7, <1>10 DEF TreeRange
  <2> QED  BY <2>1, <2>2, <2>3 DEF Grown
<1>15. \A a, b \in M : Len(a) < Len(b) => tree'[a] # tree'[b]
  BY <1>13
<1> QED  BY <1>7, <1>11, <1>12, <1>14, <1>15 DEF M

-----------------------------------------------------------------------------
(* A tree stays a tree *)

\* No inode has two names, and all that is above an entry is a directory.
Unique == \A a, b \in Paths : Exists(a) /\ tree[a] = tree[b] => a = b
Rooted == \A q, a \in Paths : Exists(q) /\ Under(q, a) => IsDir(a)
TreeInv == TreeRange /\ Unique /\ Rooted

\* This is what TreeTypeOK says by counting names and looking at parents.
LEMMA TreeInvType ==
    ASSUME TreeInv
    PROVE  TreeTypeOK
<1>1. ASSUME NEW i \in 1..Len(inode)
      PROVE  Cardinality({q \in Paths : tree[q] = i}) <= 1
  <2> DEFINE N == {q \in Paths : tree[q] = i}
  <2>1. i # 0
    BY LenProperties DEF TreeInv, TreeRange
  <2>2. CASE N = {}
    BY <2>2, FS_EmptySet
  <2>3. CASE N # {}
    <3>1. PICK a \in Paths : tree[a] = i
      BY <2>3
    <3>2. \A b \in Paths : tree[b] = i <=> b = a
      BY <2>1, <3>1 DEF TreeInv, Unique, Exists
    <3>3. N = {a}
      BY <3>1, <3>2
    <3> HIDE DEF N
    <3>4. Cardinality({a}) = 1
      BY FS_Singleton
    <3> QED  BY <3>3, <3>4 DEF N
  <2> QED  BY <2>2, <2>3
<1>2. WellFormed
  BY ParentMeans DEF TreeInv, Rooted, WellFormed
<1> QED  BY <1>1, <1>2 DEF TreeInv, TreeRange, TreeTypeOK

\* A directory that keeps its name is still a directory.
LEMMA DirStays ==
    ASSUME TreeRange, Grown, NEW a \in Paths, IsDir(a), tree'[a] = tree[a]
    PROVE  IsDir(a)'
<1>1. tree[a] \in 1..Len(inode)
  BY LenProperties DEF TreeRange, IsDir, Exists
<1> QED  BY <1>1 DEF Grown, IsDir, Exists

\* open(2) and mkdir(2) put a new entry into a directory.
LEMMA CreateTree ==
    ASSUME TreeInv, NEW q \in Paths, NEW node \in Node, Create(q, node),
           ~Exists(q), q = Root \/ IsDir(Parent(q))
    PROVE  TreeInv'
<1>1. TreeRange /\ Unique /\ Rooted
  BY DEF TreeInv
<1>2. Grown /\ tree'[q] = Len(inode) + 1 /\ NamesStay
  BY <1>1, CreateEffect DEF Exists
<1>3. Len(inode) \in Nat /\ \A a \in Paths : tree[a] \in 0..Len(inode)
  BY <1>1, LenProperties DEF TreeRange
<1>4. \A a \in Paths \ {q} : tree'[a] = tree[a]
  BY <1>1 DEF Create, TreeRange
<1>5. Unique'
  BY <1>1, <1>2, <1>3, <1>4 DEF Unique, Exists
<1>6. \A a \in Paths : Under(q, a) => IsDir(a)
  <2>1. CASE q = Root
    <3>1. Len(q) = 0
      BY <2>1, EmptySeq DEF Root
    <3> QED  BY <3>1, PathTypes DEF Under
  <2>2. CASE IsDir(Parent(q))
    BY <1>1, <2>2, ParentMeans DEF Rooted, IsDir
  <2> QED  BY <2>1, <2>2
<1>7. ASSUME NEW x \in Paths, NEW a \in Paths, tree'[x] # 0, Under(x, a) PROVE IsDir(a)'
  <2>1. IsDir(a)
    BY <1>1, <1>4, <1>6, <1>7 DEF Rooted, Exists
  <2>2. a # q
    BY <2>1 DEF IsDir
  <2> QED  BY <1>1, <1>2, <1>4, <2>1, <2>2, DirStays
<1>8. Rooted'
  BY <1>7 DEF Rooted, Exists, Under
<1> QED  BY <1>2, <1>5, <1>8 DEF TreeInv, Grown

\* New bytes leave the tree as it is.
LEMMA SameTree ==
    ASSUME TreeInv, Grown, tree' = tree
    PROVE  TreeInv'
<1>1. TreeRange /\ Unique /\ Rooted
  BY DEF TreeInv
<1>2. Unique'
  BY <1>1 DEF Unique, Exists
<1>3. \A x, a \in Paths : tree'[x] # 0 /\ Under(x, a) => IsDir(a)'
  BY <1>1, DirStays DEF Rooted, Exists
<1>4. Rooted'
  BY <1>3 DEF Rooted, Exists, Under
<1> QED  BY <1>2, <1>4 DEF TreeInv, Grown

\* unlink(2) and rmdir(2) take an entry with nothing below it.
LEMMA UnlinkTree ==
    ASSUME TreeInv, NEW q \in Paths, Unlink(q), Below(q) = {}
    PROVE  TreeInv'
<1>1. TreeRange /\ Unique /\ Rooted
  BY DEF TreeInv
<1>2. Grown
  BY <1>1, NamesEffect
<1>3. tree'[q] = 0 /\ \A a \in Paths \ {q} : tree'[a] = tree[a]
  BY <1>1 DEF Unlink, TreeRange
<1>4. Unique'
  BY <1>1, <1>3 DEF Unique, Exists
<1>5. ASSUME NEW x \in Paths, NEW a \in Paths, tree'[x] # 0, Under(x, a) PROVE IsDir(a)'
  <2>1. x # q /\ tree[x] # 0
    BY <1>3, <1>5
  <2>2. a # q
    BY <1>5, <2>1 DEF Below, Exists
  <2> QED  BY <1>1, <1>2, <1>3, <1>5, <2>1, <2>2, DirStays DEF Rooted, Exists
<1>6. Rooted'
  BY <1>5 DEF Rooted, Exists, Under
<1> QED  BY <1>2, <1>4, <1>6 DEF TreeInv, Grown

\* os.MkdirAll makes directories only, and each in a directory.
LEMMA MkdirAllTree ==
    ASSUME TreeInv, NEW q \in Paths, MkdirAllError(q) = "ok", MkdirAll(q)
    PROVE  TreeInv'
<1> DEFINE M == MissingUpTo(q)
<1>1. TreeRange /\ Unique /\ Rooted
  BY DEF TreeInv
<1>2. /\ Grown /\ NamesStay
      /\ \A i \in (Len(inode) + 1)..Len(inode') : inode'[i] = Dir
      /\ \A a \in Paths \ M : tree'[a] = tree[a]
      /\ \A a \in M : tree'[a] \in (Len(inode) + 1)..Len(inode')
      /\ \A a, b \in M : Len(a) < Len(b) => tree'[a] # tree'[b]
  BY <1>1, MkdirAllEffect
<1>3. /\ Len(inode) \in Nat /\ Len(inode') \in Nat
      /\ \A a \in Paths : tree[a] \in 0..Len(inode)
  BY <1>1, <1>2, LenProperties DEF TreeRange, Grown
<1>4. M \subseteq Paths /\ \A a \in M : Len(a) \in Nat /\ (a = q \/ Under(q, a))
  BY PathTypes DEF MissingUpTo
<1>5. \A a \in Paths : (a = q \/ Under(q, a)) => a \in M \/ IsDir(a)
  <2> SUFFICES ASSUME NEW a \in Paths, a = q \/ Under(q, a), a \notin M PROVE IsDir(a)
    OBVIOUS
  <2>1. Exists(a)
    BY DEF MissingUpTo
  <2>2. ~IsFile(a)
    BY DEF MkdirAllError
  <2>3. tree[a] \in 1..Len(inode)
    BY <1>3, <2>1 DEF Exists
  <2>4. inode[tree[a]] \in Node
    BY <1>1, <2>3, ElementOfSeq DEF TreeRange
  <2> QED  BY <2>1, <2>2, <2>4 DEF IsFile, IsDir, Node
<1> HIDE DEF M
<1>6. Unique'
  <2> SUFFICES ASSUME NEW a \in Paths, NEW b \in Paths, tree'[a] # 0, tree'[a] = tree'[b]
               PROVE  a = b
    BY DEF Unique, Exists
  <2>1. CASE a \in M /\ b \in M
    <3>1. Len(a) = Len(b)
      BY <1>2, <1>4, <2>1
    <3> QED  BY <1>4, <2>1, <3>1, UnderOrder
  <2>2. CASE a \notin M /\ b \notin M
    BY <1>1, <1>2, <2>2 DEF Unique, Exists
  <2>3. CASE (a \in M) # (b \in M)
    BY <1>2, <1>3, <2>3
  <2> QED  BY <2>1, <2>2, <2>3
<1>7. ASSUME NEW x \in Paths, NEW a \in Paths, tree'[x] # 0, Under(x, a) PROVE IsDir(a)'
  <2>1. CASE IsDir(a)
    BY <1>1, <1>2, <2>1, DirStays DEF NamesStay, IsDir, Exists
  <2>2. CASE a \in M
    <3>1. tree'[a] # 0 /\ inode'[tree'[a]] = Dir
      BY <1>2, <1>3, <2>2
    <3> QED  BY <3>1 DEF IsDir, Exists, Dir
  <2>3. CASE x \notin M
    <3>1. IsDir(a)
      BY <1>1, <1>2, <1>7, <2>3 DEF Rooted, Exists
    <3> QED  BY <2>1, <3>1
  <2>4. CASE x \in M
    <3>1. Under(q, a)
      BY <1>4, <1>7, <2>4, UnderOrder
    <3> QED  BY <1>5, <2>1, <2>2, <3>1
  <2> QED  BY <2>3, <2>4
<1>8. Rooted'
  BY <1>7 DEF Rooted, Exists, Under
<1> QED  BY <1>2, <1>6, <1>8 DEF TreeInv, Grown
\* o is the source followed by the rest of q below dst.
MovedFrom(o, q, src, dst) ==
    /\ o \in Seq(Names) /\ Len(o) = Len(src) + Len(q) - Len(dst)
    /\ Len(q) >= Len(dst) /\ \A i \in 1..Len(dst) : q[i] = dst[i]
    /\ \A i \in 1..Len(src) : o[i] = src[i]
    /\ \A i \in 1..(Len(q) - Len(dst)) : o[Len(src) + i] = q[Len(dst) + i]

\* That is what a rename brings to a path in the new place.
LEMMA OriginMeans ==
    ASSUME NEW src \in Paths, NEW dst \in Paths, NEW q \in Paths, q = dst \/ Under(q, dst)
    PROVE  MovedFrom(Origin(q, src, dst), q, src, dst)
<1> DEFINE o == Origin(q, src, dst)
           s == SubSeq(q, Len(dst) + 1, Len(q))
<1>1. /\ src \in Seq(Names) /\ Len(src) \in Nat /\ Len(dst) \in Nat /\ Len(q) \in Nat
      /\ \A i \in 1..Len(q) : q[i] \in Names
  BY PathTypes
<1>2. Len(q) >= Len(dst) /\ \A i \in 1..Len(dst) : q[i] = dst[i]
  BY <1>1, UnderMeans
<1>3. /\ s \in Seq(Names) /\ Len(s) = Len(q) - Len(dst)
      /\ \A i \in 1..(Len(q) - Len(dst)) : s[i] = q[Len(dst) + i]
  <2>1. /\ Len(dst) + 1 \in Int /\ Len(q) \in Int
        /\ \A i \in (Len(dst) + 1)..Len(q) : q[i] \in Names
    BY <1>1
  <2>2. /\ s \in Seq(Names)
        /\ Len(s) = IF Len(dst) + 1 <= Len(q) THEN Len(q) - (Len(dst) + 1) + 1 ELSE 0
        /\ \A i \in 1..(Len(q) - (Len(dst) + 1) + 1) : s[i] = q[Len(dst) + 1 + i - 1]
    BY <2>1, SubSeqProperties
  <2> HIDE DEF s
  <2>3. Len(s) = Len(q) - Len(dst)
    BY <1>1, <1>2, <2>2
  <2>4. ASSUME NEW i \in 1..(Len(q) - Len(dst)) PROVE s[i] = q[Len(dst) + i]
    <3>1. i \in 1..(Len(q) - (Len(dst) + 1) + 1) /\ Len(dst) + 1 + i - 1 = Len(dst) + i
      BY <1>1, <2>4
    <3> QED  BY <2>2, <3>1
  <2> QED  BY <2>2, <2>3, <2>4
<1>4. o = src \o s
  BY DEF Origin
<1> HIDE DEF s, o
<1>5. /\ o \in Seq(Names) /\ Len(o) = Len(src) + Len(s)
      /\ \A i \in 1..(Len(src) + Len(s)) : o[i] = IF i <= Len(src) THEN src[i] ELSE s[i - Len(src)]
  BY <1>1, <1>3, <1>4, ConcatProperties
<1>6. ASSUME NEW i \in 1..Len(src) PROVE o[i] = src[i]
  <2>1. i \in 1..(Len(src) + Len(s)) /\ i <= Len(src)
    BY <1>1, <1>2, <1>3
  <2> QED  BY <1>5, <2>1
<1>7. ASSUME NEW i \in 1..(Len(q) - Len(dst)) PROVE o[Len(src) + i] = q[Len(dst) + i]
  <2>1. /\ Len(src) + i \in 1..(Len(src) + Len(s)) /\ ~(Len(src) + i <= Len(src))
        /\ Len(src) + i - Len(src) = i
    BY <1>1, <1>3
  <2>2. o[Len(src) + i] = s[Len(src) + i - Len(src)]
    BY <1>5, <2>1
  <2> QED  BY <1>3, <2>1, <2>2
<1>8. MovedFrom(o, q, src, dst)
  BY <1>1, <1>2, <1>3, <1>5, <1>6, <1>7 DEF MovedFrom
<1> QED  BY <1>8 DEF o

\* It is the source or below it, and different paths have different origins.
LEMMA OriginDistinct ==
    ASSUME NEW src \in Paths, NEW dst \in Paths, NEW q \in Paths, q = dst \/ Under(q, dst),
           Origin(q, src, dst) \in Paths
    PROVE  /\ Origin(q, src, dst) = src \/ Under(Origin(q, src, dst), src)
           /\ \A r \in Paths : (r = dst \/ Under(r, dst)) /\ Origin(r, src, dst) = Origin(q, src, dst) => r = q
<1> DEFINE o == Origin(q, src, dst)
<1>1. /\ Len(src) \in Nat /\ Len(dst) \in Nat /\ Len(q) \in Nat
      /\ o = Origin(q, src, dst) /\ o \in Paths
  BY PathTypes
<1> HIDE DEF o
<1>2. /\ Len(o) = Len(src) + Len(q) - Len(dst) /\ Len(q) >= Len(dst)
      /\ \A i \in 1..Len(dst) : q[i] = dst[i]
      /\ \A i \in 1..Len(src) : o[i] = src[i]
      /\ \A i \in 1..(Len(q) - Len(dst)) : o[Len(src) + i] = q[Len(dst) + i]
  <2>1. MovedFrom(o, q, src, dst)
    BY <1>1, OriginMeans
  <2> QED  BY <2>1 DEF MovedFrom
<1>3. ASSUME NEW r \in Paths, r = dst \/ Under(r, dst), Origin(r, src, dst) = o PROVE r = q
  <2>1. /\ Len(o) = Len(src) + Len(r) - Len(dst) /\ Len(r) >= Len(dst)
        /\ \A i \in 1..Len(dst) : r[i] = dst[i]
        /\ \A i \in 1..(Len(r) - Len(dst)) : o[Len(src) + i] = r[Len(dst) + i]
    <3>1. MovedFrom(o, r, src, dst)
      BY <1>3, OriginMeans
    <3> QED  BY <3>1 DEF MovedFrom
  <2>2. Len(r) = Len(q)
    BY <1>1, <1>2, <2>1, PathTypes
  <2>3. ASSUME NEW i \in 1..Len(q) PROVE r[i] = q[i]
    <3>1. CASE i <= Len(dst)
      BY <1>1, <1>2, <2>1, <3>1
    <3>2. CASE i > Len(dst)
      <4>1. i - Len(dst) \in 1..(Len(q) - Len(dst)) /\ Len(dst) + (i - Len(dst)) = i
        BY <1>1, <3>2
      <4> QED  BY <1>2, <2>1, <2>2, <4>1
    <3> QED  BY <1>1, <3>1, <3>2
  <2> QED  BY <1>1, <2>2, <2>3, SamePath
<1>4. o = src \/ Under(o, src)
  <2>1. CASE Len(o) = Len(src)
    BY <1>1, <1>2, <2>1, SamePath
  <2>2. CASE Len(o) > Len(src)
    BY <1>1, <1>2, <2>2, UnderMeans
  <2> QED  BY <1>1, <1>2, <2>1, <2>2
<1> QED  BY <1>3, <1>4 DEF o

\* What was above an entry in the old place is above it in the new one.
LEMMA OriginAbove ==
    ASSUME NEW src \in Paths, NEW dst \in Paths, NEW q \in Paths, NEW a \in Paths,
           a = dst \/ Under(a, dst), Under(q, a), Origin(q, src, dst) \in Paths
    PROVE  Origin(a, src, dst) \in Paths /\ Under(Origin(q, src, dst), Origin(a, src, dst))
<1> DEFINE o == Origin(q, src, dst)
           m == Origin(a, src, dst)
           p == SubSeq(o, 1, Len(m))
<1>1. /\ Len(src) \in Nat /\ Len(dst) \in Nat /\ Len(q) \in Nat /\ Len(a) \in Nat /\ o \in Paths
      /\ Len(q) > Len(a) /\ \A i \in 1..Len(a) : q[i] = a[i]
  BY PathTypes, UnderMeans
<1> HIDE DEF o, m
<1>2. Under(q, dst)
  BY UnderOrder
<1>3. /\ Len(o) = Len(src) + Len(q) - Len(dst)
      /\ \A i \in 1..Len(src) : o[i] = src[i]
      /\ \A i \in 1..(Len(q) - Len(dst)) : o[Len(src) + i] = q[Len(dst) + i]
  <2>1. MovedFrom(o, q, src, dst)
    BY <1>2, OriginMeans DEF o
  <2> QED  BY <2>1 DEF MovedFrom
<1>4. /\ m \in Seq(Names) /\ Len(m) = Len(src) + Len(a) - Len(dst) /\ Len(a) >= Len(dst)
      /\ \A i \in 1..Len(src) : m[i] = src[i]
      /\ \A i \in 1..(Len(a) - Len(dst)) : m[Len(src) + i] = a[Len(dst) + i]
  <2>1. MovedFrom(m, a, src, dst)
    BY OriginMeans DEF m
  <2> QED  BY <2>1 DEF MovedFrom
<1>5. Len(m) \in 0..Len(o) /\ Len(m) < Len(o)
  BY <1>1, <1>3, <1>4
<1>6. p \in Paths /\ Len(p) = Len(m) /\ \A i \in 1..Len(m) : p[i] = o[i]
  BY <1>1, <1>5, PathTypes
<1>7. ASSUME NEW i \in 1..Len(m) PROVE m[i] = o[i]
  <2>1. CASE i <= Len(src)
    BY <1>1, <1>3, <1>4, <2>1
  <2>2. CASE i > Len(src)
    <3> DEFINE k == i - Len(src)
    <3>1. /\ k \in 1..(Len(a) - Len(dst)) /\ k \in 1..(Len(q) - Len(dst)) /\ Len(src) + k = i
          /\ Len(dst) + k \in 1..Len(a)
      BY <1>1, <1>4, <2>2
    <3> QED  BY <1>1, <1>3, <1>4, <3>1
  <2> QED  BY <1>1, <1>4, <1>5, <2>1, <2>2
<1> HIDE DEF p
<1>8. p = m
  <2>1. p \in Seq(Names) /\ Len(m) \in Nat /\ \A i \in 1..Len(p) : p[i] = m[i]
    BY <1>5, <1>6, <1>7, PathTypes
  <2> QED  BY <1>4, <1>6, <2>1, SeqEqual
<1>9. Under(o, m)
  BY <1>1, <1>5, <1>6, <1>7, <1>8, UnderMeans
<1> QED  BY <1>6, <1>8, <1>9 DEF o, m
\* rename(2) moves a subtree as a whole, and never below itself.
LEMMA RenameTree ==
    ASSUME TreeInv, NEW src \in Paths, NEW dst \in Paths, RenameError(src, dst) = "ok", Rename(src, dst)
    PROVE  TreeInv'
<1> DEFINE InSrc(q) == q = src \/ Under(q, src)
           InDst(q) == q = dst \/ Under(q, dst)
           From(q) == Origin(q, src, dst)
<1>1. TreeRange /\ Unique /\ Rooted
  BY DEF TreeInv
<1>2. Grown /\ inode' = inode
  BY <1>1, NamesEffect
<1>3. ASSUME NEW q \in Paths
      PROVE  /\ InDst(q) => tree'[q] = IF From(q) \in Paths THEN tree[From(q)] ELSE 0
             /\ ~InDst(q) /\ InSrc(q) => tree'[q] = 0
             /\ ~InDst(q) /\ ~InSrc(q) => tree'[q] = tree[q]
  BY DEF Rename, Origin
<1>4. ~Under(dst, src)
  BY DEF RenameError, Lookup
<1>5. ASSUME NEW a \in Paths, Under(dst, a) PROVE IsDir(a)
  <2>1. CASE Exists(dst)
    BY <1>1, <1>5, <2>1 DEF Rooted
  <2>2. CASE ~Exists(dst)
    <3>1. dst = Root \/ IsDir(Parent(dst))
      BY <2>2 DEF RenameError, ParentLookup, Lookup
    <3>2. dst # Root
      <4>1. CASE dst = Root
        <5>1. Len(dst) = 0
          BY <4>1, EmptySeq DEF Root
        <5> QED  BY <1>5, <5>1, PathTypes DEF Under
      <4> QED  BY <4>1
    <3> QED  BY <1>1, <1>5, <3>1, <3>2, ParentMeans DEF Rooted, IsDir
  <2> QED  BY <2>1, <2>2
<1>6. \A q \in Paths : InDst(q) /\ From(q) \in Paths => InSrc(From(q))
  BY OriginDistinct
<1>7. \A q, r \in Paths : InDst(q) /\ InDst(r) /\ From(q) \in Paths /\ From(r) = From(q) => r = q
  BY OriginDistinct
<1>8. \A q, a \in Paths : InDst(a) /\ Under(q, a) /\ From(q) \in Paths =>
                          From(a) \in Paths /\ Under(From(q), From(a))
  BY OriginAbove
<1>9. \A q, a \in Paths : Under(q, a) => (InDst(a) => InDst(q)) /\ (InSrc(a) => InSrc(q))
  BY UnderOrder
<1>10. \A q, a \in Paths : InDst(q) /\ ~InDst(a) /\ Under(q, a) => Under(dst, a)
  BY UnderOrder
<1>11. \A a \in Paths : Under(dst, a) => ~InSrc(a)
  BY <1>4, UnderOrder
<1> HIDE DEF InSrc, InDst, From
<1>12. Unique'
  <2> SUFFICES ASSUME NEW a \in Paths, NEW b \in Paths, tree'[a] # 0, tree'[a] = tree'[b]
               PROVE  a = b
    BY DEF Unique, Exists
  <2>1. CASE InDst(a) /\ InDst(b)
    <3>1. From(a) \in Paths /\ From(b) \in Paths /\ tree[From(a)] # 0 /\ tree[From(a)] = tree[From(b)]
      BY <1>3, <2>1
    <3>2. From(b) = From(a)
      BY <1>1, <3>1 DEF Unique, Exists
    <3> QED  BY <1>7, <2>1, <3>1, <3>2
  <2>2. CASE ~InDst(a) /\ ~InDst(b)
    <3>1. tree[a] # 0 /\ tree[a] = tree[b]
      BY <1>3, <2>2
    <3> QED  BY <1>1, <3>1 DEF Unique, Exists
  <2>3. ASSUME NEW x \in Paths, NEW y \in Paths, InDst(x), ~InDst(y), tree'[x] # 0, tree'[x] = tree'[y]
        PROVE  FALSE
    <3>1. From(x) \in Paths /\ tree[From(x)] # 0 /\ ~InSrc(y) /\ tree[From(x)] = tree[y]
      BY <1>3, <2>3
    <3>2. From(x) = y
      BY <1>1, <3>1 DEF Unique, Exists
    <3> QED  BY <1>6, <2>3, <3>1, <3>2
  <2> QED  BY <2>1, <2>2, <2>3
<1>13. ASSUME NEW x \in Paths, NEW a \in Paths, tree'[x] # 0, Under(x, a) PROVE IsDir(a)'
  <2>1. CASE InDst(x) /\ InDst(a)
    <3>1. From(x) \in Paths /\ tree[From(x)] # 0
      BY <1>3, <1>13, <2>1
    <3>2. From(a) \in Paths /\ Under(From(x), From(a))
      BY <1>8, <1>13, <2>1, <3>1
    <3>3. IsDir(From(a))
      BY <1>1, <3>1, <3>2 DEF Rooted, Exists
    <3>4. tree'[a] = tree[From(a)]
      BY <1>3, <2>1, <3>2
    <3> QED  BY <1>2, <3>3, <3>4 DEF IsDir, Exists
  <2>2. CASE ~InDst(a)
    <3>1. IsDir(a) /\ ~InSrc(a)
      <4>1. CASE InDst(x)
        <5>1. Under(dst, a)
          BY <1>10, <1>13, <2>2, <4>1
        <5> QED  BY <1>5, <1>11, <5>1
      <4>2. CASE ~InDst(x)
        <5>1. ~InSrc(x) /\ tree[x] # 0
          BY <1>3, <1>13, <4>2
        <5> QED  BY <1>1, <1>9, <1>13, <5>1 DEF Rooted, Exists
      <4> QED  BY <4>1, <4>2
    <3> QED  BY <1>1, <1>2, <1>3, <2>2, <3>1, DirStays
  <2>3. ~InDst(x) => ~InDst(a)
    BY <1>9, <1>13
  <2> QED  BY <2>1, <2>2, <2>3
<1>14. Rooted'
  BY <1>13 DEF Rooted, Exists, Under
<1> QED  BY <1>2, <1>12, <1>14 DEF TreeInv, Grown


=============================================================================
