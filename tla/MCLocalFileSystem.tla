------------------------- MODULE MCLocalFileSystem --------------------------
(* Two servers on a root with two names, two levels deep, and every request *)
(* that tells the operations apart.                                         *)
EXTENDS LocalFileSystem

A == <<"a">>
B == <<"b">>
AX == <<"a", "x">>
BX == <<"b", "x">>
MCPaths == {<<>>, A, B, AX, BX}
MCBytes == {1, 2}

Tree(ia, ib, iax) == [q \in MCPaths |-> CASE q = <<>> -> 1 [] q = A -> ia [] q = B -> ib
                                           [] q = AX -> iax [] OTHER -> 0]
Start0(ia, ib, iax, nodes) == [tree |-> Tree(ia, ib, iax), inode |-> <<Dir>> \o nodes]

\* An empty root, one and two files, an empty and a filled directory.
MCInitialTrees ==
    { Start0(0, 0, 0, <<>>),
      Start0(2, 0, 0, <<File(<<1, 1>>)>>),
      Start0(2, 3, 0, <<File(<<1, 1>>), File(<<1>>)>>),
      Start0(2, 0, 0, <<Dir>>),
      Start0(2, 3, 4, <<Dir, File(<<1>>), File(<<1, 1>>)>>) }

Req(kind, path) == [NoOp EXCEPT !.kind = kind, !.path = path]
Twice(reqs) == reqs \cup {[r EXCEPT !.overwrite = TRUE] : r \in reqs}

Reads   == {[Req("read", q) EXCEPT !.max = 1] : q \in {A, B}} \cup {Req("list", A), Req("list", <<>>), Req("stat", AX)}
Writes  == Twice({[Req("write", q) EXCEPT !.content = <<2>>] : q \in {A, AX}})
             \cup {[Req("write", B) EXCEPT !.content = <<2, 2>>, !.overwrite = TRUE]}
Mkdirs  == {Req("mkdir", q) : q \in {<<>>, A, BX}}
Deletes == {Req("delete", q) : q \in {A, AX}}
             \cup {[Req("delete", q) EXCEPT !.recursive = TRUE] : q \in {<<>>, A}}
Copies  == Twice({[Req("copy", A) EXCEPT !.target = B], [Req("copy", B) EXCEPT !.target = AX]})
             \cup {[Req("copy", A) EXCEPT !.target = A, !.overwrite = TRUE]}
Moves   == Twice({[Req("move", A) EXCEPT !.target = B], [Req("move", B) EXCEPT !.target = A],
                  [Req("move", AX) EXCEPT !.target = B]})
             \cup {[Req("move", A) EXCEPT !.target = AX], [Req("move", A) EXCEPT !.target = A]}

AllRequests == Reads \cup Writes \cup Mkdirs \cup Deletes \cup Copies \cup Moves
=============================================================================
