---------------------------- MODULE MCPathGuard -----------------------------
(* A root with two entries that may be links in, out, to each other or to   *)
(* nothing, a directory outside, and every path of up to three components.  *)
EXTENDS PathGuard

File == [kind |-> "file"]
Dir  == [kind |-> "dir"]

\* <<"r">> is a root, <<"o">> a directory outside, <<"l">> a link to the root.
Nodes == {None, File, Dir} \cup {Link(t) : t \in {<<"r", "a">>, <<"r", "b">>, <<"o">>, <<"r">>, <<"o", "no">>}}
World(a, b, x) ==
    [p \in {<<"r">>, <<"l">>, <<"o">>, <<"o", "x">>, <<"r", "a">>, <<"r", "b">>, <<"r", "a", "x">>, <<"r", ".h">>} |->
       CASE p = <<"r", "a">> -> a
         [] p = <<"r", "b">> -> b
         [] p = <<"r", "a", "x">> -> x
         [] p = <<"l">> -> Link(<<"r">>)
         [] p = <<"o", "x">> -> File
         [] p = <<"r", ".h">> -> File
         [] OTHER -> Dir]

MCWorlds == {World(a, b, None) : a \in Nodes, b \in {None, File, Link(<<"r", "a">>), Link(<<"o", "x">>)}}
            \cup {World(Dir, b, x) : b \in {Dir, Link(<<"r", "a", "x">>)}, x \in {File, Link(<<"o">>), Link(<<"r", "b">>)}}

Parts == {"a", "b", "x", ".h", ".."}
Sequence(n) == [1..n -> Parts]
MCUserPaths == {[abs |-> FALSE, parts |-> s] : s \in UNION {Sequence(n) : n \in 0..3}}
               \cup {[abs |-> TRUE, parts |-> <<"r", "a">>], [abs |-> FALSE, parts |-> <<".", "a">>],
                     [abs |-> FALSE, parts |-> <<"unc", "a">>], [abs |-> FALSE, parts |-> <<"a", "..", "unc">>]}
\* Absolute, relative, empty, and with two backslashes or slashes in front.
MCRootPaths == {[abs |-> TRUE, parts |-> s] : s \in {<<"r">>, <<"o", "x">>, <<"no">>, <<"", "r">>}}
               \cup {[abs |-> FALSE, parts |-> s] : s \in {<<>>, <<".">>, <<"..", "l">>, <<"unc", "r">>}}
MCWorkingDirectory == <<"r">>
=============================================================================
