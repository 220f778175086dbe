------------------------ MODULE MCGuardedOperations -------------------------
(* A root with two entries, the first of which may be a link in, out, to    *)
(* the root or to nothing; every operation on every path to them, while up  *)
(* to two entries are exchanged.  Hidden and UNC names do not occur.        *)
EXTENDS GuardedOperations

File == [kind |-> "file"]
Dir  == [kind |-> "dir"]

World(a, b, x) ==
    [p \in {<<"r">>, <<"l">>, <<"o">>, <<"o", "x">>, <<"r", "a">>, <<"r", "b">>, <<"r", "b", "x">>} |->
       CASE p = <<"r", "a">> -> a
         [] p = <<"r", "b">> -> b
         [] p = <<"r", "b", "x">> -> x
         [] p = <<"l">> -> Link(<<"r">>)
         [] p = <<"o", "x">> -> File
         [] OTHER -> Dir]

Leaves == {None, File, Dir, Link(<<"r", "b">>), Link(<<"o">>), Link(<<"o", "no">>)}
MCWorlds == {World(a, b, None) : a \in Leaves, b \in {None, File}}
            \cup {World(a, Dir, x) : a \in Leaves \cup {Link(<<"r", "b", "x">>)}, x \in {None, File}}
MCRootPaths == {[abs |-> TRUE, parts |-> <<"r">>], [abs |-> FALSE, parts |-> <<"..", "l">>]}
MCWorkingDirectory == <<"r">>

Path(s) == [abs |-> FALSE, parts |-> s]
Targets == {Path(<<"a">>), Path(<<"b">>), Path(<<"a", "x">>)}
Sources == Targets \cup {Path(<<>>)}
MCCalls == [op : {"read", "info", "list", "mkdir"}, source : Sources, target : {Path(<<>>)}, force : {FALSE}]
           \cup [op : {"write", "delete"}, source : Sources, target : {Path(<<>>)}, force : BOOLEAN]
           \cup [op : {"copy", "move"}, source : Targets, target : Targets, force : BOOLEAN]

MCEntries == {<<"r", "a">>, <<"r", "b">>, <<"r", "b", "x">>}
MCNodes == {None, File, Dir, Link(<<"o">>), Link(<<"r", "b">>)}

MCInit == OpInit /\ policy.hidden /\ policy.unc /\ guard.err = "ok"
MCSpec == MCInit /\ [][OpNext]_allVars
=============================================================================
