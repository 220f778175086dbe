------------------------------- MODULE MCBoot -------------------------------
(* Every command line, environment and root the start-up tells apart.      *)
EXTENDS Boot, FiniteSets

MCArguments == {"none", "--version", "--version_--verbose", "--help", "-h", "--unknown", "-h_-h", "a_b_c"}
Switches == {"unset", "empty", "bad", "true", "1", "false"}
AllEnvironments ==
    [root : {"unset", "empty", "blank", "relative", "dot", "absolute"},
     readOnly : Switches, allowCWD : Switches,
     limit : {"unset", "empty", "bad", "ok"}, switch : {"unset", "empty", "bad", "true"},
     debug : {"unset", "empty", "bad", "true", "false"}]
\* The limits and the switches are parsed independently of each other: two of
\* the three values are left out at a time.
MCEnvironments == {e \in AllEnvironments :
    Cardinality({v \in {"limit", "switch", "debug"} : e[v] # "unset"}) <= 1}
MCRootErrors == {"ok", "ErrNotExist", "ErrRootNotDirectory", "ErrSymlinkDenied", "EIO"}
=============================================================================
