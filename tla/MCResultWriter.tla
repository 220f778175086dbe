--------------------------- MODULE MCResultWriter ---------------------------
(* Two writers that differ in name only, and interchangeable directories.  *)
EXTENDS ResultWriter, TLC

Symmetry == Permutations(Writers) \cup Permutations(Dirs)
=============================================================================
