---------------------------- MODULE MCTransport -----------------------------
(* Lines around the limit: empty, short, one below, exactly, above it. *)
EXTENDS Transport

MCMessages == [bytes : 0..4]
MCTailBytes == {0, 1, 4}
=============================================================================
