----------------------------- MODULE MCWorkers -----------------------------
(* Small instances of Workers for TLC. *)
EXTENDS Workers, TLC

Symmetry == Permutations(Conn)
=============================================================================
