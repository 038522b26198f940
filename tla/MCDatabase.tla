----------------------------- MODULE MCDatabase -----------------------------
(* A small instance of Database for TLC. *)
EXTENDS Database, TLC

Symmetry == Permutations(User) \cup Permutations(Name)
=============================================================================
