------------------------------- MODULE MCWire -------------------------------
(* Small instances of Wire for TLC. *)
EXTENDS Wire, TLC

(* "", "1 2" and eleven letters. *)
MCText == {<<>>, <<49, 32, 50>>, [i \in 1 .. 11 |-> 96 + i]}

(* 0, 3, 11, and 17, which is 1 modulo 16. *)
MCNumeral == {<<48>>, <<51>>, <<49, 49>>, <<49, 55>>}
=============================================================================
