----------------------------- MODULE MCSessions -----------------------------
(* Small instances of Sessions for TLC. *)
EXTENDS SessionsProperties, TLC

(* The songs a get may name: one's own without a slash, anybody's with one. *)
MCGetLists == {<<>>} \cup {<<t>> : t \in Target} \cup {<<t, u>> : t, u \in Target}
MCSingleGets == {<<t>> : t \in Target}
MCOwnGets == {<<[user |-> None, name |-> n], [user |-> None, name |-> m]>> : n, m \in Name}

MCSafeFaults == SafeFaults
MCFaultKinds == FaultKinds

Symmetry == Permutations(Conn) \cup Permutations(User) \cup Permutations(Name)
=============================================================================
