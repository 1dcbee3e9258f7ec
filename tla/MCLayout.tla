------------------------------ MODULE MCLayout ------------------------------
(* Lattices of up to three axes; machines with a prime factor above 53 too. *)
EXTENDS QMPLayout

Lengths == {1, 2, 3, 4, 6, 8, 12, 59}
MCLattices == {<<a>> : a \in Lengths} \cup {<<a, b, c>> : a, b, c \in Lengths}
MCMachines == (1 .. 24) \cup {36, 48, 59, 64, 118}
=============================================================================
