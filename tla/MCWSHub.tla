------------------------------ MODULE MCWSHub ------------------------------
(* Model-checking instance of WSHub: one console that identified its user and, *)
(* when there are two, one that did not.                                       *)
EXTENDS WSHub, TLC

CONSTANTS c1, u1

OneIdentified == [c \in Clients |-> IF c = c1 THEN u1 ELSE None]

Symmetry == Permutations(Publishers)

=============================================================================
