-------------------------- MODULE MCDiscoveryScan --------------------------
(* Model-checking instance of DiscoveryScan. *)
EXTENDS DiscoveryScan, TLC

\* Requests are interchangeable: sound for the safety runs.
Symmetry == Permutations(Requests)

=============================================================================
