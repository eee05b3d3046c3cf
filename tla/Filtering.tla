------------------------------ MODULE Filtering ------------------------------
(***************************************************************************)
(* What is left of a sequence, in its order, when some elements are taken   *)
(* out.  A recursive function and a set instead of SelectSeq and its        *)
(* operator, so that FilteringProofs can show what it computes.             *)
(***************************************************************************)
EXTENDS Integers, Sequences

\* The elements of s that are not in T.
Without(s, T) ==
    LET keep[i \in 0 .. Len(s)] ==
            IF i = 0 THEN <<>>
            ELSE IF s[i] \in T THEN keep[i - 1]
            ELSE Append(keep[i - 1], s[i])
    IN  keep[Len(s)]

=============================================================================
