--------------------------- MODULE MCPolicyCache ---------------------------
(* Small instances of PolicyCache. *)
EXTENDS PolicyCache, TLC

CONSTANTS w1, w2, f, g

\* A file that is evicted like any other, and one that may be pinned.
MCPolicies ==
    {[file |-> f, pinned |-> FALSE, permanent |-> FALSE],
     [file |-> g, pinned |-> FALSE, permanent |-> TRUE],
     [file |-> g, pinned |-> TRUE, permanent |-> TRUE]}

MCBucket == (f :> 0) @@ (g :> 1)

MCWriters == {w1, w2}

Symmetry == Permutations(MCWriters)
=============================================================================
