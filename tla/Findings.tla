------------------------------ MODULE Findings ------------------------------
(***************************************************************************)
(* Findings of the classification engine and how they are merged:           *)
(* backend/internal/classification/findings.go.                             *)
(*                                                                         *)
(* A finding is [key, hard, strength, confidence, category].  key is its    *)
(* identity (findingKey: type, detector and offsets), strength the rank of  *)
(* its evidence, 0 to 3, and confidence a number of tenths.                 *)
(***************************************************************************)
EXTENDS Integers, Sequences

Finding(key, hard, strength, confidence, category) ==
    [key |-> key, hard |-> hard, strength |-> strength, confidence |-> confidence,
     category |-> category]

\* Evidence that passed a validator, and a match of a pattern.
HardFinding(key) == Finding(key, TRUE, 3, 10, "")
SoftFinding(key, category) == Finding(key, FALSE, 1, 9, category)

AtLeast(a, b) == IF a >= b THEN a ELSE b

\* mergeInto raises dst to whatever b has more of.
mergeInto(dst, b) ==
    [dst EXCEPT !.hard = @ \/ b.hard,
                !.strength = AtLeast(@, b.strength),
                !.confidence = AtLeast(@, b.confidence)]

\* The merged findings with f as the one of its key.
With(merged, key, f) ==
    [k \in DOMAIN merged \cup {key} |-> IF k = key THEN f ELSE merged[k]]

Put(merged, f) ==
    With(merged, f.key, IF f.key \in DOMAIN merged THEN mergeInto(merged[f.key], f) ELSE f)

\* What is hard is left alone, whichever side it came from.
PutOptional_Overwrites(merged, f) == With(merged, f.key, f)
PutOptional(merged, f) ==
    IF f.key \in DOMAIN merged /\ merged[f.key].hard THEN merged ELSE Put(merged, f)

\* The merged findings by key: the list the code returns is sorted by key.
MergeFindings(deterministic, optional) ==
    LET first == Len(deterministic)
        merged[n \in 0..(first + Len(optional))] ==
            IF n = 0 THEN <<>>
            ELSE IF n <= first THEN Put(merged[n - 1], deterministic[n])
            ELSE PutOptional(merged[n - 1], optional[n - first])
    IN  merged[first + Len(optional)]

=============================================================================
