---------------------------- MODULE PolicyEngine ----------------------------
(***************************************************************************)
(* What the policy engine decides from the data it has read:                *)
(* backend/internal/policy/engine.go.  The operators are pure; the reads    *)
(* they depend on are steps of the module Approvals.                        *)
(*                                                                         *)
(* A rule is [stock, enabled, action, dest, enforcement], stock marking the *)
(* rules that apply though they are not enabled (the built-in ones, whose   *)
(* ids begin with "default-", and stored ones without an id), and Blank is an *)
(* action or destination type left empty.  The conditions on file types,    *)
(* domains and sizes are left out: a rule that reaches them is returned     *)
(* whether they hold or not.                                                *)
(***************************************************************************)
EXTENDS Integers, Sequences

CONSTANTS Blank  \* an empty field of a rule

Classifications == {"PUBLIC", "PRIVATE", "CONFIDENTIAL", "RESTRICTED"}
Enforcements == {"ALLOW", "BLOCK", "REQUIRE_OWNER_APPROVAL", "REQUIRE_ADMIN_APPROVAL"}

Level == [PUBLIC |-> 0, PRIVATE |-> 1, CONFIDENTIAL |-> 2, RESTRICTED |-> 3]

\* The highest classification among the matched keywords.
getHighestClassification(matches) ==
    CHOOSE c \in {"PUBLIC"} \cup {m.classification : m \in matches} :
        \A m \in matches : Level[m.classification] <= Level[c]

\* A match with a hard block decides alone, before anything else is looked up.
checkHardBlockKeywords(matches) == \E m \in matches : m.hardBlock

\* A stored classification wins; then the keywords found in the content; a
\* file nobody knows is PRIVATE.
getFileClassification(stored, matches) ==
    CASE stored # Blank -> stored
      [] stored = Blank /\ matches # {} -> getHighestClassification(matches)
      [] OTHER -> "PRIVATE"

Stock(action, enforcement) ==
    [stock |-> TRUE, enabled |-> FALSE, action |-> action, dest |-> Blank,
     enforcement |-> enforcement]

getDefaultRulesForClassification(c) ==
    CASE c = "PUBLIC" -> <<Stock(Blank, "ALLOW")>>
      [] c = "PRIVATE" -> <<Stock("UPLOAD", "BLOCK"), Stock("USB_TRANSFER", "BLOCK"),
                            Stock("EMAIL_ATTACH", "ALLOW")>>
      [] c = "CONFIDENTIAL" ->
             [i \in 1..4 |-> Stock(<<"UPLOAD", "USB_TRANSFER", "EMAIL_ATTACH", "PRINT">>[i],
                                   "REQUIRE_OWNER_APPROVAL")]
      [] OTHER -> <<Stock(Blank, "BLOCK")>>

Matches(rule, action, dest) ==
    /\ rule.enabled \/ rule.stock
    /\ rule.action \in {Blank, action}
    /\ rule.dest \in {Blank, dest}

\* The rules are tried in the order they are stored in.
findMatchingRule(rules, action, dest) ==
    LET hits == {i \in DOMAIN rules : Matches(rules[i], action, dest)}
    IN  IF hits = {} THEN Blank
        ELSE rules[CHOOSE i \in hits : \A j \in hits : i <= j]

\* The enforcement of the rule or, if none matched, of the classification.
EnforcementOf(rule, c) ==
    CASE rule # Blank -> rule.enforcement
      [] rule = Blank /\ c = "PUBLIC" -> "ALLOW"
      [] rule = Blank /\ c = "CONFIDENTIAL" -> "REQUIRE_OWNER_APPROVAL"
      [] OTHER -> "BLOCK"

=============================================================================
