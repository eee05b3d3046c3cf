------------------------- MODULE ApprovalLifecycle -------------------------
(***************************************************************************)
(* What the approval workflow promises, whatever its handlers interleave,   *)
(* repeat or lose: a request is opened once and decided at most once, a     *)
(* lasting grant exists only for what some permanent approval covered, and  *)
(* whoever is told of a decision is told the one that stands.               *)
(***************************************************************************)
EXTENDS FiniteSets

CONSTANTS
    Requests,  \* request ids
    Subjects,  \* what a request asks for: file, user, action and destination
    None       \* no request opened under an id

VARIABLES
    subject,   \* what each request asks for
    decision,  \* the state of each request
    lasting,   \* the requests approved permanently
    grants,    \* the subjects that need no further approval
    told       \* the decisions that were announced

vars == <<subject, decision, lasting, grants, told>>

Final == {"APPROVED", "DENIED", "CANCELLED", "TIMEOUT"}
Announced == {"APPROVED", "DENIED", "TIMEOUT"}

Init ==
    /\ subject = [r \in Requests |-> None]
    /\ decision = [r \in Requests |-> None]
    /\ lasting = {}
    /\ grants = {}
    /\ told = {}

Open(r) ==
    /\ decision[r] = None
    /\ decision' = [decision EXCEPT ![r] = "PENDING"]
    /\ \E s \in Subjects : subject' = [subject EXCEPT ![r] = s]
    /\ UNCHANGED <<lasting, grants, told>>

Decide(r, d) ==
    /\ decision[r] = "PENDING"
    /\ decision' = [decision EXCEPT ![r] = d]
    /\ lasting' \in IF d = "APPROVED" THEN {lasting, lasting \cup {r}} ELSE {lasting}
    /\ UNCHANGED <<subject, grants, told>>

\* Every request in late expires in one step.
Expire(late) ==
    /\ \A r \in late : decision[r] = "PENDING"
    /\ decision' = [r \in Requests |-> IF r \in late THEN "TIMEOUT" ELSE decision[r]]
    /\ UNCHANGED <<subject, lasting, grants, told>>

Grant(r) ==
    /\ r \in lasting
    /\ grants' = grants \cup {subject[r]}
    /\ UNCHANGED <<subject, decision, lasting, told>>

Tell(r) ==
    /\ decision[r] \in Announced
    /\ told' = told \cup {<<r, decision[r]>>}
    /\ UNCHANGED <<subject, decision, lasting, grants>>

Next ==
    \/ \E late \in SUBSET Requests : Expire(late)
    \/ \E r \in Requests :
           \/ Open(r) \/ Grant(r) \/ Tell(r)
           \/ \E d \in Final \ {"TIMEOUT"} : Decide(r, d)

Spec == Init /\ [][Next]_vars

=============================================================================
