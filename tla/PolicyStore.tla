----------------------------- MODULE PolicyStore -----------------------------
(***************************************************************************)
(* The policies table and the handlers that change it: backend/internal/    *)
(* policy/service.go and createPolicy, updatePolicy, deletePolicy of        *)
(* api/rest.go.                                                             *)
(*                                                                         *)
(* A policy is the values of its fields.  An update reads the row, changes  *)
(* the fields the request names and writes the whole row back, with no      *)
(* transaction around the two statements.                                   *)
(***************************************************************************)
EXTENDS Integers

CONSTANTS
    Ids,       \* policy ids; an id is a fresh UUID and is never used twice
    Fields,    \* the fields an update can name
    Values,    \* values of a field
    Handlers,  \* requests the backend serves at the same time
    None,      \* no row, and a field the request does not name
    DbFails    \* whether statements may fail

VARIABLES
    table,     \* the policies table
    work,      \* what each handler is doing
    deleted,   \* history: the policies that were deleted
    serial,    \* history: the table, had every update been one statement
    overlapped \* history: policies written between an update's read and its write

vars == <<table, work, deleted, serial, overlapped>>

Policy == [Fields -> Values]
Idle == [pc |-> "idle"]
Goto(h, w) == work' = [work EXCEPT ![h] = w]

\* The row with the fields the request names; the others keep their values.
Merged(row, request) == [f \in Fields |-> IF request[f] = None THEN row[f] ELSE request[f]]

\* The updates of p that have read the row and not yet written it.
Updating(p) == {h \in Handlers : work[h].pc = "write" /\ work[h].id = p}

Init ==
    /\ table = [p \in Ids |-> None]
    /\ work = [h \in Handlers |-> Idle]
    /\ deleted = {}
    /\ serial = table
    /\ overlapped = {}

----------------------------------------------------------------------------
CreatePolicy(p) ==
    /\ table[p] = None /\ p \notin deleted
    /\ \E row \in Policy :
           /\ table' = [table EXCEPT ![p] = row]
           /\ serial' = [serial EXCEPT ![p] = row]
    /\ UNCHANGED <<work, deleted, overlapped>>

DeletePolicy(p) ==
    /\ table[p] # None
    /\ table' = [table EXCEPT ![p] = None]
    /\ serial' = [serial EXCEPT ![p] = None]
    /\ deleted' = deleted \cup {p}
    /\ UNCHANGED <<work, overlapped>>

\* updatePolicy up to the read; a policy that is not there is answered with 404.
GetPolicyByID_FillsBlank(h, p) ==
    /\ work[h] = Idle /\ table[p] # None
    /\ \E request \in [Fields -> Values \cup {None}], blank \in Values :
           Goto(h, [pc |-> "write", id |-> p, request |-> request,
                    row |-> Merged([f \in Fields |-> blank], request)])
    /\ UNCHANGED <<table, deleted, serial, overlapped>>
GetPolicyByID(h, p) ==
    /\ work[h] = Idle /\ table[p] # None
    /\ \E request \in [Fields -> Values \cup {None}] :
           Goto(h, [pc |-> "write", id |-> p, request |-> request,
                    row |-> Merged(table[p], request)])
    /\ UNCHANGED <<table, deleted, serial, overlapped>>

\* The row as it was read, changed, replaces whatever is there now.  Nothing
\* happens to a row that has been deleted meanwhile, and the answer is the same.
UpdatePolicy(h) ==
    /\ work[h].pc = "write"
    /\ LET p == work[h].id
       IN  \/ /\ table[p] # None
              /\ table' = [table EXCEPT ![p] = work[h].row]
              /\ serial' = [serial EXCEPT ![p] = Merged(@, work[h].request)]
              /\ overlapped' = IF Updating(p) = {h} THEN overlapped ELSE overlapped \cup {p}
           \/ table[p] = None /\ UNCHANGED <<table, serial, overlapped>>
           \/ DbFails /\ UNCHANGED <<table, serial, overlapped>>
    /\ Goto(h, Idle)
    /\ UNCHANGED deleted

Next ==
    \/ \E p \in Ids : CreatePolicy(p) \/ DeletePolicy(p)
    \/ \E h \in Handlers : UpdatePolicy(h) \/ \E p \in Ids : GetPolicyByID(h, p)

Spec == Init /\ [][Next]_vars

----------------------------------------------------------------------------
TypeOK ==
    /\ table \in [Ids -> Policy \cup {None}]
    /\ serial \in [Ids -> Policy \cup {None}]
    /\ \A h \in Handlers : work[h].pc \in {"idle", "write"}
    /\ deleted \subseteq Ids /\ overlapped \subseteq Ids

\* A deleted policy never comes back, whatever updates had read it before the
\* deletion (updatePolicy writes with UPDATE ... WHERE id).
DeletedStaysDeleted == \A p \in deleted : table[p] = None

\* Updates one after the other lose nothing: a policy that no two updates wrote
\* at overlapping times is what its updates, each applied to the row as it then
\* was, make of it (updatePolicy's read, merge and write).
SerialUnlessOverlapped == \A p \in Ids \ overlapped : table[p] = serial[p]

\* No change of a policy is undone by one that came before it: updates lose
\* nothing unless they overlap, and a deletion stands even then (updatePolicy,
\* deletePolicy).
ChangesLast == SerialUnlessOverlapped /\ DeletedStaysDeleted

=============================================================================
