----------------------------- MODULE Incidents -----------------------------
(***************************************************************************)
(* Event ingestion and incidents: the handlers of backend/internal/api/     *)
(* events.go, incidents/manager.go and the handlers of api/incidents.go.    *)
(*                                                                         *)
(* Two writers share the incidents table, the rule check of event ingestion *)
(* and the incident manager, and two readers list it; each names its own    *)
(* columns.  A row carries the columns that are not NULL: the table refuses *)
(* a row without its NOT NULL columns (migration 005), and a reader skips a *)
(* row with a NULL it scans into a plain string or integer.  An action is   *)
(* one SQL statement; any of them may fail.                                 *)
(***************************************************************************)
EXTENDS Integers, Sequences, FiniteSets

CONSTANTS
    Ids,       \* values of incidents.id
    Handlers,  \* requests the backend serves at the same time
    Batch,     \* the events of the batch an agent sends, and sends again
    Rules,     \* the enabled rows of dlp_rules
    GivenStatuses,  \* statuses callers give to new incidents
    None,      \* no row; an absent condition of a rule
    MaxRequests,  \* bound: deliveries of the batch and requests of analysts
    DbFails    \* whether statements may fail

VARIABLES
    incs,    \* the incidents table
    notes,   \* the incident_notes table
    logs,    \* how often each event of the batch is in event_logs
    work,    \* what each handler is doing
    sends,   \* deliveries of the batch so far
    edits,   \* operations of analysts so far
    acked,   \* whether a delivery was answered with success
    faulty   \* history: a statement failed

vars == <<incs, notes, logs, work, sends, edits, acked, faulty>>

----------------------------------------------------------------------------
Statuses == {"OPEN", "INVESTIGATING", "ESCALATED", "RESOLVED", "FALSE_POSITIVE",
             "ACKNOWLEDGED"}

\* The NOT NULL columns without a default, and what each writer supplies.
Required == {"username", "action_attempted", "decision"}
ManagerColumns == {"username", "action_attempted", "decision", "file_size"}
RuleColumns == {"device_id", "event_id", "incident_type", "description", "rule_name",
                "rule_triggered_reason", "file_involved", "user_involved", "action_taken"}

\* What each reader cannot scan as NULL.
ManagerReads == {"username", "action_attempted", "decision", "file_size"}
EventReads == RuleColumns
Readable(i, columns) == incs[i] # None /\ columns \subseteq incs[i].given

\* Manager.List goes on after a row it cannot scan, GetByID gives up.
List == {i \in Ids : Readable(i, ManagerReads)}
GetByID(i) == i \in List

Row(given, status) ==
    [given |-> given, status |-> status, first |-> status, assigned |-> FALSE, resolved |-> FALSE]

\* A row of the incidents table.
Incident == [given : SUBSET (ManagerColumns \cup RuleColumns), status : Statuses,
             first : Statuses, assigned : BOOLEAN, resolved : BOOLEAN]

Known == {i \in Ids : incs[i] # None}

\* INSERT INTO incidents: the table with the row, or as it was if refused.
Insert(i, row) == IF Required \subseteq row.given THEN [incs EXCEPT ![i] = row] ELSE incs

Idle == [pc |-> "idle"]
Goto(h, w) == work' = [work EXCEPT ![h] = w]
Fails(h, w) ==
    /\ DbFails
    /\ faulty' = TRUE
    /\ Goto(h, w)
    /\ UNCHANGED <<incs, notes, logs, sends, acked>>

Init ==
    /\ incs = [i \in Ids |-> None]
    /\ notes = {}
    /\ logs = [n \in DOMAIN Batch |-> 0]
    /\ work = [h \in Handlers |-> Idle]
    /\ sends = 0
    /\ edits = 0
    /\ acked = FALSE
    /\ faulty = FALSE

----------------------------------------------------------------------------
(* Event ingestion *)

\* A condition counts if it is a list (event_type also as a single string); one
\* of another form is ignored.
Meets(condition, value) == condition = None \/ value \in condition
doesRuleMatch(rule, ev) ==
    /\ Meets(rule.types, ev.type)
    /\ Meets(rule.classes, ev.class)
    /\ Meets(rule.risks, ev.risk)
    /\ rule.keywords # None => rule.keywords \cap ev.keywords # {}

\* An event without a path is INTERNAL and of low risk; any other is classified.
Classified(ev) == IF ev.path THEN ev ELSE [ev EXCEPT !.class = "INTERNAL", !.risk = "LOW"]

Triggered(n) == {rule \in Rules : doesRuleMatch(rule, Classified(Batch[n]))}

AtEvent(n) == [pc |-> "event", n |-> n]
AtRules(n, todo) == [pc |-> "rules", n |-> n, todo |-> todo]
NextEvent_SkipsOne(n) == IF n + 1 < Len(Batch) THEN AtEvent(n + 2) ELSE [pc |-> "reply"]
NextEvent(n) == IF n < Len(Batch) THEN AtEvent(n + 1) ELSE [pc |-> "reply"]

\* POST /api/v1/events/batch.  The agent sends a batch again when it has no
\* answer, or was told that its device is not known.
ReceiveEventBatch(h) ==
    /\ work[h] = Idle /\ sends + edits < MaxRequests
    /\ sends' = sends + 1
    /\ Goto(h, AtEvent(1)) \/ UNCHANGED work
    /\ UNCHANGED <<incs, notes, logs, edits, acked, faulty>>

\* An event that cannot be stored is skipped, and its rules are not checked.
StoreEvent(h) ==
    /\ work[h].pc = "event"
    /\ LET n == work[h].n
       IN  \/ /\ logs' = [logs EXCEPT ![n] = @ + 1]
              /\ Goto(h, AtRules(n, Triggered(n)))
              /\ UNCHANGED <<incs, notes, sends, edits, acked, faulty>>
           \/ Fails(h, NextEvent(n)) /\ UNCHANGED edits

\* createIncident for one of the triggered rules, or the end of checkDLPRules.
\* A refused or failed INSERT is logged and the next rule is tried; the table of
\* migration 005 refuses every row this statement makes.
createIncident(h, i) ==
    /\ work[h].pc = "rules" /\ work[h].todo # {} /\ incs[i] = None
    /\ \E rule \in work[h].todo :
           LET next == AtRules(work[h].n, work[h].todo \ {rule})
           IN  \/ /\ incs' = Insert(i, Row(RuleColumns, "OPEN"))
                  /\ Goto(h, next)
                  /\ UNCHANGED <<notes, logs, sends, edits, acked, faulty>>
               \/ Fails(h, next) /\ UNCHANGED edits

RulesChecked(h) ==
    /\ work[h].pc = "rules" /\ work[h].todo = {}
    /\ Goto(h, NextEvent(work[h].n))
    /\ UNCHANGED <<incs, notes, logs, sends, edits, acked, faulty>>

\* The answer is a success whatever was skipped, and may be lost on the way.
Reply(h) ==
    /\ work[h].pc = "reply"
    /\ Goto(h, Idle)
    /\ acked' \in {acked, TRUE}
    /\ UNCHANGED <<incs, notes, logs, sends, edits, faulty>>

----------------------------------------------------------------------------
(* The incident manager *)

\* The last id is left to the rules.
Create(i) ==
    /\ incs[i] = None /\ Cardinality(Ids \ Known) > 1
    /\ \E status \in {"OPEN"} \cup GivenStatuses : incs' = Insert(i, Row(ManagerColumns, status))
    /\ UNCHANGED <<notes, logs, work, sends, edits, acked, faulty>>

Assigned(row) ==
    [row EXCEPT !.assigned = TRUE, !.status = IF @ = "OPEN" THEN "INVESTIGATING" ELSE @]
WithStatus(row, status) == [row EXCEPT !.status = status]
Closed(row, status) == [row EXCEPT !.status = status, !.resolved = TRUE]

Noting(i, kind, prev, new) ==
    [pc |-> "note", note |-> [inc |-> i, kind |-> kind, prev |-> prev, new |-> new]]

\* UPDATE incidents ... WHERE id = i, then AddNote.
Write(h, i, row, next) ==
    \/ /\ incs' = [incs EXCEPT ![i] = row]
       /\ Goto(h, next)
       /\ UNCHANGED <<notes, logs, sends, acked, faulty>>
    \/ Fails(h, Idle)

\* An analyst's request for an incident.
Asks(h, i) == work[h] = Idle /\ i \in Known /\ sends + edits < MaxRequests /\ edits' = edits + 1

\* UpdateStatus reads the row for the status it will record as the previous one.
ReadStatus(h, i) ==
    /\ Asks(h, i) /\ GetByID(i)
    /\ \E status \in Statuses :
           Goto(h, [pc |-> "status", inc |-> i, prev |-> incs[i].status, new |-> status])
    /\ UNCHANGED <<incs, notes, logs, sends, acked, faulty>>

UpdateStatus(h) ==
    /\ work[h].pc = "status" /\ UNCHANGED edits
    /\ LET w == work[h]
       IN  Write(h, w.inc, WithStatus(incs[w.inc], w.new),
                 Noting(w.inc, "STATUS_CHANGE", w.prev, w.new))

Assign(h, i) ==
    /\ Asks(h, i)
    /\ Write(h, i, Assigned(incs[i]), Noting(i, "ASSIGNMENT", "", ""))

Escalate_NoNote(h, i) ==
    /\ Asks(h, i)
    /\ Write(h, i, WithStatus(incs[i], "ESCALATED"), Idle)
Escalate(h, i) ==
    /\ Asks(h, i)
    /\ Write(h, i, WithStatus(incs[i], "ESCALATED"), Noting(i, "ESCALATION", "", "ESCALATED"))

\* Resolve and MarkFalsePositive.
Resolve(h, i, status) ==
    /\ Asks(h, i)
    /\ Write(h, i, Closed(incs[i], status), Noting(i, "RESOLUTION", "", status))

\* PUT /api/v1/incidents/{id}/resolve writes no note.
ResolveIncident(h, i) ==
    /\ Asks(h, i)
    /\ Write(h, i, Closed(incs[i], "RESOLVED"), Idle)

\* POST /api/incidents/{id}/notes.
HandleAddNote(h, i) ==
    /\ Asks(h, i)
    /\ Goto(h, Noting(i, "COMMENT", "", ""))
    /\ UNCHANGED <<incs, notes, logs, sends, acked, faulty>>

\* An error of AddNote is ignored by the operations it records.
AddNote(h) ==
    /\ work[h].pc = "note"
    /\ \/ /\ notes' = notes \cup {work[h].note}
          /\ Goto(h, Idle)
          /\ UNCHANGED <<incs, logs, sends, edits, acked, faulty>>
       \/ Fails(h, Idle) /\ UNCHANGED edits

Next ==
    \/ \E h \in Handlers :
           \/ ReceiveEventBatch(h) \/ StoreEvent(h) \/ RulesChecked(h) \/ Reply(h)
           \/ UpdateStatus(h) \/ AddNote(h)
           \/ \E i \in Ids :
                  \/ createIncident(h, i) \/ ReadStatus(h, i) \/ Assign(h, i)
                  \/ Escalate(h, i) \/ ResolveIncident(h, i) \/ HandleAddNote(h, i)
                  \/ \E status \in {"RESOLVED", "FALSE_POSITIVE"} : Resolve(h, i, status)
    \/ \E i \in Ids : Create(i)

Spec == Init /\ [][Next]_vars

----------------------------------------------------------------------------
TypeOK ==
    /\ incs \in [Ids -> Incident \cup {None}]
    /\ notes \subseteq [inc : Known, kind : {"STATUS_CHANGE", "ASSIGNMENT", "ESCALATION",
                                             "RESOLUTION", "COMMENT"},
                        prev : Statuses \cup {""}, new : Statuses \cup {""}]
    /\ logs \in [DOMAIN Batch -> 0..MaxRequests]
    /\ \A h \in Handlers : work[h].pc \in {"idle", "event", "rules", "reply", "status", "note"}
    /\ {sends, edits} \subseteq 0..MaxRequests
    /\ {acked, faulty} \subseteq BOOLEAN

\* The trail explains the table: unless a statement failed, an incident has the
\* status it was created with, the one an assignment or the note-less resolution
\* gives, or one some note records or is about to (the manager changes the row
\* and adds the note in two statements, and changes of two analysts interleave).
StatusExplained ==
    ~faulty => \A i \in Known :
        \/ incs[i].status = incs[i].first
        \/ incs[i].status = "INVESTIGATING" /\ incs[i].assigned
        \/ incs[i].status = "RESOLVED" /\ incs[i].resolved
        \/ \E note \in notes : note.inc = i /\ note.new = incs[i].status
        \/ \E h \in Handlers : /\ work[h].pc = "note" /\ work[h].note.inc = i
                               /\ work[h].note.new = incs[i].status

\* Unless a statement failed, every event of a batch the agent was told is
\* logged is in event_logs, at most once for each delivery (ReceiveEventBatch
\* goes on after errors, and deliveries of one batch overlap).
AckedIsStored ==
    /\ acked /\ ~faulty => \A n \in DOMAIN Batch : logs[n] > 0
    /\ \A n \in DOMAIN Batch : logs[n] <= sends

=============================================================================
