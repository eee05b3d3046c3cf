----------------------------- MODULE Approvals -----------------------------
(***************************************************************************)
(* Owner approvals: backend/internal/approval/{workflow,notifier}.go, the   *)
(* handlers of api/approvals.go, the evaluation of a file event by          *)
(* policy/engine.go and the ownership records of ownership/tracker.go.      *)
(*                                                                         *)
(* An action is one SQL statement or what a handler does between two of     *)
(* them.  A statement may fail, and the backend may be restarted between    *)
(* any two.  A request is late once its timeout_at has passed.              *)
(***************************************************************************)
EXTENDS Integers, FiniteSets, Sequences, PolicyEngine

CONSTANTS
    Requests,     \* request ids: uuid.New(), or the id the caller brings
    Files,        \* file hashes
    Users,        \* SIDs, of requesters and of owners
    Actions,      \* UPLOAD, USB_TRANSFER, ...
    Dests,        \* destination details; Blank is the empty one
    Like,         \* <<d, p>>: what SQL makes of d LIKE p
    Handlers,     \* requests the backend serves at the same time
    Ask,          \* what each request is for, of which owner, and whether for good
    Events,       \* the file operations the engine evaluates
    MatchSets,    \* what keyword matching may find in the content of a file
    StoredClass,  \* the classification recorded for each file, or Blank
    StoredRules,  \* the rules of the policy for each classification, or Blank
    None,         \* an absent row
    DbFails       \* whether statements may fail

VARIABLES
    reqs,       \* the approval_requests table
    cached,     \* the cached_approvals table: who approved each subject
    owner,      \* the file_ownership table
    work,       \* what each handler is doing
    notices,    \* the notifications handed to the handlers
    faulty      \* history: a statement failed or the backend was restarted

vars == <<reqs, cached, owner, work, notices, faulty>>

----------------------------------------------------------------------------
Destinations == Dests \cup {Blank}
Subjects == [file : Files, user : Users, action : Actions, dest : Destinations]
Statuses == {"PENDING", "APPROVED", "DENIED", "CANCELLED", "TIMEOUT"}
Request == [subject : Subjects, owner : Users, status : Statuses, permanent : BOOLEAN,
            late : BOOLEAN]
Verdicts == {"ALLOW", "BLOCK", "PENDING_APPROVAL"}
Reasons == {"policy", "keyword", "owner", "approved", "asked"}

ASSUME ApprovalAssumption ==
    /\ Ask \in [Requests -> [subject : Subjects, owner : Users, permanent : BOOLEAN]]
    /\ Events \subseteq Subjects
    /\ None \notin Request /\ None \notin Users /\ None \notin Subjects
    /\ None \notin Statuses
    /\ DbFails \in BOOLEAN

Idle == [pc |-> "idle"]
Deciding(pc, r) == [pc |-> pc, req |-> r]
Evaluating(pc, s) == [pc |-> pc, subject |-> s]
\* A decision, with what it was about if it rests on an approval.
Decided(s, action, why) == [pc |-> "done", subject |-> IF why = "approved" THEN s ELSE Blank,
                            action |-> action, why |-> why]

Known == {r \in Requests : reqs[r] # None}

\* A row as List and GetRequest filter it; the pending lists leave out what is
\* past its timeout, though its status is still PENDING.
List(u, pendingOnly) ==
    {r \in Known : /\ reqs[r].owner = u
                   /\ pendingOnly => reqs[r].status = "PENDING" /\ ~reqs[r].late}

\* A statement that fails leaves the table alone and the handler gives up.
Goto(h, w) == work' = [work EXCEPT ![h] = w]
Fails(h, next) ==
    /\ DbFails
    /\ faulty' = TRUE
    /\ Goto(h, next)
    /\ UNCHANGED <<reqs, cached, owner, notices>>

\* send starts every registered handler with the notification and waits for
\* none; a handler is taken to be registered (the server registers none yet).
send(msg) == notices' = notices \cup {msg}

Notice(r, to, status) == [req |-> r, to |-> to, status |-> status]

Init ==
    /\ reqs = [r \in Requests |-> None]
    /\ cached = [s \in Subjects |-> None]
    /\ owner = [f \in Files |-> None]
    /\ work = [h \in Handlers |-> Idle]
    /\ notices = {}
    /\ faulty = FALSE

----------------------------------------------------------------------------
\* POST /api/approvals.  An id that is taken makes the INSERT fail.
CreateRequest(r) ==
    /\ reqs[r] = None
    /\ LET ask == Ask[r]
       IN  /\ reqs' = [reqs EXCEPT ![r] =
                          [subject |-> ask.subject, owner |-> ask.owner, status |-> "PENDING",
                           permanent |-> ask.permanent, late |-> FALSE]]
           /\ send(Notice(r, ask.owner, "PENDING"))
    /\ UNCHANGED <<cached, owner, work, faulty>>

\* timeout_at passes.
TimeoutPasses(r) ==
    /\ r \in Known /\ reqs[r].status = "PENDING" /\ ~reqs[r].late
    /\ reqs' = [reqs EXCEPT ![r].late = TRUE]
    /\ UNCHANGED <<cached, owner, work, notices, faulty>>

\* GET /api/approvals, /pending or /history: an owner is shown a request, and
\* by the time something is done about it the answer may be out of date.
ShowList(h) ==
    /\ work[h] = Idle
    /\ \E u \in Users, pendingOnly \in BOOLEAN :
           \E r \in List(u, pendingOnly) : Goto(h, Deciding("shown", r))
    /\ UNCHANGED <<reqs, cached, owner, notices, faulty>>

\* Mutants of what follows.
Decide_NotPending(h, r, status, permanent, next) ==
    \/ /\ reqs' = [reqs EXCEPT ![r] = [@ EXCEPT !.status = status, !.permanent = permanent]]
       /\ Goto(h, next)
       /\ UNCHANGED <<cached, owner, notices, faulty>>
    \/ Fails(h, Idle)
Approve_NeverCached(h) ==
    /\ work[h].pc = "shown"
    /\ \E permanent \in BOOLEAN :
           /\ reqs[work[h].req].status = "PENDING"
           /\ reqs' = [reqs EXCEPT ![work[h].req].status = "APPROVED",
                                  ![work[h].req].permanent = permanent]
           /\ Goto(h, Deciding("notify", work[h].req))
    /\ UNCHANGED <<cached, owner, notices, faulty>>

\* UPDATE approval_requests SET status ... WHERE request_id = r AND status =
\* 'PENDING': the handler goes on to next if a row changed, else it gives up.
Decision(row, status, permanent) == [row EXCEPT !.status = status, !.permanent = permanent]
Decide(h, r, status, permanent, next) ==
    \/ /\ IF reqs[r].status = "PENDING"
          THEN /\ reqs' = [reqs EXCEPT ![r] = Decision(@, status, permanent)]
               /\ Goto(h, next)
          ELSE UNCHANGED reqs /\ Goto(h, Idle)
       /\ UNCHANGED <<cached, owner, notices, faulty>>
    \/ Fails(h, Idle)

\* The timeout is not looked at: a late request can still be approved.
Approve(h) ==
    /\ work[h].pc = "shown"
    /\ \E permanent \in BOOLEAN :
           Decide(h, work[h].req, "APPROVED", permanent,
                  Deciding(IF permanent THEN "cache" ELSE "notify", work[h].req))

Deny(h) ==
    /\ work[h].pc = "shown"
    /\ Decide(h, work[h].req, "DENIED", reqs[work[h].req].permanent,
              Deciding("notify", work[h].req))

\* A cancellation notifies nobody.
Cancel(h) ==
    /\ work[h].pc = "shown"
    /\ Decide(h, work[h].req, "CANCELLED", reqs[work[h].req].permanent, Idle)

\* cacheApproval reads the request again and upserts what it covers.  A failure
\* is logged and Approve goes on.
cacheApproval(h) ==
    /\ work[h].pc = "cache"
    /\ LET r == work[h].req
           next == Deciding("notify", r)
       IN  \/ /\ cached' = [cached EXCEPT ![reqs[r].subject] = reqs[r].owner]
              /\ Goto(h, next)
              /\ UNCHANGED <<reqs, owner, notices, faulty>>
           \/ Fails(h, next)

\* GetRequest and NotifyApprovalDecision, which is silent about cancellations.
NotifyApprovalDecision(h) ==
    /\ work[h].pc = "notify"
    /\ LET r == work[h].req
       IN  \/ /\ notices' = notices \cup
                      {Notice(r, reqs[r].subject.user, status) :
                          status \in {reqs[r].status} \cap {"APPROVED", "DENIED", "TIMEOUT"}}
              /\ Goto(h, Idle)
              /\ UNCHANGED <<reqs, cached, owner, faulty>>
           \/ Fails(h, Idle)

\* One statement for all requests that are late; nobody is notified.
Expired(row) == [row EXCEPT !.status = "TIMEOUT"]
Overdue == {r \in Known : reqs[r].status = "PENDING" /\ reqs[r].late}
ProcessTimeouts ==
    /\ Overdue # {}
    /\ reqs' = [r \in Requests |-> IF r \in Overdue THEN Expired(reqs[r]) ELSE reqs[r]]
    /\ UNCHANGED <<cached, owner, work, notices, faulty>>

----------------------------------------------------------------------------
\* RegisterOwnership keeps the first owner of a file, UpdateOwnership replaces
\* the one there is, DeleteOwnership forgets it.
RegisterOwnership(f, u) ==
    /\ owner[f] = None
    /\ owner' = [owner EXCEPT ![f] = u]
    /\ UNCHANGED <<reqs, cached, work, notices, faulty>>

UpdateOwnership(f, u) ==
    /\ owner[f] \notin {None, u}
    /\ owner' = [owner EXCEPT ![f] = u]
    /\ UNCHANGED <<reqs, cached, work, notices, faulty>>

DeleteOwnership(f) ==
    /\ owner[f] # None
    /\ owner' = [owner EXCEPT ![f] = None]
    /\ UNCHANGED <<reqs, cached, work, notices, faulty>>

\* A file without a record counts as owned by whoever asks.
IsOwner(f, u) == owner[f] \in {None, u}

\* The destination a cached approval was given for is stored as it is and read as
\* a pattern: one with % or _ covers others as well, one with a backslash may not
\* even cover itself.  The empty one covers every destination.
Reaches(p, d) == p = Blank \/ <<d, p>> \in Like
CheckCachedApproval_AnyDest(s) ==
    \E p \in Destinations : cached[[s EXCEPT !.dest = p]] # None
CheckCachedApproval(s) ==
    \E p \in Destinations : Reaches(p, s.dest) /\ cached[[s EXCEPT !.dest = p]] # None

\* Keywords, classification, policy and rule.  A lookup that is lost to an error
\* finds nothing, and the evaluation goes on without it.  Only an enforcement that
\* requires the owner's approval needs the tables that change meanwhile.
Lookups == {"keywords", "matches", "class", "rules"}
Evaluation(s, found, lost) ==
    LET got(lookup, value, nothing) == IF lookup \in lost THEN nothing ELSE value
        class == getFileClassification(got("class", StoredClass[s.file], Blank),
                                       got("matches", found, {}))
        rules == got("rules", StoredRules[class], Blank)
        rule == findMatchingRule(IF rules = Blank THEN getDefaultRulesForClassification(class)
                                 ELSE rules, s.action, s.dest)
        enforcement == EnforcementOf(rule, class)
        done(action) == Decided(s, action, "policy")
    IN  CASE checkHardBlockKeywords(got("keywords", found, {})) -> Decided(s, "BLOCK", "keyword")
          [] enforcement = "REQUIRE_OWNER_APPROVAL" -> Evaluating("owner", s)
          [] enforcement = "REQUIRE_ADMIN_APPROVAL" -> done("PENDING_APPROVAL")
          [] enforcement = "ALLOW" -> done("ALLOW")
          [] OTHER -> done("BLOCK")

Evaluate(h) ==
    /\ work[h] = Idle
    /\ \E next \in {Evaluation(s, found, lost) :
                       s \in Events, found \in MatchSets,
                       lost \in IF DbFails THEN SUBSET Lookups ELSE {{}}} : Goto(h, next)
    /\ UNCHANGED <<reqs, cached, owner, notices, faulty>>

\* checkOwnership; an error counts as not being the owner.
CheckOwnership(h) ==
    /\ work[h].pc = "owner"
    /\ LET s == work[h].subject
           ask == Evaluating("cached", s)
       IN  \/ Goto(h, IF IsOwner(s.file, s.user) THEN Decided(s, "ALLOW", "owner") ELSE ask)
           \/ DbFails /\ Goto(h, ask)
    /\ UNCHANGED <<reqs, cached, owner, notices, faulty>>

CheckCache(h) ==
    /\ work[h].pc = "cached"
    /\ LET s == work[h].subject
           ask == Decided(s, "PENDING_APPROVAL", "asked")
       IN  \/ Goto(h, IF CheckCachedApproval(s) THEN Decided(s, "ALLOW", "approved") ELSE ask)
           \/ DbFails /\ Goto(h, ask)
    /\ UNCHANGED <<reqs, cached, owner, notices, faulty>>

Answer(h) ==
    /\ work[h].pc = "done"
    /\ Goto(h, Idle)
    /\ UNCHANGED <<reqs, cached, owner, notices, faulty>>

----------------------------------------------------------------------------
\* The backend stops and starts again: only the tables survive.
Restart ==
    /\ DbFails
    /\ work' = [h \in Handlers |-> Idle]
    /\ faulty' = TRUE
    /\ UNCHANGED <<reqs, cached, owner, notices>>

Next ==
    \/ \E r \in Requests : CreateRequest(r) \/ TimeoutPasses(r)
    \/ \E h \in Handlers :
           \/ ShowList(h) \/ Approve(h) \/ Deny(h) \/ Cancel(h)
           \/ cacheApproval(h) \/ NotifyApprovalDecision(h)
           \/ Evaluate(h) \/ CheckOwnership(h) \/ CheckCache(h) \/ Answer(h)
    \/ ProcessTimeouts
    \/ \E f \in Files, u \in Users : RegisterOwnership(f, u) \/ UpdateOwnership(f, u)
    \/ \E f \in Files : DeleteOwnership(f)
    \/ Restart

Spec == Init /\ [][Next]_vars

----------------------------------------------------------------------------
Work == {Idle} \cup [pc : {"shown", "cache", "notify"}, req : Known]
               \cup [pc : {"owner", "cached"}, subject : Subjects]
               \cup [pc : {"done"}, subject : Subjects \cup {Blank}, action : Verdicts,
                     why : Reasons]

TypeOK ==
    /\ reqs \in [Requests -> Request \cup {None}]
    /\ cached \in [Subjects -> Users \cup {None}]
    /\ owner \in [Files -> Users \cup {None}]
    /\ work \in [Handlers -> Work]
    /\ notices \subseteq [req : Known, to : Users, status : Statuses]
    /\ faulty \in BOOLEAN

Permanent(r) == r \in Known /\ reqs[r].status = "APPROVED" /\ reqs[r].permanent

\* The workflow keeps the promises of ApprovalLifecycle: whatever two owners, a
\* cancellation, a sweep of timeouts, failing statements and restarts do to a
\* request, it is decided once (the WHERE status = 'PENDING' of every UPDATE),
\* a cached approval comes from a permanent approval of the same subject, and a
\* notification states the decision that stands though it is read again later.
Lifecycle == INSTANCE ApprovalLifecycle WITH
    subject <- [r \in Requests |-> IF r \in Known THEN reqs[r].subject ELSE None],
    decision <- [r \in Requests |-> IF r \in Known THEN reqs[r].status ELSE None],
    lasting <- {r \in Requests : Permanent(r)},
    grants <- {s \in DOMAIN cached : cached[s] # None},
    told <- {<<n.req, n.status>> : n \in {m \in notices : m.status # "PENDING"}}

ImplementsLifecycle == Lifecycle!Spec

\* An evaluation that answers ALLOW because of an earlier approval does so for a
\* user, file and action some request was permanently approved for, by the owner
\* the table names, and for all destinations or for one that matches this one when
\* read as a LIKE pattern, which is less than being the same (Evaluate,
\* CheckCachedApproval and cacheApproval in three handlers).
AllowJustified ==
    \A h \in Handlers :
        work[h].pc = "done" /\ work[h].why = "approved" =>
            LET s == work[h].subject
            IN  \E r \in Requests :
                    /\ Permanent(r)
                    /\ reqs[r].subject = [s EXCEPT !.dest = reqs[r].subject.dest]
                    /\ Reaches(reqs[r].subject.dest, s.dest)
                    /\ \E q \in Requests : /\ Permanent(q)
                                           /\ reqs[q].subject = reqs[r].subject
                                           /\ reqs[q].owner = cached[reqs[r].subject]

\* Unless a statement failed or the backend was restarted, a permanent approval
\* is in the cache, or the handler that approved it is about to put it there
\* (Approve writes the two tables in two statements).
LastingIsCached ==
    ~faulty => \A r \in Requests :
        Permanent(r) => \/ cached[reqs[r].subject] # None
                        \/ \E h \in Handlers : work[h] = Deciding("cache", r)

=============================================================================
