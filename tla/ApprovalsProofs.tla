--------------------------- MODULE ApprovalsProofs ---------------------------
(***************************************************************************)
(* Proofs about the approval workflow, for any requests, files, users,      *)
(* destinations and handlers and any stored policies:                       *)
(*                                                                         *)
(*   - its types;                                                           *)
(*   - a cached approval is that of a permanently approved request, and an   *)
(*     evaluation that answers ALLOW rests on one;                          *)
(*   - without faults a permanent approval is cached or about to be;        *)
(*   - the workflow implements ApprovalLifecycle.                           *)
(***************************************************************************)
EXTENDS Approvals, TLAPS

----------------------------------------------------------------------------
(* What the proofs need beside the types. *)

\* A handler that is about to write the cache does so for a permanent approval.
CachingIsPermanent ==
    \A h \in Handlers : work[h].pc = "cache" => Permanent(work[h].req)

\* A cached approval was given for its subject, by the owner it names.
CachedIsPermanent ==
    \A s \in Subjects : cached[s] # None =>
        \E r \in Requests : Permanent(r) /\ reqs[r].subject = s /\ reqs[r].owner = cached[s]

\* An answer that rests on the cache still does when it is given.
ApprovedIsCached ==
    \A h \in Handlers : work[h].pc = "done" /\ work[h].why = "approved" =>
        work[h].subject \in Subjects /\ CheckCachedApproval(work[h].subject)

ApprovalInv ==
    TypeOK /\ CachingIsPermanent /\ CachedIsPermanent /\ ApprovedIsCached

----------------------------------------------------------------------------
(* Rows of the request table. *)

\* An UPDATE leaves what a request is about, and a row is a row.
LEMMA DecisionRow ==
    ASSUME NEW row \in Request, NEW status \in Statuses, NEW permanent \in BOOLEAN
    PROVE  /\ Decision(row, status, permanent) \in Request
           /\ Decision(row, status, permanent).subject = row.subject
           /\ Decision(row, status, permanent).owner = row.owner
           /\ Decision(row, status, permanent).status = status
           /\ Decision(row, status, permanent).permanent = permanent
BY DEF Decision, Request

LEMMA ExpiredRow ==
    ASSUME NEW row \in Request
    PROVE  /\ Expired(row) \in Request
           /\ Expired(row).subject = row.subject
           /\ Expired(row).owner = row.owner
           /\ Expired(row).status = "TIMEOUT"
           /\ Expired(row).permanent = row.permanent
BY DEF Expired, Request, Statuses

\* An evaluation either answers, never because of an approval, or goes on to
\* look for the owner.
LEMMA EvaluationResult ==
    ASSUME NEW s \in Subjects, NEW found, NEW lost
    PROVE  \/ Evaluation(s, found, lost) = Evaluating("owner", s)
           \/ \E action \in Verdicts, why \in {"policy", "keyword"} :
                  Evaluation(s, found, lost) = Decided(s, action, why)
BY DEF Evaluation, Verdicts

----------------------------------------------------------------------------
(* What no step does to the table. *)

\* A row stays, is about the same and, once permanently approved, remains so.
RowsKept ==
    \A r \in Known :
        /\ r \in Known'
        /\ reqs'[r].subject = reqs[r].subject
        /\ reqs'[r].owner = reqs[r].owner
        /\ Permanent(r) => Permanent(r)'

LEMMA RowOfKnown ==
    ASSUME TypeOK, NEW r \in Known
    PROVE  r \in Requests /\ reqs[r] \in Request
BY DEF TypeOK, Known

\* A handler that has a request has one that is in the table.
LEMMA RequestOfWork ==
    ASSUME TypeOK, NEW h \in Handlers, work[h].pc \in {"shown", "cache", "notify"}
    PROVE  work[h].req \in Known
BY DEF TypeOK, Work, Idle

LEMMA DecideRows ==
    ASSUME TypeOK, NEW h \in Handlers, NEW r \in Known,
           NEW status \in Statuses, NEW permanent \in BOOLEAN, NEW next,
           Decide(h, r, status, permanent, next)
    PROVE  reqs' \in [Requests -> Request \cup {None}] /\ RowsKept
<1>1. CASE UNCHANGED reqs
  BY <1>1, RowOfKnown DEF RowsKept, TypeOK, Permanent, Known
<1>2. CASE /\ reqs[r].status = "PENDING"
           /\ reqs' = [reqs EXCEPT ![r] = Decision(@, status, permanent)]
  <2> DEFINE row == Decision(reqs[r], status, permanent)
  <2>1. /\ row \in Request
        /\ row.subject = reqs[r].subject /\ row.owner = reqs[r].owner
    BY RowOfKnown, DecisionRow
  <2>2. reqs' = [reqs EXCEPT ![r] = row]
    BY <1>2
  <2> HIDE DEF row
  <2>3. reqs' \in [Requests -> Request \cup {None}]
    BY <2>1, <2>2 DEF TypeOK
  <2>4. \A q \in Known : reqs'[q] = IF q = r THEN row ELSE reqs[q]
    BY <2>2, RowOfKnown DEF TypeOK
  <2>5. row # None
    BY <2>1, ApprovalAssumption
  <2>6. \A q \in Known : q \in Known'
    BY <2>4, <2>5 DEF Known
  <2>7. ~Permanent(r)
    BY <1>2 DEF Permanent
  <2>8. \A q \in Known : q # r /\ Permanent(q) => Permanent(q)'
    BY <2>4, <2>6 DEF Permanent
  <2> QED
    BY <2>1, <2>3, <2>4, <2>6, <2>7, <2>8 DEF RowsKept
<1> QED
  BY <1>1, <1>2 DEF Decide, Fails

LEMMA TimeoutRows ==
    ASSUME TypeOK, ProcessTimeouts
    PROVE  reqs' \in [Requests -> Request \cup {None}] /\ RowsKept
<1>1. \A r \in Overdue : r \in Known /\ Expired(reqs[r]) \in Request
  BY RowOfKnown, ExpiredRow DEF Overdue
<1>2. reqs' \in [Requests -> Request \cup {None}]
  BY <1>1 DEF ProcessTimeouts, TypeOK
<1>3. ASSUME NEW r \in Known
      PROVE  /\ r \in Known'
             /\ reqs'[r].subject = reqs[r].subject
             /\ reqs'[r].owner = reqs[r].owner
             /\ Permanent(r) => Permanent(r)'
  <2>1. CASE r \in Overdue
    <3>1. reqs'[r] = Expired(reqs[r])
      BY <2>1, RowOfKnown DEF ProcessTimeouts
    <3>2. reqs'[r] # None
      BY <3>1, <2>1, <1>1, ApprovalAssumption
    <3>3. ~Permanent(r)
      BY <2>1 DEF Permanent, Overdue
    <3> QED
      BY <3>1, <3>2, <3>3, RowOfKnown, ExpiredRow DEF Known
  <2>2. CASE r \notin Overdue
    <3>1. reqs'[r] = reqs[r]
      BY <2>2, RowOfKnown DEF ProcessTimeouts
    <3> QED
      BY <3>1, RowOfKnown DEF Known, Permanent
  <2> QED
    BY <2>1, <2>2
<1> QED
  BY <1>2, <1>3 DEF RowsKept

LEMMA Rows ==
    ASSUME TypeOK, [Next]_vars
    PROVE  reqs' \in [Requests -> Request \cup {None}] /\ RowsKept
<1>1. CASE UNCHANGED reqs
  BY <1>1, RowOfKnown DEF RowsKept, TypeOK, Permanent, Known
<1>2. ASSUME NEW r \in Requests, CreateRequest(r)
      PROVE  reqs' \in [Requests -> Request \cup {None}] /\ RowsKept
  <2> DEFINE row == [subject |-> Ask[r].subject, owner |-> Ask[r].owner,
                     status |-> "PENDING", permanent |-> Ask[r].permanent, late |-> FALSE]
  <2>1. row \in Request
    BY ApprovalAssumption DEF Request, Statuses
  <2>2. reqs' = [reqs EXCEPT ![r] = row] /\ r \notin Known
    BY <1>2 DEF CreateRequest, Known
  <2> HIDE DEF row
  <2>3. reqs' \in [Requests -> Request \cup {None}]
    BY <2>1, <2>2 DEF TypeOK
  <2>4. \A q \in Known : reqs'[q] = reqs[q]
    BY <2>2 DEF TypeOK, Known
  <2> QED
    BY <2>3, <2>4 DEF RowsKept, Known, Permanent
<1>3. ASSUME NEW r \in Requests, TimeoutPasses(r)
      PROVE  reqs' \in [Requests -> Request \cup {None}] /\ RowsKept
  <2> DEFINE row == [reqs[r] EXCEPT !.late = TRUE]
  <2>1. /\ row \in Request /\ row.subject = reqs[r].subject /\ row.owner = reqs[r].owner
        /\ row.status = reqs[r].status /\ row.permanent = reqs[r].permanent
    BY <1>3, RowOfKnown DEF TimeoutPasses, Request
  <2>2. reqs' = [reqs EXCEPT ![r] = row]
    BY <1>3 DEF TimeoutPasses
  <2> HIDE DEF row
  <2>3. reqs' \in [Requests -> Request \cup {None}]
    BY <2>1, <2>2 DEF TypeOK
  <2>4. \A q \in Known : reqs'[q] = IF q = r THEN row ELSE reqs[q]
    BY <2>2, RowOfKnown DEF TypeOK
  <2>5. \A q \in Known : q \in Known'
    BY <2>1, <2>4, ApprovalAssumption DEF Known
  <2>6. \A q \in Known : Permanent(q) => Permanent(q)'
    BY <2>1, <2>4, <2>5 DEF Permanent
  <2> QED
    BY <2>1, <2>3, <2>4, <2>5, <2>6 DEF RowsKept
<1>4. ASSUME NEW h \in Handlers, Approve(h) \/ Deny(h) \/ Cancel(h)
      PROVE  reqs' \in [Requests -> Request \cup {None}] /\ RowsKept
  <2>1. work[h].pc = "shown"
    BY <1>4 DEF Approve, Deny, Cancel
  <2>2. /\ work[h].req \in Known
        /\ reqs[work[h].req].permanent \in BOOLEAN
    BY <2>1, RequestOfWork, RowOfKnown DEF Request
  <2>3. CASE Approve(h)
    BY <2>2, <2>3, DecideRows DEF Approve, Statuses
  <2>4. CASE Deny(h)
    BY <2>2, <2>4, DecideRows DEF Deny, Statuses
  <2>5. CASE Cancel(h)
    BY <2>2, <2>5, DecideRows DEF Cancel, Statuses
  <2> QED
    BY <1>4, <2>3, <2>4, <2>5
<1>5. ASSUME ProcessTimeouts
      PROVE  reqs' \in [Requests -> Request \cup {None}] /\ RowsKept
  BY <1>5, TimeoutRows
<1>6. ASSUME NEW h \in Handlers,
             ShowList(h) \/ cacheApproval(h) \/ NotifyApprovalDecision(h) \/ Evaluate(h)
                 \/ CheckOwnership(h) \/ CheckCache(h) \/ Answer(h)
      PROVE  UNCHANGED reqs
  BY <1>6 DEF ShowList, cacheApproval, NotifyApprovalDecision, Evaluate, CheckOwnership,
              CheckCache, Answer, Fails
<1>7. ASSUME NEW f \in Files,
             DeleteOwnership(f)
                 \/ \E u \in Users : RegisterOwnership(f, u) \/ UpdateOwnership(f, u)
      PROVE  UNCHANGED reqs
  BY <1>7 DEF DeleteOwnership, RegisterOwnership, UpdateOwnership
<1>8. Restart => UNCHANGED reqs
  BY DEF Restart
<1>9. UNCHANGED vars => UNCHANGED reqs
  BY DEF vars
<1> QED
  BY <1>1, <1>2, <1>3, <1>4, <1>5, <1>6, <1>7, <1>8, <1>9 DEF Next

----------------------------------------------------------------------------
(* Type correctness. *)

LEMMA WorkKept ==
    ASSUME RowsKept
    PROVE  Work \subseteq Work'
<1>1. Known \subseteq Known'
  BY DEF RowsKept
<1> QED
  BY <1>1 DEF Work

\* What a handler goes on with.
LEMMA WorkOfRequest ==
    ASSUME NEW r \in Known, NEW pc \in {"shown", "cache", "notify"}
    PROVE  Deciding(pc, r) \in Work
BY DEF Deciding, Work

LEMMA WorkOfSubject ==
    ASSUME NEW s \in Subjects, NEW pc \in {"owner", "cached"}
    PROVE  Evaluating(pc, s) \in Work
BY DEF Evaluating, Work

LEMMA WorkOfAnswer ==
    ASSUME NEW s \in Subjects, NEW action \in Verdicts, NEW why \in Reasons
    PROVE  Decided(s, action, why) \in Work
BY DEF Decided, Work

LEMMA SubjectOfWork ==
    ASSUME TypeOK, NEW h \in Handlers, work[h].pc \in {"owner", "cached"}
    PROVE  work[h].subject \in Subjects
BY DEF TypeOK, Work, Idle

\* What every step leaves of the types once the tables have theirs: work is
\* work still, and so is what a handler goes on with.
LEMMA WorkTyped ==
    ASSUME TypeOK, [Next]_vars
    PROVE  work' \in [Handlers -> Work']
<1> DEFINE Goes(h) == \E w \in Work : Goto(h, w)
<1>1. /\ Work \subseteq Work' /\ work \in [Handlers -> Work] /\ Idle \in Work
  BY Rows, WorkKept DEF TypeOK, Work
<1>2. ASSUME NEW h \in Handlers, Goes(h)
      PROVE  work' \in [Handlers -> Work']
  BY <1>1, <1>2 DEF Goto
<1>3. CASE UNCHANGED work
  BY <1>1, <1>3
<1> HIDE DEF Goes
<1>4. ASSUME NEW h \in Handlers, NEW w \in Work, Goto(h, w)
      PROVE  Goes(h)
  BY <1>4 DEF Goes
<1>5. ASSUME NEW h \in Handlers, ShowList(h)
      PROVE  Goes(h)
  BY <1>4, <1>5, WorkOfRequest DEF ShowList, List
<1>6. ASSUME NEW h \in Handlers, Approve(h) \/ Deny(h) \/ Cancel(h)
      PROVE  Goes(h)
  <2>1. work[h].req \in Known
    BY <1>6, RequestOfWork DEF Approve, Deny, Cancel
  <2>2. \A pc \in {"cache", "notify"} : Deciding(pc, work[h].req) \in Work
    BY <2>1, WorkOfRequest
  <2> QED
    BY <1>1, <1>4, <1>6, <2>2 DEF Approve, Deny, Cancel, Decide, Fails
<1>7. ASSUME NEW h \in Handlers, cacheApproval(h) \/ NotifyApprovalDecision(h)
      PROVE  Goes(h)
  <2>1. work[h].req \in Known
    BY <1>7, RequestOfWork DEF cacheApproval, NotifyApprovalDecision
  <2>2. Deciding("notify", work[h].req) \in Work
    BY <2>1, WorkOfRequest
  <2> QED
    BY <1>1, <1>4, <1>7, <2>2 DEF cacheApproval, NotifyApprovalDecision, Fails
<1>8. ASSUME NEW h \in Handlers, Evaluate(h)
      PROVE  Goes(h)
  <2>1. PICK s \in Events, found \in MatchSets, lost \in SUBSET Lookups :
            Goto(h, Evaluation(s, found, lost))
    BY <1>8 DEF Evaluate
  <2>2. s \in Subjects
    BY ApprovalAssumption
  <2>3. Evaluation(s, found, lost) \in Work
    BY <2>2, EvaluationResult, WorkOfSubject, WorkOfAnswer DEF Reasons
  <2> QED
    BY <1>4, <2>1, <2>3
<1>9. ASSUME NEW h \in Handlers, CheckOwnership(h) \/ CheckCache(h)
      PROVE  Goes(h)
  <2>1. work[h].subject \in Subjects
    BY <1>9, SubjectOfWork DEF CheckOwnership, CheckCache
  <2>2. /\ Evaluating("cached", work[h].subject) \in Work
        /\ Decided(work[h].subject, "ALLOW", "owner") \in Work
        /\ Decided(work[h].subject, "ALLOW", "approved") \in Work
        /\ Decided(work[h].subject, "PENDING_APPROVAL", "asked") \in Work
    BY <2>1, WorkOfSubject, WorkOfAnswer DEF Verdicts, Reasons
  <2>3. CASE CheckOwnership(h)
    <3>1. PICK w : Goto(h, w) /\ w \in {Decided(work[h].subject, "ALLOW", "owner"),
                                         Evaluating("cached", work[h].subject)}
      BY <2>3 DEF CheckOwnership
    <3> QED
      BY <1>4, <2>2, <3>1
  <2>4. CASE CheckCache(h)
    <3>1. PICK w : Goto(h, w) /\ w \in {Decided(work[h].subject, "ALLOW", "approved"),
                                         Decided(work[h].subject, "PENDING_APPROVAL", "asked")}
      BY <2>4 DEF CheckCache
    <3> QED
      BY <1>4, <2>2, <3>1
  <2> QED
    BY <1>9, <2>3, <2>4
<1>10. ASSUME NEW h \in Handlers, Answer(h)
       PROVE  Goes(h)
  BY <1>1, <1>4, <1>10 DEF Answer
<1>11. ASSUME Restart
       PROVE  work' \in [Handlers -> Work']
  BY <1>1, <1>11 DEF Restart
<1>12. ASSUME NEW r \in Requests, CreateRequest(r) \/ TimeoutPasses(r)
       PROVE  UNCHANGED work
  BY <1>12 DEF CreateRequest, TimeoutPasses
<1>13. ASSUME NEW f \in Files,
              DeleteOwnership(f)
                  \/ \E u \in Users : RegisterOwnership(f, u) \/ UpdateOwnership(f, u)
       PROVE  UNCHANGED work
  BY <1>13 DEF DeleteOwnership, RegisterOwnership, UpdateOwnership
<1>14. ProcessTimeouts \/ UNCHANGED vars => UNCHANGED work
  BY DEF ProcessTimeouts, vars
<1> QED
  BY <1>2, <1>3, <1>5, <1>6, <1>7, <1>8, <1>9, <1>10, <1>11, <1>12, <1>13, <1>14
     DEF Next

LEMMA TablesTyped ==
    ASSUME TypeOK, [Next]_vars
    PROVE  /\ cached' \in [Subjects -> Users \cup {None}]
           /\ owner' \in [Files -> Users \cup {None}]
           /\ faulty' \in BOOLEAN
<1>1. ASSUME NEW h \in Handlers, cacheApproval(h)
      PROVE  cached' \in [Subjects -> Users \cup {None}]
  <2>1. reqs[work[h].req] \in Request
    BY <1>1, RequestOfWork, RowOfKnown DEF cacheApproval
  <2>2. reqs[work[h].req].owner \in Users
    BY <2>1 DEF Request
  <2> QED
    BY <1>1, <2>2 DEF cacheApproval, Fails, TypeOK
<1>2. \/ \E h \in Handlers : cacheApproval(h)
      \/ UNCHANGED cached
  BY DEF Next, vars, CreateRequest, TimeoutPasses, ShowList, Approve, Deny, Cancel, Decide,
         NotifyApprovalDecision, Evaluate, CheckOwnership, CheckCache, Answer, Fails,
         ProcessTimeouts, RegisterOwnership, UpdateOwnership, DeleteOwnership, Restart
<1>3. owner' \in [Files -> Users \cup {None}]
  <2>1. ASSUME NEW f \in Files,
               DeleteOwnership(f)
                   \/ \E u \in Users : RegisterOwnership(f, u) \/ UpdateOwnership(f, u)
        PROVE  owner' \in [Files -> Users \cup {None}]
    BY <2>1 DEF DeleteOwnership, RegisterOwnership, UpdateOwnership, TypeOK
  <2>2. \/ \E f \in Files :
               DeleteOwnership(f)
                   \/ \E u \in Users : RegisterOwnership(f, u) \/ UpdateOwnership(f, u)
        \/ UNCHANGED owner
    BY DEF Next, vars, CreateRequest, TimeoutPasses, ShowList, Approve, Deny, Cancel, Decide,
           cacheApproval, NotifyApprovalDecision, Evaluate, CheckOwnership, CheckCache,
           Answer, Fails, ProcessTimeouts, Restart
  <2> QED
    BY <2>1, <2>2 DEF TypeOK
<1>4. faulty' = TRUE \/ UNCHANGED faulty
  BY DEF Next, vars, CreateRequest, TimeoutPasses, ShowList, Approve, Deny, Cancel, Decide,
         cacheApproval, NotifyApprovalDecision, Evaluate, CheckOwnership, CheckCache, Answer,
         Fails, ProcessTimeouts, RegisterOwnership, UpdateOwnership, DeleteOwnership, Restart
<1> QED
  BY <1>1, <1>2, <1>3, <1>4 DEF TypeOK

LEMMA NoticesTyped ==
    ASSUME TypeOK, [Next]_vars
    PROVE  notices' \subseteq [req : Known', to : Users, status : Statuses]
<1>1. /\ Known \subseteq Known'
      /\ notices \subseteq [req : Known, to : Users, status : Statuses]
  BY Rows DEF RowsKept, TypeOK
<1>2. notices \subseteq [req : Known', to : Users, status : Statuses]
  BY <1>1
<1>3. ASSUME NEW r \in Requests, CreateRequest(r)
      PROVE  notices' \subseteq [req : Known', to : Users, status : Statuses]
  <2>1. notices' = notices \cup {Notice(r, Ask[r].owner, "PENDING")}
    BY <1>3 DEF CreateRequest, send
  <2>2. r \in Known'
    <3>1. reqs'[r] \in Request
      BY <1>3, ApprovalAssumption DEF CreateRequest, TypeOK, Request, Statuses
    <3> QED
      BY <3>1, ApprovalAssumption DEF Known
  <2>3. Ask[r].owner \in Users
    BY ApprovalAssumption
  <2> QED
    BY <1>2, <2>1, <2>2, <2>3 DEF Notice, Statuses
<1>4. ASSUME NEW h \in Handlers, NotifyApprovalDecision(h)
      PROVE  notices' \subseteq [req : Known', to : Users, status : Statuses]
  <2> DEFINE r == work[h].req
  <2>1. r \in Known /\ reqs[r] \in Request
    BY <1>4, RequestOfWork, RowOfKnown DEF NotifyApprovalDecision
  <2>2. r \in Known' /\ reqs[r].subject.user \in Users
    BY <1>1, <2>1 DEF Request, Subjects
  <2>3. CASE UNCHANGED notices
    BY <1>2, <2>3
  <2>4. CASE notices' = notices \cup
                 {Notice(r, reqs[r].subject.user, status) :
                     status \in {reqs[r].status} \cap {"APPROVED", "DENIED", "TIMEOUT"}}
    BY <1>2, <2>2, <2>4 DEF Notice, Statuses
  <2> QED
    BY <1>4, <2>3, <2>4 DEF NotifyApprovalDecision, Fails
<1>5. \/ \E r \in Requests : CreateRequest(r)
      \/ \E h \in Handlers : NotifyApprovalDecision(h)
      \/ UNCHANGED notices
  BY DEF Next, vars, TimeoutPasses, ShowList, Approve, Deny, Cancel, Decide,
         cacheApproval, Evaluate, CheckOwnership, CheckCache, Answer, Fails,
         ProcessTimeouts, RegisterOwnership, UpdateOwnership, DeleteOwnership, Restart
<1> QED
  BY <1>2, <1>3, <1>4, <1>5

LEMMA TypeStep ==
    ASSUME TypeOK, [Next]_vars
    PROVE  TypeOK'
BY Rows, WorkTyped, TablesTyped, NoticesTyped DEF TypeOK

LEMMA TypeInit ==
    Init => TypeOK
BY DEF Init, TypeOK, Work, Known

\* Requests, cached approvals, owners, handlers and notifications keep their
\* types: in particular no handler ever holds, and no notification ever names,
\* a request that is not in the table (approval/workflow.go, notifier.go).
THEOREM TypeCorrect == Spec => []TypeOK
<1>1. TypeOK /\ [Next]_vars => TypeOK'
  BY TypeStep
<1> QED
  BY <1>1, TypeInit, PTL DEF Spec

----------------------------------------------------------------------------
(* The cache and the answers that rest on it. *)

\* Only cacheApproval writes the cache, and it takes nothing out.
LEMMA CacheKept ==
    ASSUME ApprovalInv, [Next]_vars
    PROVE  \/ UNCHANGED cached
           \/ \E h \in Handlers : LET r == work[h].req IN
                  /\ work[h].pc = "cache" /\ r \in Known /\ Permanent(r)
                  /\ reqs[r].subject \in Subjects /\ reqs[r].owner \in Users
                  /\ cached' = [cached EXCEPT ![reqs[r].subject] = reqs[r].owner]
                  /\ UNCHANGED <<reqs, notices>>
<1>1. ASSUME NEW h \in Handlers, cacheApproval(h), ~UNCHANGED cached
      PROVE  LET r == work[h].req IN
                  /\ work[h].pc = "cache" /\ r \in Known /\ Permanent(r)
                  /\ reqs[r].subject \in Subjects /\ reqs[r].owner \in Users
                  /\ cached' = [cached EXCEPT ![reqs[r].subject] = reqs[r].owner]
                  /\ UNCHANGED <<reqs, notices>>
  <2>1. work[h].pc = "cache" /\ work[h].req \in Known /\ reqs[work[h].req] \in Request
    BY <1>1, RequestOfWork, RowOfKnown DEF cacheApproval, ApprovalInv
  <2>2. Permanent(work[h].req)
    BY <2>1 DEF ApprovalInv, CachingIsPermanent
  <2> QED
    BY <1>1, <2>1, <2>2 DEF cacheApproval, Fails, Request
<1>2. \/ \E h \in Handlers : cacheApproval(h)
      \/ UNCHANGED cached
  BY DEF Next, vars, CreateRequest, TimeoutPasses, ShowList, Approve, Deny, Cancel, Decide,
         NotifyApprovalDecision, Evaluate, CheckOwnership, CheckCache, Answer, Fails,
         ProcessTimeouts, RegisterOwnership, UpdateOwnership, DeleteOwnership, Restart
<1> QED
  BY <1>1, <1>2

LEMMA CacheGrows ==
    ASSUME ApprovalInv, [Next]_vars, NEW s \in Subjects, cached[s] # None
    PROVE  cached'[s] # None
BY CacheKept, ApprovalAssumption DEF ApprovalInv, TypeOK

LEMMA CachedStep ==
    ASSUME ApprovalInv, [Next]_vars
    PROVE  CachedIsPermanent'
<1> SUFFICES ASSUME NEW s \in Subjects, cached'[s] # None
             PROVE  \E r \in Requests : /\ Permanent(r)' /\ reqs'[r].subject = s
                                        /\ reqs'[r].owner = cached'[s]
  BY DEF CachedIsPermanent
<1>1. RowsKept
  BY Rows DEF ApprovalInv
<1>2. CASE cached'[s] = cached[s]
  <2>1. PICK r \in Requests : /\ Permanent(r) /\ reqs[r].subject = s
                              /\ reqs[r].owner = cached[s]
    BY <1>2 DEF ApprovalInv, CachedIsPermanent
  <2> QED
    BY <1>1, <1>2, <2>1 DEF RowsKept, Permanent
<1>3. CASE cached'[s] # cached[s]
  <2>1. PICK r \in Known :
            /\ Permanent(r) /\ reqs[r].subject \in Subjects
            /\ cached' = [cached EXCEPT ![reqs[r].subject] = reqs[r].owner]
            /\ UNCHANGED reqs
    BY <1>3, CacheKept
  <2>2. s = reqs[r].subject /\ cached'[s] = reqs[r].owner
    BY <1>3, <2>1 DEF ApprovalInv, TypeOK
  <2>3. r \in Requests /\ Permanent(r)'
    BY <1>1, <2>1 DEF RowsKept, Known
  <2> QED
    BY <2>1, <2>2, <2>3
<1> QED
  BY <1>2, <1>3

\* A handler that is asked to go somewhere is there; the others are where they
\* were.
LEMMA WorkMoves ==
    ASSUME TypeOK, NEW h \in Handlers, NEW w, Goto(h, w), NEW g \in Handlers
    PROVE  work'[g] = IF g = h THEN w ELSE work[g]
BY DEF Goto, TypeOK

\* The steps that take a handler to the cache, and those that answer from it.
LEMMA CachingStarts ==
    ASSUME TypeOK, [Next]_vars, NEW g \in Handlers, work'[g].pc = "cache",
           work'[g] # work[g]
    PROVE  /\ work'[g].req = work[g].req /\ work[g].pc = "shown"
           /\ Permanent(work[g].req)'
<1>1. ASSUME NEW h \in Handlers, Approve(h)
      PROVE  g = h /\ work'[g].req = work[g].req /\ work[g].pc = "shown"
                 /\ Permanent(work[g].req)'
  <2>1. work[h].pc = "shown"
    BY <1>1 DEF Approve
  <2>2. PICK r \in Known : r = work[h].req /\ reqs[r] \in Request
    BY <2>1, RequestOfWork, RowOfKnown
  <2>3. PICK permanent \in BOOLEAN :
            Decide(h, r, "APPROVED", permanent,
                   Deciding(IF permanent THEN "cache" ELSE "notify", r))
    BY <1>1, <2>2 DEF Approve
  <2>4. ~Goto(h, Idle)
    BY WorkMoves DEF Idle
  <2>5. /\ reqs' = [reqs EXCEPT ![r] = Decision(@, "APPROVED", permanent)]
        /\ Goto(h, Deciding(IF permanent THEN "cache" ELSE "notify", r))
    BY <2>3, <2>4 DEF Decide, Fails
  <2>6. g = h /\ permanent = TRUE /\ work'[g].req = r
    BY <2>5, WorkMoves DEF Deciding
  <2>7. reqs'[r] = Decision(reqs[r], "APPROVED", TRUE)
    BY <2>2, <2>5, <2>6 DEF TypeOK, Known
  <2>8. /\ Decision(reqs[r], "APPROVED", TRUE) \in Request
        /\ Decision(reqs[r], "APPROVED", TRUE).status = "APPROVED"
        /\ Decision(reqs[r], "APPROVED", TRUE).permanent = TRUE
    BY <2>2, DecisionRow DEF Statuses
  <2> QED
    BY <2>1, <2>2, <2>6, <2>7, <2>8, ApprovalAssumption DEF Permanent, Known
<1>2. ASSUME NEW h \in Handlers, Deny(h) \/ Cancel(h)
      PROVE  FALSE
  <2>1. \/ Goto(h, Deciding("notify", work[h].req)) \/ Goto(h, Idle)
    BY <1>2 DEF Deny, Cancel, Decide, Fails
  <2> QED
    BY <2>1, WorkMoves DEF Deciding, Idle
<1>3. ASSUME NEW h \in Handlers, ShowList(h) \/ cacheApproval(h)
                 \/ NotifyApprovalDecision(h) \/ Answer(h)
      PROVE  FALSE
  <2>1. CASE ShowList(h)
    <3>1. PICK r \in Known : Goto(h, Deciding("shown", r))
      BY <2>1 DEF ShowList, List
    <3> QED
      BY <3>1, WorkMoves DEF Deciding
  <2>2. CASE ~ShowList(h)
    <3>1. \/ Goto(h, Deciding("notify", work[h].req)) \/ Goto(h, Idle)
      BY <1>3, <2>2 DEF cacheApproval, NotifyApprovalDecision, Answer, Fails
    <3> QED
      BY <3>1, WorkMoves DEF Deciding, Idle
  <2> QED
    BY <2>1, <2>2
<1>4. ASSUME NEW h \in Handlers, Evaluate(h)
      PROVE  FALSE
  <2>1. PICK s \in Events, found \in MatchSets, lost \in SUBSET Lookups :
            Goto(h, Evaluation(s, found, lost))
    BY <1>4 DEF Evaluate
  <2>2. Evaluation(s, found, lost).pc \in {"owner", "done"}
    BY EvaluationResult, ApprovalAssumption DEF Evaluating, Decided
  <2> QED
    BY <2>1, <2>2, WorkMoves
<1>5. ASSUME NEW h \in Handlers, CheckOwnership(h) \/ CheckCache(h)
      PROVE  FALSE
  <2>1. \E s, action, why : \/ Goto(h, Decided(s, action, why))
                           \/ Goto(h, Evaluating("cached", s))
    BY <1>5 DEF CheckOwnership, CheckCache
  <2> QED
    BY <2>1, WorkMoves DEF Decided, Evaluating
<1>6. Restart => work'[g] = Idle
  BY DEF Restart
<1>7. UNCHANGED work \/ Restart \/ \E h \in Handlers :
          \/ ShowList(h) \/ Approve(h) \/ Deny(h) \/ Cancel(h)
          \/ cacheApproval(h) \/ NotifyApprovalDecision(h)
          \/ Evaluate(h) \/ CheckOwnership(h) \/ CheckCache(h) \/ Answer(h)
  BY DEF Next, vars, CreateRequest, TimeoutPasses, ProcessTimeouts, RegisterOwnership,
         UpdateOwnership, DeleteOwnership
<1> QED
  BY <1>1, <1>2, <1>3, <1>4, <1>5, <1>6, <1>7 DEF Idle

LEMMA CachingStep ==
    ASSUME ApprovalInv, [Next]_vars
    PROVE  CachingIsPermanent'
<1> SUFFICES ASSUME NEW g \in Handlers, work'[g].pc = "cache"
             PROVE  Permanent(work[g].req)'
  BY DEF CachingIsPermanent
<1>1. CASE work'[g] = work[g]
  <2>1. PICK r \in Known : r = work[g].req /\ Permanent(r)
    BY <1>1, RequestOfWork DEF ApprovalInv, CachingIsPermanent
  <2>2. Permanent(r)' /\ r = work'[g].req
    BY <1>1, <2>1, Rows DEF ApprovalInv, RowsKept
  <2> QED
    BY <2>2
<1>2. CASE work'[g] # work[g]
  BY <1>2, CachingStarts DEF ApprovalInv
<1> QED
  BY <1>1, <1>2

LEMMA AnswerStarts ==
    ASSUME TypeOK, [Next]_vars, NEW g \in Handlers,
           work'[g].pc = "done", work'[g].why = "approved", work'[g] # work[g]
    PROVE  /\ work'[g].subject = work[g].subject /\ work[g].subject \in Subjects
           /\ CheckCachedApproval(work[g].subject) /\ UNCHANGED cached
<1>1. ASSUME NEW h \in Handlers, CheckCache(h)
      PROVE  /\ work'[g].subject = work[g].subject /\ work[g].subject \in Subjects
             /\ CheckCachedApproval(work[g].subject) /\ UNCHANGED cached
  <2>1. ~Goto(h, Decided(work[h].subject, "PENDING_APPROVAL", "asked"))
    BY WorkMoves DEF Decided
  <2>2. /\ CheckCachedApproval(work[h].subject)
        /\ Goto(h, Decided(work[h].subject, "ALLOW", "approved"))
        /\ work[h].subject \in Subjects /\ UNCHANGED cached
    BY <1>1, <2>1, SubjectOfWork DEF CheckCache
  <2> QED
    BY <2>2, WorkMoves DEF Decided
<1>2. ASSUME NEW h \in Handlers, CheckOwnership(h)
      PROVE  FALSE
  <2>1. \/ Goto(h, Decided(work[h].subject, "ALLOW", "owner"))
        \/ Goto(h, Evaluating("cached", work[h].subject))
    BY <1>2 DEF CheckOwnership
  <2> QED
    BY <2>1, WorkMoves DEF Decided, Evaluating
<1>3. ASSUME NEW h \in Handlers, Evaluate(h)
      PROVE  FALSE
  <2>1. PICK s \in Events, found \in MatchSets, lost \in SUBSET Lookups :
            Goto(h, Evaluation(s, found, lost))
    BY <1>3 DEF Evaluate
  <2>2. \/ Evaluation(s, found, lost).pc # "done"
        \/ Evaluation(s, found, lost).why # "approved"
    BY EvaluationResult, ApprovalAssumption DEF Evaluating, Decided
  <2> QED
    BY <2>1, <2>2, WorkMoves
<1>4. ASSUME NEW h \in Handlers, ShowList(h)
      PROVE  FALSE
  <2>1. PICK r \in Known : Goto(h, Deciding("shown", r))
    BY <1>4 DEF ShowList, List
  <2> QED
    BY <2>1, WorkMoves DEF Deciding
<1>5. ASSUME NEW h \in Handlers,
             Approve(h) \/ Deny(h) \/ Cancel(h) \/ cacheApproval(h)
                 \/ NotifyApprovalDecision(h) \/ Answer(h)
      PROVE  FALSE
  <2>1. \/ Goto(h, Deciding("notify", work[h].req))
        \/ Goto(h, Deciding("cache", work[h].req)) \/ Goto(h, Idle)
    BY <1>5 DEF Approve, Deny, Cancel, Decide, cacheApproval, NotifyApprovalDecision, Answer,
                Fails
  <2> QED
    BY <2>1, WorkMoves DEF Deciding, Idle
<1>6. Restart => work'[g] = Idle
  BY DEF Restart
<1>7. UNCHANGED work \/ Restart \/ \E h \in Handlers :
          \/ ShowList(h) \/ Approve(h) \/ Deny(h) \/ Cancel(h)
          \/ cacheApproval(h) \/ NotifyApprovalDecision(h)
          \/ Evaluate(h) \/ CheckOwnership(h) \/ CheckCache(h) \/ Answer(h)
  BY DEF Next, vars, CreateRequest, TimeoutPasses, ProcessTimeouts, RegisterOwnership,
         UpdateOwnership, DeleteOwnership
<1> QED
  BY <1>1, <1>2, <1>3, <1>4, <1>5, <1>6, <1>7 DEF Idle

\* What else an approval may be for that reaches s.
LEMMA CoveringSubjects ==
    ASSUME NEW s \in Subjects, NEW d \in Destinations
    PROVE  [s EXCEPT !.dest = d] \in Subjects
BY DEF Subjects

LEMMA ApprovedStep ==
    ASSUME ApprovalInv, [Next]_vars
    PROVE  ApprovedIsCached'
<1> SUFFICES ASSUME NEW g \in Handlers, work'[g].pc = "done", work'[g].why = "approved"
             PROVE  work'[g].subject \in Subjects /\ CheckCachedApproval(work[g].subject)'
  BY DEF ApprovedIsCached
<1>1. work'[g].subject = work[g].subject /\ work[g].subject \in Subjects
      /\ CheckCachedApproval(work[g].subject)
  BY AnswerStarts DEF ApprovalInv, ApprovedIsCached
<1>2. PICK s \in Subjects : s = work[g].subject /\ s = work'[g].subject
                           /\ CheckCachedApproval(s)
  BY <1>1
<1>3. PICK d \in Destinations : Reaches(d, s.dest) /\ cached[[s EXCEPT !.dest = d]] # None
  BY <1>2 DEF CheckCachedApproval
<1>4. cached'[[s EXCEPT !.dest = d]] # None
  BY <1>3, CoveringSubjects, CacheGrows
<1>5. CheckCachedApproval(s)'
  BY <1>3, <1>4 DEF CheckCachedApproval
<1> QED
  BY <1>2, <1>5

LEMMA ApprovalStep ==
    ASSUME ApprovalInv, [Next]_vars
    PROVE  ApprovalInv'
BY TypeStep, CachingStep, CachedStep, ApprovedStep DEF ApprovalInv

LEMMA ApprovalInit ==
    Init => ApprovalInv
BY TypeInit DEF Init, ApprovalInv, CachingIsPermanent, CachedIsPermanent, ApprovedIsCached,
                Idle

LEMMA InvariantHolds == Spec => []ApprovalInv
<1>1. ApprovalInv /\ [Next]_vars => ApprovalInv'
  BY ApprovalStep
<1> QED
  BY <1>1, ApprovalInit, PTL DEF Spec

\* An answer ALLOW that rests on an approval is justified by a request that was
\* permanently approved for the same file, user and action, for a destination that
\* matches this one as a LIKE pattern, whatever LIKE makes of it, or for all, by the
\* owner the cache names: Approve, cacheApproval and an
\* evaluation of policy/engine.go may interleave, fail and be cut off as they
\* like.
THEOREM AllowsAreJustified == Spec => []AllowJustified
<1>1. ApprovalInv => AllowJustified
  <2> SUFFICES ASSUME ApprovalInv, NEW h \in Handlers, work[h].pc = "done",
                      work[h].why = "approved"
               PROVE  \E r \in Requests :
                          /\ Permanent(r)
                          /\ reqs[r].subject =
                                 [work[h].subject EXCEPT !.dest = reqs[r].subject.dest]
                          /\ Reaches(reqs[r].subject.dest, work[h].subject.dest)
                          /\ \E q \in Requests : /\ Permanent(q)
                                                 /\ reqs[q].subject = reqs[r].subject
                                                 /\ reqs[q].owner = cached[reqs[r].subject]
    BY DEF AllowJustified
  <2>1. work[h].subject \in Subjects /\ CheckCachedApproval(work[h].subject)
    BY DEF ApprovalInv, ApprovedIsCached
  <2>2. PICK s \in Subjects : s = work[h].subject
    BY <2>1
  <2>3. PICK d \in Destinations : Reaches(d, s.dest) /\ cached[[s EXCEPT !.dest = d]] # None
    BY <2>1, <2>2 DEF CheckCachedApproval
  <2>4. PICK t \in Subjects : t = [s EXCEPT !.dest = d]
    BY CoveringSubjects
  <2>5. t.dest = d /\ t = [s EXCEPT !.dest = t.dest]
    BY <2>4 DEF Subjects
  <2>6. PICK r \in Requests : /\ Permanent(r) /\ reqs[r].subject = t
                              /\ reqs[r].owner = cached[t]
    BY <2>3, <2>4 DEF ApprovalInv, CachedIsPermanent
  <2> QED
    BY <2>2, <2>3, <2>5, <2>6
<1> QED
  BY <1>1, InvariantHolds, PTL

----------------------------------------------------------------------------
(* Permanent approvals reach the cache. *)

\* What becomes a permanent approval is about to be cached by its handler.
LEMMA BecomesPermanent ==
    ASSUME TypeOK, [Next]_vars, NEW r \in Requests, ~Permanent(r), Permanent(r)'
    PROVE  \E h \in Handlers : Goto(h, Deciding("cache", r))
<1>0. reqs'[r] # reqs[r] /\ reqs'[r].status = "APPROVED" /\ reqs'[r].permanent
  BY DEF Permanent, Known
<1>1. ASSUME NEW q \in Requests, CreateRequest(q)
      PROVE  FALSE
  BY <1>0, <1>1 DEF CreateRequest, TypeOK
<1>2. ASSUME NEW q \in Requests, TimeoutPasses(q)
      PROVE  FALSE
  <2>1. q = r /\ reqs[r].status = "PENDING" /\ reqs[r] \in Request
    BY <1>0, <1>2, RowOfKnown DEF TimeoutPasses, TypeOK
  <2>2. reqs'[r] = [reqs[r] EXCEPT !.late = TRUE]
    BY <1>2, <2>1 DEF TimeoutPasses, TypeOK
  <2> QED
    BY <1>0, <2>1, <2>2 DEF Request
<1>3. ASSUME ProcessTimeouts
      PROVE  FALSE
  <2>1. r \in Overdue /\ reqs'[r] = Expired(reqs[r]) /\ reqs[r] \in Request
    BY <1>0, <1>3, RowOfKnown DEF ProcessTimeouts, Overdue
  <2> QED
    BY <1>0, <2>1, ExpiredRow
<1>4. ASSUME NEW h \in Handlers, NEW status \in Statuses, NEW permanent \in BOOLEAN, NEW w,
             work[h].pc = "shown", Decide(h, work[h].req, status, permanent, w)
      PROVE  work[h].req = r /\ status = "APPROVED" /\ permanent = TRUE /\ Goto(h, w)
  <2>1. PICK q \in Known : q = work[h].req /\ reqs[q] \in Request
    BY <1>4, RequestOfWork, RowOfKnown
  <2>2. reqs' = [reqs EXCEPT ![q] = Decision(@, status, permanent)] /\ Goto(h, w)
    BY <1>0, <1>4, <2>1 DEF Decide, Fails
  <2>3. q = r /\ reqs'[r] = Decision(reqs[r], status, permanent)
    BY <1>0, <2>2 DEF TypeOK
  <2> QED
    BY <1>0, <2>1, <2>2, <2>3, DecisionRow
<1>5. ASSUME NEW h \in Handlers, Deny(h) \/ Cancel(h)
      PROVE  FALSE
  <2>1. work[h].pc = "shown" /\ reqs[work[h].req].permanent \in BOOLEAN
    BY <1>5, RequestOfWork, RowOfKnown DEF Deny, Cancel, Request
  <2> QED
    BY <1>4, <1>5, <2>1 DEF Deny, Cancel, Statuses
<1>6. ASSUME NEW h \in Handlers, Approve(h)
      PROVE  Goto(h, Deciding("cache", r))
  <2>1. PICK permanent \in BOOLEAN :
            Decide(h, work[h].req, "APPROVED", permanent,
                   Deciding(IF permanent THEN "cache" ELSE "notify", work[h].req))
    BY <1>6 DEF Approve
  <2>2. work[h].pc = "shown"
    BY <1>6 DEF Approve
  <2>3. /\ permanent = TRUE /\ work[h].req = r
        /\ Goto(h, Deciding(IF permanent THEN "cache" ELSE "notify", work[h].req))
    BY <1>4, <2>1, <2>2 DEF Statuses
  <2> QED
    BY <2>3
<1>7. \/ UNCHANGED reqs \/ ProcessTimeouts
      \/ \E q \in Requests : CreateRequest(q) \/ TimeoutPasses(q)
      \/ \E h \in Handlers : Approve(h) \/ Deny(h) \/ Cancel(h)
  BY DEF Next, vars, ShowList, cacheApproval, NotifyApprovalDecision, Evaluate,
         CheckOwnership, CheckCache, Answer, Fails, RegisterOwnership, UpdateOwnership,
         DeleteOwnership, Restart
<1> QED
  BY <1>0, <1>1, <1>2, <1>3, <1>5, <1>6, <1>7

LEMMA LastingStep ==
    ASSUME ApprovalInv, LastingIsCached, [Next]_vars
    PROVE  LastingIsCached'
<1> SUFFICES ASSUME ~faulty', NEW r \in Requests, Permanent(r)'
             PROVE  \/ cached'[reqs'[r].subject] # None
                    \/ \E h \in Handlers : work'[h] = Deciding("cache", r)
  BY DEF LastingIsCached
<1>1. ~faulty /\ ~Restart /\ \A h \in Handlers : \A w : ~Fails(h, w)
  BY DEF Next, vars, CreateRequest, TimeoutPasses, ShowList, Approve, Deny, Cancel, Decide,
         cacheApproval, NotifyApprovalDecision, Evaluate, CheckOwnership, CheckCache, Answer,
         Fails, ProcessTimeouts, RegisterOwnership, UpdateOwnership, DeleteOwnership, Restart
<1>2. CASE Permanent(r)
  <2>1. /\ reqs'[r].subject = reqs[r].subject
        /\ reqs[r].subject \in Subjects
    BY <1>2, Rows, RowOfKnown DEF ApprovalInv, RowsKept, Permanent, Request
  <2>2. CASE cached[reqs[r].subject] # None
    BY <2>1, <2>2, CacheGrows
  <2>3. CASE \E h \in Handlers : work[h] = Deciding("cache", r)
    <3>1. PICK h \in Handlers : work[h] = Deciding("cache", r)
      BY <2>3
    <3>2. CASE UNCHANGED work
      BY <3>1, <3>2
    <3>3. CASE \E g \in Handlers \ {h} : \E w : Goto(g, w)
      BY <3>1, <3>3, WorkMoves DEF ApprovalInv
    <3>4. CASE cacheApproval(h)
      <4>1. cached' = [cached EXCEPT ![reqs[r].subject] = reqs[r].owner]
        BY <1>1, <3>1, <3>4 DEF cacheApproval, Deciding
      <4>2. reqs[r].owner \in Users
        BY <1>2, RowOfKnown DEF ApprovalInv, Permanent, Request
      <4> QED
        BY <2>1, <4>1, <4>2, ApprovalAssumption DEF ApprovalInv, TypeOK
    <3>5. work[h].pc = "cache" /\ work[h] # Idle
      BY <3>1 DEF Deciding, Idle
    <3>6. \/ UNCHANGED work \/ cacheApproval(h)
          \/ \E g \in Handlers \ {h} : \E w : Goto(g, w)
      BY <1>1, <3>5
         DEF Next, vars, CreateRequest, TimeoutPasses, ShowList, Approve, Deny, Cancel,
             Decide, cacheApproval, NotifyApprovalDecision, Evaluate, CheckOwnership,
             CheckCache, Answer, ProcessTimeouts, RegisterOwnership, UpdateOwnership,
             DeleteOwnership
    <3> QED
      BY <3>2, <3>3, <3>4, <3>6
  <2> QED
    BY <1>1, <1>2, <2>2, <2>3 DEF LastingIsCached
<1>3. CASE ~Permanent(r)
  BY <1>3, BecomesPermanent, WorkMoves DEF ApprovalInv
<1> QED
  BY <1>2, <1>3

\* Approve writes the request and, in a second statement, the cache.  Unless a
\* statement failed or the backend was restarted between the two, whoever looks
\* at the tables finds a permanent approval cached or its handler about to cache
\* it (approval/workflow.go, Approve and cacheApproval).
THEOREM LastingAreCached == Spec => []LastingIsCached
<1>1. Init => LastingIsCached
  BY DEF Init, LastingIsCached, Permanent, Known
<1>2. ApprovalInv /\ LastingIsCached /\ [Next]_vars => LastingIsCached'
  BY LastingStep
<1> QED
  BY <1>1, <1>2, InvariantHolds, PTL DEF Spec

----------------------------------------------------------------------------
(* The workflow implements the life cycle.  The abstract state of a request,  *)
(* as the refinement mapping of Approvals gives it:                          *)

subjectOf == [r \in Requests |-> IF r \in Known THEN reqs[r].subject ELSE None]
decisionOf == [r \in Requests |-> IF r \in Known THEN reqs[r].status ELSE None]
lastingOf == {r \in Requests : Permanent(r)}
grantsOf == {s \in DOMAIN cached : cached[s] # None}
toldOf == {<<n.req, n.status>> : n \in {m \in notices : m.status # "PENDING"}}

LEMMA LifecycleInit ==
    Init => Lifecycle!Init
<1> SUFFICES ASSUME Init
             PROVE  Lifecycle!Init
  OBVIOUS
<1>1. Known = {}
  BY DEF Init, Known
<1>2. grantsOf = {} /\ toldOf = {} /\ lastingOf = {}
  BY <1>1 DEF Init, grantsOf, toldOf, lastingOf, Permanent
<1> QED
  BY <1>1, <1>2 DEF Lifecycle!Init, grantsOf, toldOf, lastingOf

\* Steps that change neither requests, cache nor notifications are invisible.
LEMMA Invisible ==
    ASSUME UNCHANGED <<reqs, cached, notices>>
    PROVE  UNCHANGED Lifecycle!vars
BY DEF Lifecycle!vars, Known, Permanent

\* What writing one row does to the abstract state.
LEMMA RowWritten ==
    ASSUME TypeOK, NEW r \in Requests, NEW row \in Request,
           reqs' = [reqs EXCEPT ![r] = row]
    PROVE  /\ subjectOf' = [subjectOf EXCEPT ![r] = row.subject]
           /\ decisionOf' = [decisionOf EXCEPT ![r] = row.status]
           /\ lastingOf' = IF row.status = "APPROVED" /\ row.permanent
                           THEN lastingOf \cup {r} ELSE lastingOf \ {r}
<1>2. \A q \in Requests : reqs'[q] = IF q = r THEN row ELSE reqs[q]
  BY DEF TypeOK
<1>1. \A q \in Requests : q \in Known' <=> (q = r \/ q \in Known)
  BY <1>2, ApprovalAssumption DEF Known
<1>3. subjectOf' = [subjectOf EXCEPT ![r] = row.subject]
  <2>1. \A q \in Requests : subjectOf'[q] = IF q = r THEN row.subject ELSE subjectOf[q]
    BY <1>1, <1>2 DEF subjectOf
  <2>2. /\ subjectOf' = [q \in Requests |-> subjectOf'[q]]
        /\ subjectOf = [q \in Requests |-> subjectOf[q]]
    BY DEF subjectOf
  <2> QED
    BY <2>1, <2>2
<1>4. decisionOf' = [decisionOf EXCEPT ![r] = row.status]
  <2>1. \A q \in Requests : decisionOf'[q] = IF q = r THEN row.status ELSE decisionOf[q]
    BY <1>1, <1>2 DEF decisionOf
  <2>2. /\ decisionOf' = [q \in Requests |-> decisionOf'[q]]
        /\ decisionOf = [q \in Requests |-> decisionOf[q]]
    BY DEF decisionOf
  <2> QED
    BY <2>1, <2>2
<1>5. \A q \in Requests : Permanent(q)' <=> IF q = r THEN row.status = "APPROVED" /\ row.permanent
                                             ELSE Permanent(q)
  BY <1>1, <1>2 DEF Permanent
<1> QED
  BY <1>3, <1>4, <1>5 DEF lastingOf

LEMMA CreateOpens ==
    ASSUME TypeOK, NEW r \in Requests, CreateRequest(r)
    PROVE  Lifecycle!Open(r)
<1> DEFINE row == [subject |-> Ask[r].subject, owner |-> Ask[r].owner,
                   status |-> "PENDING", permanent |-> Ask[r].permanent, late |-> FALSE]
<1>1. row \in Request /\ row.status = "PENDING" /\ row.subject \in Subjects
  BY ApprovalAssumption DEF Request, Statuses
<1>2. reqs' = [reqs EXCEPT ![r] = row]
  BY DEF CreateRequest
<1> HIDE DEF row
<1>3. /\ decisionOf' = [decisionOf EXCEPT ![r] = "PENDING"]
      /\ subjectOf' = [subjectOf EXCEPT ![r] = row.subject]
      /\ lastingOf' = lastingOf \ {r}
  BY <1>1, <1>2, RowWritten
<1>4. r \notin Known /\ decisionOf[r] = None /\ r \notin lastingOf
  BY DEF CreateRequest, Known, decisionOf, lastingOf, Permanent
<1>5. grantsOf' = grantsOf
  BY DEF CreateRequest, grantsOf
<1>6. toldOf' = toldOf
  <2>1. {m \in notices' : m.status # "PENDING"} = {m \in notices : m.status # "PENDING"}
    BY DEF CreateRequest, send, Notice
  <2> QED
    BY <2>1 DEF toldOf
<1>7. \E s \in Subjects : subjectOf' = [subjectOf EXCEPT ![r] = s]
  BY <1>1, <1>3
<1>8. lastingOf' = lastingOf
  BY <1>3, <1>4
<1> QED
  BY <1>3, <1>4, <1>5, <1>6, <1>7, <1>8
     DEF Lifecycle!Open, decisionOf, subjectOf, lastingOf, grantsOf, toldOf

LEMMA DecideDecides ==
    ASSUME TypeOK, NEW h \in Handlers, NEW r \in Known,
           NEW status \in Statuses, NEW permanent \in BOOLEAN, NEW w,
           status = "APPROVED" \/ permanent = reqs[r].permanent,
           Decide(h, r, status, permanent, w)
    PROVE  Lifecycle!Decide(r, status) \/ UNCHANGED Lifecycle!vars
<1>1. CASE UNCHANGED reqs
  BY <1>1, Invisible DEF Decide, Fails
<1>2. CASE ~UNCHANGED reqs
  <2>2. PICK row \in Request : /\ row = Decision(reqs[r], status, permanent)
                               /\ row.status = status /\ row.subject = reqs[r].subject
    BY RowOfKnown, DecisionRow
  <2>1. /\ r \in Requests /\ reqs[r].status = "PENDING"
        /\ reqs' = [reqs EXCEPT ![r] = row]
        /\ UNCHANGED <<cached, notices>>
    BY <1>2, <2>2, RowOfKnown DEF Decide, Fails
  <2>3. /\ decisionOf' = [decisionOf EXCEPT ![r] = row.status]
        /\ subjectOf' = [subjectOf EXCEPT ![r] = row.subject]
        /\ lastingOf' = IF row.status = "APPROVED" /\ row.permanent
                        THEN lastingOf \cup {r} ELSE lastingOf \ {r}
    BY <2>1, RowWritten
  <2>4. decisionOf[r] = "PENDING" /\ r \notin lastingOf
    BY <2>1, <2>2 DEF decisionOf, lastingOf, Permanent
  <2>5. subjectOf' = subjectOf
    <3>1. subjectOf[r] = row.subject /\ subjectOf = [q \in Requests |-> subjectOf[q]]
      BY <2>1, <2>2 DEF subjectOf
    <3> QED
      BY <2>3, <3>1
  <2>6. lastingOf' \in IF status = "APPROVED" THEN {lastingOf, lastingOf \cup {r}}
                       ELSE {lastingOf}
    BY <2>2, <2>3, <2>4
  <2>7. grantsOf' = grantsOf /\ toldOf' = toldOf
    BY <2>1 DEF grantsOf, toldOf
  <2> QED
    BY <2>2, <2>3, <2>4, <2>5, <2>6, <2>7
       DEF Lifecycle!Decide, decisionOf, subjectOf, lastingOf, grantsOf, toldOf
<1> QED
  BY <1>1, <1>2

LEMMA TimeoutsExpire ==
    ASSUME TypeOK, ProcessTimeouts, NEW late, late = Overdue
    PROVE  Lifecycle!Expire(late)
<1>1. \A r \in Overdue : r \in Known /\ reqs[r].status = "PENDING" /\ reqs[r] \in Request
  BY RowOfKnown DEF Overdue
<1>2. /\ \A r \in Requests : reqs'[r] = IF r \in Overdue THEN Expired(reqs[r]) ELSE reqs[r]
      /\ UNCHANGED <<cached, notices>>
  BY DEF ProcessTimeouts
<1>3. \A r \in Overdue : /\ reqs'[r].subject = reqs[r].subject
                         /\ reqs'[r].status = "TIMEOUT" /\ reqs'[r] # None
  BY <1>1, <1>2, ExpiredRow, ApprovalAssumption DEF Known
<1>4. Known' = Known
  BY <1>1, <1>2, <1>3 DEF Known
<1>5. \A r \in Overdue : decisionOf[r] = "PENDING"
  BY <1>1 DEF decisionOf, Known
<1>6. decisionOf' = [r \in Requests |-> IF r \in Overdue THEN "TIMEOUT" ELSE decisionOf[r]]
  BY <1>1, <1>2, <1>3, <1>4 DEF decisionOf
<1>7. subjectOf' = subjectOf
  BY <1>2, <1>3, <1>4 DEF subjectOf
<1>8. \A r \in Requests : Permanent(r)' <=> Permanent(r)
  BY <1>1, <1>2, <1>3, <1>4 DEF Permanent
<1>9. lastingOf' = lastingOf /\ grantsOf' = grantsOf /\ toldOf' = toldOf
  BY <1>2, <1>8 DEF lastingOf, grantsOf, toldOf
<1> QED
  BY <1>5, <1>6, <1>7, <1>9
     DEF Lifecycle!Expire, decisionOf, subjectOf, lastingOf, grantsOf, toldOf

LEMMA TimeoutPassesUnseen ==
    ASSUME TypeOK, NEW r \in Requests, TimeoutPasses(r)
    PROVE  UNCHANGED Lifecycle!vars
<1>1. r \in Known /\ reqs[r] \in Request
  BY RowOfKnown DEF TimeoutPasses
<1>2. PICK row \in Request : /\ row = [reqs[r] EXCEPT !.late = TRUE]
                             /\ row.subject = reqs[r].subject /\ row.status = reqs[r].status
                             /\ row.permanent = reqs[r].permanent
  <2> DEFINE late == [reqs[r] EXCEPT !.late = TRUE]
  <2>1. /\ late \in Request /\ late.subject = reqs[r].subject
        /\ late.status = reqs[r].status /\ late.permanent = reqs[r].permanent
    BY <1>1 DEF Request
  <2> HIDE DEF late
  <2>2. \E row \in Request : /\ row = late
                             /\ row.subject = reqs[r].subject /\ row.status = reqs[r].status
                             /\ row.permanent = reqs[r].permanent
    BY <2>1
  <2> QED
    BY <2>2 DEF late
<1>3. reqs' = [reqs EXCEPT ![r] = row] /\ UNCHANGED <<cached, notices>>
  BY <1>2 DEF TimeoutPasses
<1>4. /\ subjectOf' = [subjectOf EXCEPT ![r] = row.subject]
      /\ decisionOf' = [decisionOf EXCEPT ![r] = row.status]
      /\ lastingOf' = IF row.status = "APPROVED" /\ row.permanent
                      THEN lastingOf \cup {r} ELSE lastingOf \ {r}
  BY <1>3, RowWritten
<1>5. subjectOf' = subjectOf /\ decisionOf' = decisionOf
  <2>1. /\ subjectOf[r] = row.subject /\ subjectOf = [q \in Requests |-> subjectOf[q]]
        /\ decisionOf[r] = row.status /\ decisionOf = [q \in Requests |-> decisionOf[q]]
    BY <1>1, <1>2 DEF subjectOf, decisionOf
  <2> QED
    BY <1>4, <2>1
<1>6. lastingOf' = lastingOf
  BY <1>1, <1>2, <1>4 DEF lastingOf, Permanent
<1>7. grantsOf' = grantsOf /\ toldOf' = toldOf
  BY <1>3 DEF grantsOf, toldOf
<1> QED
  BY <1>5, <1>6, <1>7
     DEF Lifecycle!vars, decisionOf, subjectOf, lastingOf, grantsOf, toldOf

LEMMA CacheGrants ==
    ASSUME ApprovalInv, NEW h \in Handlers, cacheApproval(h)
    PROVE  (\E r \in Requests : Lifecycle!Grant(r)) \/ UNCHANGED Lifecycle!vars
<1>1. PICK r \in Known : r = work[h].req /\ reqs[r] \in Request
  BY RequestOfWork, RowOfKnown DEF ApprovalInv, cacheApproval
<1>2. Permanent(r)
  BY <1>1 DEF ApprovalInv, CachingIsPermanent, cacheApproval
<1>3. CASE UNCHANGED cached
  BY <1>3, Invisible DEF cacheApproval, Fails
<1>4. CASE ~UNCHANGED cached
  <2>1. /\ cached' = [cached EXCEPT ![reqs[r].subject] = reqs[r].owner]
        /\ UNCHANGED <<reqs, notices>>
    BY <1>1, <1>4 DEF cacheApproval, Fails
  <2>2. reqs[r].subject \in Subjects /\ reqs[r].owner # None
    BY <1>1, ApprovalAssumption DEF Request
  <2>3. grantsOf' = grantsOf \cup {reqs[r].subject}
    BY <2>1, <2>2 DEF grantsOf, ApprovalInv, TypeOK
  <2>4. r \in Requests /\ r \in lastingOf /\ subjectOf[r] = reqs[r].subject
    BY <1>1, <1>2 DEF lastingOf, subjectOf, Known
  <2>5. /\ subjectOf' = subjectOf /\ decisionOf' = decisionOf
        /\ lastingOf' = lastingOf /\ toldOf' = toldOf
    BY <2>1 DEF subjectOf, decisionOf, lastingOf, toldOf, Known, Permanent
  <2>6. Lifecycle!Grant(r)
    BY <2>3, <2>4, <2>5
       DEF Lifecycle!Grant, decisionOf, subjectOf, lastingOf, grantsOf, toldOf
  <2> QED
    BY <2>4, <2>6
<1> QED
  BY <1>3, <1>4

LEMMA NotifyTells ==
    ASSUME TypeOK, NEW h \in Handlers, NotifyApprovalDecision(h)
    PROVE  (\E r \in Requests : Lifecycle!Tell(r)) \/ UNCHANGED Lifecycle!vars
<1>1. PICK r \in Known : r = work[h].req /\ reqs[r] \in Request
  BY RequestOfWork, RowOfKnown DEF NotifyApprovalDecision
<1>2. CASE UNCHANGED notices
  BY <1>2, Invisible DEF NotifyApprovalDecision, Fails
<1>3. CASE ~UNCHANGED notices
  <2>1. /\ notices' = notices \cup
                {Notice(r, reqs[r].subject.user, status) :
                    status \in {reqs[r].status} \cap {"APPROVED", "DENIED", "TIMEOUT"}}
        /\ UNCHANGED <<reqs, cached>>
    BY <1>1, <1>3 DEF NotifyApprovalDecision, Fails
  <2>2. reqs[r].status \in {"APPROVED", "DENIED", "TIMEOUT"}
    BY <1>3, <2>1
  <2>3. notices' = notices \cup {Notice(r, reqs[r].subject.user, reqs[r].status)}
    BY <2>1, <2>2
  <2>4. LET n == Notice(r, reqs[r].subject.user, reqs[r].status) IN
        n.req = r /\ n.status = reqs[r].status
    BY DEF Notice
  <2>5. toldOf' = toldOf \cup {<<r, reqs[r].status>>}
    BY <2>2, <2>3, <2>4 DEF toldOf
  <2>6. decisionOf[r] = reqs[r].status /\ r \in Requests
    BY <1>1 DEF decisionOf, Known
  <2>7. /\ subjectOf' = subjectOf /\ decisionOf' = decisionOf
        /\ lastingOf' = lastingOf /\ grantsOf' = grantsOf
    BY <2>1 DEF subjectOf, decisionOf, lastingOf, grantsOf, Known, Permanent
  <2>8. Lifecycle!Tell(r)
    BY <2>2, <2>5, <2>6, <2>7
       DEF Lifecycle!Tell, Lifecycle!Announced, decisionOf, subjectOf, lastingOf, grantsOf,
           toldOf
  <2> QED
    BY <2>6, <2>8
<1> QED
  BY <1>2, <1>3

LEMMA LifecycleStep ==
    ASSUME ApprovalInv, [Next]_vars
    PROVE  [Lifecycle!Next]_(Lifecycle!vars)
<1> USE DEF ApprovalInv
<1>1. ASSUME NEW r \in Requests, CreateRequest(r)
      PROVE  Lifecycle!Next
  BY <1>1, CreateOpens DEF Lifecycle!Next
<1>2. ASSUME NEW r \in Requests, TimeoutPasses(r)
      PROVE  UNCHANGED Lifecycle!vars
  BY <1>2, TimeoutPassesUnseen
<1>3. ASSUME NEW h \in Handlers, Approve(h) \/ Deny(h) \/ Cancel(h)
      PROVE  Lifecycle!Next \/ UNCHANGED Lifecycle!vars
  <2>1. work[h].pc = "shown"
    BY <1>3 DEF Approve, Deny, Cancel
  <2>2. PICK r \in Known : /\ r = work[h].req /\ r \in Requests
                           /\ reqs[r].permanent \in BOOLEAN
    BY <2>1, RequestOfWork, RowOfKnown DEF Request
  <2>3. PICK status \in {"APPROVED", "DENIED", "CANCELLED"}, permanent \in BOOLEAN :
            /\ status = "APPROVED" \/ permanent = reqs[r].permanent
            /\ \E w : Decide(h, r, status, permanent, w)
    BY <1>3, <2>2 DEF Approve, Deny, Cancel
  <2>4. Lifecycle!Decide(r, status) \/ UNCHANGED Lifecycle!vars
    BY <2>3, DecideDecides DEF Statuses
  <2>5. status \in Lifecycle!Final \ {"TIMEOUT"}
    BY DEF Lifecycle!Final
  <2> QED
    BY <2>2, <2>4, <2>5 DEF Lifecycle!Next
<1>4. ASSUME NEW h \in Handlers, cacheApproval(h)
      PROVE  Lifecycle!Next \/ UNCHANGED Lifecycle!vars
  BY <1>4, CacheGrants DEF Lifecycle!Next
<1>5. ASSUME NEW h \in Handlers, NotifyApprovalDecision(h)
      PROVE  Lifecycle!Next \/ UNCHANGED Lifecycle!vars
  BY <1>5, NotifyTells DEF Lifecycle!Next
<1>6. ASSUME ProcessTimeouts
      PROVE  Lifecycle!Next
  <2>1. PICK late \in SUBSET Requests : late = Overdue
    BY DEF Overdue, Known
  <2> QED
    BY <1>6, <2>1, TimeoutsExpire DEF Lifecycle!Next
<1>7. ASSUME NEW h \in Handlers, ShowList(h) \/ Evaluate(h) \/ CheckOwnership(h)
                 \/ CheckCache(h) \/ Answer(h)
      PROVE  UNCHANGED Lifecycle!vars
  BY <1>7, Invisible DEF ShowList, Evaluate, CheckOwnership, CheckCache, Answer
<1>8. ASSUME NEW f \in Files,
             DeleteOwnership(f)
                 \/ \E u \in Users : RegisterOwnership(f, u) \/ UpdateOwnership(f, u)
      PROVE  UNCHANGED Lifecycle!vars
  BY <1>8, Invisible DEF DeleteOwnership, RegisterOwnership, UpdateOwnership
<1>9. Restart \/ UNCHANGED vars => UNCHANGED Lifecycle!vars
  BY Invisible DEF Restart, vars
<1> QED
  BY <1>1, <1>2, <1>3, <1>4, <1>5, <1>6, <1>7, <1>8, <1>9 DEF Next

\* Whatever owners, cancellations, timeouts, failing statements and restarts do to
\* a request, the workflow keeps the promises of ApprovalLifecycle: it is decided
\* once, a grant comes from a permanent approval of the same subject, and an
\* announcement states the decision that stands (approval/workflow.go).
THEOREM Implements == Spec => ImplementsLifecycle
<1>1. ApprovalInv /\ [Next]_vars => [Lifecycle!Next]_(Lifecycle!vars)
  BY LifecycleStep
<1> QED
  BY <1>1, LifecycleInit, InvariantHolds, PTL DEF Spec, ImplementsLifecycle, Lifecycle!Spec

=============================================================================
