----------------------------- MODULE CloudScan -----------------------------
(***************************************************************************)
(* One scan of an AWS account: backend/internal/api/cloud.go and            *)
(* dspm/cloud/aws/{connector,discovery,posture,content}.go; what content.go  *)
(* asks of classification/{scanner,classification_engine}.go about an object *)
(* is in the constants.                                                     *)
(*                                                                         *)
(* The posture of the buckets is assessed check by check.  Then a goroutine *)
(* for each bucket lists its objects and samples one after the other: the   *)
(* head, then a download within limits.  The goroutines share the result,   *)
(* the slots for downloads and the deadline of the scan, and the owner of   *)
(* the account goes on writing to it.  A call of the AWS API is a step; any *)
(* may fail, and all do once the deadline has passed.                       *)
(***************************************************************************)
EXTENDS Filtering, FiniteSets, Functions

CONSTANTS
    Names,      \* the names of the buckets, sorted
    Keys,       \* Keys[b]: the objects that may be in bucket b, sorted by key
    AccountID,  \* the account
    Label,      \* Label[o]: the format that name and content type suggest
    Extractor,  \* Extractor[o]: "text" or "format", what reads files with this extension
    NameSays,   \* NameSays[o]: "public" or "sensitive" if the name alone decides, else "nothing"
    Placeholders,  \* the keys that end in a slash
    Initial,    \* the objects at first: [size, secret, magic, archived, read]
    Versions,   \* what a write may leave in place of an object; None deletes it
    Settings,   \* Settings[r][check] of the account and of each bucket
    Requests,   \* the scans asked for: [posture, content]
    MaxBuckets, MaxObjects, MaxObject, MaxSample,  \* limits of the request
    ConcurrentBuckets, ConcurrentObjects,          \* limits of the server
    None,       \* no object
    MaxFaults,  \* bound: calls that fail
    MaxWrites   \* bound: objects the owner writes

VARIABLES
    pc,        \* where the handler is
    left,      \* what its loop has still to do
    found,     \* the buckets discovered
    content,   \* whether the content is to be scanned
    store,     \* the objects in the account
    listed,    \* size and storage class of each object as the list gave them
    work,      \* what the goroutine of each bucket is doing
    findings, errors, truncated,  \* the result
    aborted,   \* a goroutine returned an error
    expired,   \* the deadline has passed
    faults,    \* calls that failed so far
    written    \* the objects written so far

result == <<findings, errors, truncated>>
vars == <<pc, left, found, content, store, listed, work, result, aborted, expired, faults, written>>

----------------------------------------------------------------------------
Buckets == Range(Names)
Idle == [pc |-> "idle"]

\* Key g of the bucket is sorted before key o.
Before(b, g, o) == \E m, n \in DOMAIN Keys[b] : Keys[b][m] = g /\ Keys[b][n] = o /\ m < n
Least(m, n) == IF m <= n THEN m ELSE n
FirstOf(s, n) == SubSeq(s, 1, Least(n, Len(s)))

Succeeds == ~expired /\ UNCHANGED faults
Fails == \/ expired /\ UNCHANGED faults
         \/ ~expired /\ faults < MaxFaults /\ faults' = faults + 1

Error(scope, resource) == errors' = errors \cup {[scope |-> scope, resource |-> resource]}

Init ==
    /\ pc = "asked"
    /\ left = <<>>
    /\ found = {}
    /\ content = FALSE
    /\ store = Initial
    /\ listed = [o \in DOMAIN Initial |-> [size |-> 0, archived |-> FALSE]]
    /\ work = [b \in Buckets |-> Idle]
    /\ findings = {} /\ errors = {} /\ truncated = FALSE
    /\ aborted = FALSE
    /\ expired = FALSE
    /\ faults = 0
    /\ written = {}

\* POST /api/v1/cloud/aws/s3/scan: the credentials are tried before the scan.
HandleAWSS3Scan ==
    /\ pc = "asked"
    /\ \/ Succeeds /\ \E request \in Requests :
              /\ content' = request.content
              /\ pc' = IF request.posture THEN "account"
                       ELSE IF request.content THEN "buckets" ELSE "done"
       \/ Fails /\ pc' = "refused" /\ UNCHANGED content
    /\ UNCHANGED <<left, found, store, listed, work, result, aborted, expired, written>>

----------------------------------------------------------------------------
(* Posture *)

BucketChecks == <<"public-access-block", "public-policy", "public-acl", "ownership-controls",
                  "encryption", "versioning", "object-lock", "logging", "lifecycle">>

\* What a check makes of the answer.  A setting that is not configured counts
\* against the bucket, save for its policy; an unknown algorithm does not.
Good(check) == IF check = "public-policy" THEN {"on", "absent"} ELSE {"on"}
Outcome(check, answer) ==
    CASE answer \in {"denied", "error", "odd"} -> "unknown"
      [] answer \in Good(check) -> "compliant"
      [] OTHER -> "noncompliant"

Assess(resource, check) ==
    \E answer \in {Settings[resource][check], "denied", "error"} :
        /\ IF answer = Settings[resource][check] THEN Succeeds
           ELSE Fails /\ (expired => answer = "error")
        /\ findings' = findings \cup
               {[rule |-> check, resource |-> resource, status |-> Outcome(check, answer)]}
        /\ IF answer = "error" THEN Error("posture", resource) ELSE UNCHANGED errors
        /\ UNCHANGED truncated

assessAccountPosture ==
    /\ pc = "account"
    /\ Assess(AccountID, "public-access-block")
    /\ pc' = "posture-buckets"
    /\ UNCHANGED <<left, found, content, store, listed, work, aborted, expired, written>>

\* The deadline is looked at between buckets, not between checks.
assessBucketPosture ==
    /\ pc = "posture" /\ left # <<>>
    /\ IF expired /\ Head(left)[2] = BucketChecks[1]
       THEN /\ Error("posture", "cancelled")
            /\ left' = <<>>
            /\ UNCHANGED <<findings, truncated, faults>>
       ELSE /\ Assess(Head(left)[1], Head(left)[2])
            /\ left' = Tail(left)
    /\ UNCHANGED <<pc, found, content, store, listed, work, aborted, expired, written>>

ScanPosture ==
    /\ pc = "posture" /\ left = <<>>
    /\ pc' = IF content THEN "buckets" ELSE "done"
    /\ UNCHANGED <<left, found, content, store, listed, work, result, aborted, expired, faults,
                   written>>

----------------------------------------------------------------------------
(* Discovery, for either scan *)

Listing == pc \in {"posture-buckets", "buckets"}
Locating == pc \in {"posture-regions", "regions"}
Then(posturePc, contentPc) == IF pc \in {"posture-buckets", "posture-regions"} THEN posturePc
                              ELSE contentPc

\* The first buckets by name; without a list the scan goes on with none.
ListBuckets ==
    /\ Listing
    /\ found' = {}
    /\ \/ /\ Succeeds
          /\ left' = FirstOf(Names, MaxBuckets)
          /\ truncated' = (truncated \/ Len(Names) > MaxBuckets)
          /\ UNCHANGED errors
       \/ Fails /\ Error("discovery", "buckets") /\ left' = <<>> /\ UNCHANGED truncated
    /\ pc' = Then("posture-regions", "regions")
    /\ UNCHANGED <<content, store, listed, work, findings, aborted, expired, written>>

\* bucketRegion; a bucket without one is left out.
LocateBucket ==
    /\ Locating /\ left # <<>>
    /\ \/ Succeeds /\ found' = found \cup {Head(left)} /\ UNCHANGED errors
       \/ Fails /\ Error("discovery", Head(left)) /\ UNCHANGED found
    /\ left' = Tail(left)
    /\ UNCHANGED <<pc, content, store, listed, work, findings, truncated, aborted, expired,
                   written>>

\* Every check of every bucket of the list, bucket by bucket.
ChecksOf(list) ==
    LET checks == Len(BucketChecks)
    IN  [n \in 1..Len(list) * checks |->
            <<list[((n - 1) \div checks) + 1], BucketChecks[((n - 1) % checks) + 1]>>]

Discovered ==
    /\ Locating /\ left = <<>>
    /\ pc' = Then("posture", "content")
    /\ left' = IF pc = "posture-regions"
               THEN ChecksOf(Without(Names, Buckets \ found)) ELSE <<>>
    /\ work' = IF pc = "regions"
               THEN [b \in Buckets |-> IF b \in found THEN [pc |-> "ready"] ELSE Idle]
               ELSE work
    /\ UNCHANGED <<found, content, store, listed, result, aborted, expired, faults, written>>

----------------------------------------------------------------------------
(* Content *)

Goto(b, w) == work' = [work EXCEPT ![b] = w]
Busy(states) == {b \in Buckets : work[b].pc \in states}
AtNext(todo) == [pc |-> "next", todo |-> todo]
Sampling(to, w, size, as, stale) ==
    [pc |-> to, todo |-> w.todo, size |-> size, as |-> as, stale |-> stale]
Rest == <<pc, left, found, content, store, listed, aborted, expired, written>>

\* g.Go waits for one of the slots for buckets.
StartBucket(b) ==
    /\ work[b].pc = "ready"
    /\ Cardinality(Buckets \ Busy({"idle", "ready", "end"})) < ConcurrentBuckets
    /\ Goto(b, [pc |-> "list", got |-> <<>>])
    /\ UNCHANGED <<Rest, result, faults>>

\* A page of the list; the service decides how many keys it holds.  Objects that
\* come and go meanwhile are in it or not.
listObjects(b) ==
    /\ work[b].pc = "list"
    /\ LET got == work[b].got
           more == Without(Keys[b], {o \in Range(Keys[b]) :
                                         \/ store[o] = None
                                         \/ \E g \in Range(got) : ~Before(b, g, o)})
       IN  \/ /\ Len(got) >= MaxObjects
              /\ truncated' = TRUE
              /\ Goto(b, AtNext(got))
              /\ UNCHANGED <<listed, findings, errors, faults>>
           \/ /\ Len(got) < MaxObjects /\ Fails
              /\ Error("content", b)
              /\ Goto(b, AtNext(got))
              /\ UNCHANGED <<listed, findings, truncated>>
           \/ /\ Len(got) < MaxObjects /\ Succeeds
              /\ \E size \in Least(1, Len(more))..Len(more) :
                     LET all == got \o SubSeq(more, 1, size)
                     IN  /\ truncated' = (truncated \/ Len(all) > MaxObjects)
                         /\ Goto(b, IF size < Len(more)
                                    THEN [pc |-> "list", got |-> FirstOf(all, MaxObjects)]
                                    ELSE AtNext(FirstOf(all, MaxObjects)))
                         /\ listed' = [o \in DOMAIN listed |->
                                         IF o \in Range(SubSeq(more, 1, size))
                                         THEN [size |-> store[o].size,
                                               archived |-> store[o].archived]
                                         ELSE listed[o]]
              /\ UNCHANGED <<findings, errors>>
    /\ UNCHANGED <<pc, left, found, content, store, aborted, expired, written>>

NextObject_Silent(b) ==
    /\ work[b].pc = "next"
    /\ Goto(b, IF work[b].todo = <<>> \/ expired THEN [pc |-> "end"]
               ELSE [pc |-> "head", todo |-> work[b].todo])
    /\ UNCHANGED <<Rest, result, faults>>
NextObject(b) ==
    /\ work[b].pc = "next"
    /\ IF work[b].todo = <<>> THEN Goto(b, [pc |-> "end"]) /\ UNCHANGED aborted
       ELSE IF expired THEN Goto(b, [pc |-> "end"]) /\ aborted' = TRUE
       ELSE Goto(b, [pc |-> "head", todo |-> work[b].todo]) /\ UNCHANGED aborted
    /\ UNCHANGED <<pc, left, found, content, store, listed, result, expired, faults, written>>

\* The outcome for the object, appended to the result under its lock.
Reports(b, status, clean, read, stale) ==
    /\ findings' = findings \cup
           {[rule |-> "object-content", resource |-> Head(work[b].todo), status |-> status,
             clean |-> clean, read |-> read, stale |-> stale]}
    /\ Goto(b, AtNext(Tail(work[b].todo)))
    /\ UNCHANGED <<errors, truncated>>
ReportsError(b) ==
    /\ Error("content", Head(work[b].todo))
    /\ Goto(b, AtNext(Tail(work[b].todo)))
    /\ UNCHANGED <<findings, truncated>>

SkippedAs(b, stale) == Reports(b, "unsupported", FALSE, "unreadable", stale)

\* HeadObject: passed over without a word is what is gone, what is empty now and was
\* in the list, and what has the key of a directory.  A structured format is not
\* sampled if it is too large.
HeadObject(b) ==
    /\ work[b].pc = "head"
    /\ LET o == Head(work[b].todo)
           obj == store[o]
           size == IF obj.size = 0 THEN listed[o].size ELSE obj.size
       IN  \/ Fails /\ ReportsError(b)
           \/ /\ Succeeds
              /\ IF obj = None \/ o \in Placeholders \/ size = 0
                 THEN Goto(b, AtNext(Tail(work[b].todo))) /\ UNCHANGED result
                 ELSE IF obj.archived \/ listed[o].archived
                         \/ (Label[o] = "structured" /\ size > MaxObject)
                 THEN SkippedAs(b, FALSE)
                 ELSE /\ Goto(b, Sampling("slot", work[b], size, Label[o], FALSE))
                      /\ UNCHANGED result
    /\ UNCHANGED Rest

\* A slot for the download, or the deadline; if both are there, either.
TakeSlot(b) ==
    /\ work[b].pc = "slot"
    /\ \/ /\ Cardinality(Busy({"get"})) < ConcurrentObjects
          /\ Goto(b, [work[b] EXCEPT !.pc = "get"])
          /\ UNCHANGED result
       \/ expired /\ SkippedAs(b, work[b].stale)
    /\ UNCHANGED <<Rest, faults>>

\* Whether a sample is taken to be the whole object: by the size HeadObject saw.
Whole_Always(as, size) == TRUE
Whole(as, size) == as = "structured" \/ size <= MaxSample

\* What an extractor makes of an object: text that shows what is in it, text that
\* hides it (entries of a container that cannot be read are skipped, and its bytes
\* may pass for text), or an error.  Nothing is text, but in no other format.
Read(o, obj) ==
    IF obj # None THEN obj.read[Extractor[o]]
    ELSE IF Extractor[o] = "text" THEN "shown" ELSE "unreadable"

\* ExtractText, ClassifyWithContent and the finding.  A name that decides is not
\* overruled by the text.
classificationFinding(o, text, sensitive, whole) ==
    IF text = "unreadable" THEN "unknown"
    ELSE IF \/ NameSays[o] = "sensitive"
            \/ NameSays[o] = "nothing" /\ text = "shown" /\ sensitive
    THEN "noncompliant"
    ELSE IF whole THEN "compliant" ELSE "unknown"

\* downloadObject and the rest of scanObject.  An object that is gone leaves an
\* empty sample that counts for no part of it; no range can be had of an empty one.
\* A container under a plain name is recognised in the sample and downloaded again,
\* as a whole, but still read as its extension says.  The secret may be behind the
\* n units read.
downloadObject(b) ==
    /\ work[b].pc = "get"
    /\ LET w == work[b]
           o == Head(w.todo)
           obj == store[o]
           limit == IF w.as = "structured" THEN MaxObject ELSE Least(w.size, MaxSample)
       IN  \/ Fails /\ ReportsError(b)
           \/ /\ Succeeds
              /\ IF obj = None
                 THEN Reports(b, classificationFinding(o, Read(o, obj), FALSE, FALSE), TRUE,
                              Read(o, obj), w.stale)
                 ELSE IF w.as = "plain" /\ obj.size = 0 THEN ReportsError(b)
                 ELSE IF \/ w.as = "structured" /\ obj.size > MaxObject
                         \/ w.as = "plain" /\ obj.magic /\ w.size > MaxObject
                 THEN SkippedAs(b, w.stale)
                 ELSE IF w.as = "plain" /\ obj.magic
                 THEN Goto(b, Sampling("slot", w, w.size, "structured", w.stale))
                      /\ UNCHANGED result
                 ELSE Reports(b, classificationFinding(o, Read(o, obj),
                                                       obj.secret \in 1..Least(obj.size, limit),
                                                       Whole(w.as, w.size)),
                              obj.secret = 0, Read(o, obj), w.stale)
    /\ UNCHANGED Rest

\* g.Wait; the result of both scans is answered.
ScanContent ==
    /\ pc = "content" /\ Busy({"idle", "end"}) = Buckets
    /\ IF aborted THEN Error("content", "cancelled") ELSE UNCHANGED errors
    /\ pc' = "done"
    /\ UNCHANGED <<left, found, content, store, listed, work, findings, truncated, aborted, expired,
                   faults, written>>

----------------------------------------------------------------------------
\* ScanTimeout passes, or the caller hangs up.
Expire ==
    /\ pc \notin {"done", "refused"} /\ ~expired
    /\ expired' = TRUE
    /\ UNCHANGED <<pc, left, found, content, store, listed, work, result, aborted, faults, written>>

\* The owner writes or deletes an object; a download on its way is now stale.
WriteObject(b, o, version) ==
    /\ pc = "content" /\ Cardinality(written) < MaxWrites /\ store[o] # version
    /\ store' = [store EXCEPT ![o] = version]
    /\ written' = written \cup {o}
    /\ work' = IF work[b].pc \in {"slot", "get"} /\ Head(work[b].todo) = o
               THEN [work EXCEPT ![b].stale = TRUE] ELSE work
    /\ UNCHANGED <<pc, left, found, content, listed, result, aborted, expired, faults>>

Next ==
    \/ HandleAWSS3Scan \/ assessAccountPosture \/ assessBucketPosture \/ ScanPosture
    \/ ListBuckets \/ LocateBucket \/ Discovered \/ ScanContent \/ Expire
    \/ \E b \in Buckets :
           \/ StartBucket(b) \/ listObjects(b) \/ NextObject(b) \/ HeadObject(b)
           \/ TakeSlot(b) \/ downloadObject(b)
           \/ \E o \in Range(Keys[b]), version \in Versions : WriteObject(b, o, version)

Spec == Init /\ [][Next]_vars

----------------------------------------------------------------------------
Statuses == {"compliant", "noncompliant", "unknown", "unsupported"}
Contents == {f \in findings : f.rule = "object-content"}

TypeOK ==
    /\ pc \in {"asked", "refused", "account", "posture-buckets", "posture-regions", "posture",
               "buckets", "regions", "content", "done"}
    /\ found \subseteq Buckets
    /\ \A b \in Buckets : work[b].pc \in {"idle", "ready", "list", "next", "head", "slot",
                                          "get", "end"}
    /\ \A f \in findings : f.status \in Statuses
    /\ {content, truncated, aborted, expired} \subseteq BOOLEAN
    /\ faults \in 0..MaxFaults /\ written \subseteq DOMAIN store

\* An object reported as compliant had no sensitive content when it was read, and
\* one reported as not compliant had, unless it was replaced between HeadObject
\* and its download: a prefix is never used to call an object clean, whatever its
\* name says of its format.  Excepted are the names that decide by themselves, and
\* text that hides what is in the object (scanObject, classificationFinding).
CleanIsWhole ==
    \A f \in Contents : ~f.stale =>
        /\ f.status = "compliant" =>
               f.clean \/ NameSays[f.resource] = "public" \/ f.read = "hidden"
        /\ f.status = "noncompliant" => ~f.clean \/ NameSays[f.resource] = "sensitive"

Said(scope, resource) == [scope |-> scope, resource |-> resource] \in errors
Undiscovered(b) == Said("discovery", "buckets") \/ Said("discovery", b)
Reported(b, check) == \E f \in findings : f.resource = b /\ f.rule = check

ObjectsAccounted(b) ==
    content /\ ~Undiscovered(b) /\ ~Said("content", b) /\ ~Said("content", "cancelled") =>
        \A o \in Range(Keys[b]) :
            \/ Initial[o] = None \/ o \in written
            \/ o \in Placeholders \/ Initial[o].size = 0
            \/ \E f \in Contents : f.resource = o
            \/ Said("content", o)
ChecksAccounted(b) ==
    (\E f \in findings : f.resource = AccountID) /\ ~Undiscovered(b)
      /\ ~Said("posture", "cancelled")
        => \A check \in Range(BucketChecks) : Reported(b, check)

\* Little is passed over in silence: when a content scan is answered, every object
\* that was there from the start and was left alone, has content and does not have
\* the key of a directory, has a finding or an error of its own, or an error of its
\* bucket, of discovery or of the deadline, or the flag, says that the scan is not
\* complete (ScanContent, scanObject).  The same of the checks of a bucket
\* (ScanPosture).
AllAccounted ==
    pc = "done" /\ ~truncated =>
        \A b \in Buckets : ObjectsAccounted(b) /\ ChecksAccounted(b)

\* A check blames a bucket only for a setting that is off or missing, and clears
\* it only if the setting is on (or there is no policy to be public), whatever
\* calls were denied, failed or came too late (assessBucketPosture).
PostureTrue ==
    \A f \in findings \ Contents :
        /\ f.status = "noncompliant" => Settings[f.resource][f.rule] # "on"
        /\ f.status = "compliant" => Settings[f.resource][f.rule] \in Good(f.rule)

\* What a finding says of an object or a setting was so, but for the exceptions of
\* CleanIsWhole: neither a sample that is not the whole object nor a call that was
\* denied or failed becomes a verdict (scanObject, assessBucketPosture).
VerdictsTrue == CleanIsWhole /\ PostureTrue

=============================================================================
