------------------------------- MODULE Console -------------------------------
(***************************************************************************)
(* The components behind the console's REST API, side by side.  They share  *)
(* no state, so a behaviour is about one of them: focus, chosen at the      *)
(* start, says which one takes steps.  The others rest in their initial     *)
(* states.  The module extends Approvals, which keeps its own names, and    *)
(* instantiates the other parts.                                            *)
(***************************************************************************)
EXTENDS Approvals

CONSTANTS
    IncidentIds, GivenStatuses, Batch, DlpRules, IncidentRequests,      \* Incidents
    KeywordIds, KeywordInputs, Csv, KeywordWrites,                      \* KeywordStore
    Samples, Answers, RuleIds, RuleInputs, RuleWrites,                  \* Classification
    UserIds, RoleIds, SystemRoles, Names, Admin, AdminRole, Perms, Lists,  \* Accounts
    PolicyIds, PolicyFields, PolicyValues,                              \* PolicyStore
    Addrs, SignIns, Burst, StaleAfter, TokenLife, Window,               \* ConsoleAccess
    BucketNames, Keys, AccountID, Label, Extractor, NameSays,           \* CloudScan
    Placeholders, Initial, Versions, Settings, Scans, MaxBuckets, MaxObjects, MaxObject, MaxSample,
    ConcurrentBuckets, ConcurrentObjects, CloudFaults, CloudWrites

VARIABLES focus,
          nIncs, nNotes, nLogs, nWork, nSends, nEdits, nAcked, nFaulty,
          kTable, kVersion, kMatcher, kWork, kEmptied,
          cTable, cVersion, cCache, cWork,
          uUsers, uRoles, uGrants, uAllows, uWork,
          pTable, pWork, pDeleted, pSerial, pOverlapped,
          sVisitors, sRecent, sInactive, sTokens, sSockets, sServed,
          tPc, tLeft, tFound, tContent, tStore, tListed, tWork, tFindings, tErrors, tTruncated,
          tAborted, tExpired, tFaults, tWritten

----------------------------------------------------------------------------
Incident == INSTANCE Incidents WITH
    Ids <- IncidentIds, Rules <- DlpRules, MaxRequests <- IncidentRequests,
    incs <- nIncs, notes <- nNotes, logs <- nLogs, work <- nWork, sends <- nSends,
    edits <- nEdits, acked <- nAcked, faulty <- nFaulty

Keyword == INSTANCE KeywordStore WITH
    Ids <- KeywordIds, Inputs <- KeywordInputs, MaxWrites <- KeywordWrites,
    table <- kTable, version <- kVersion, matcher <- kMatcher, work <- kWork,
    emptied <- kEmptied

Engine == INSTANCE Classification WITH
    Files <- Samples, MaxWrites <- RuleWrites,
    table <- cTable, version <- cVersion, cache <- cCache, work <- cWork

Account == INSTANCE Accounts WITH
    users <- uUsers, roles <- uRoles, grants <- uGrants, allows <- uAllows, work <- uWork

Policies == INSTANCE PolicyStore WITH
    Ids <- PolicyIds, Fields <- PolicyFields, Values <- PolicyValues,
    table <- pTable, work <- pWork, deleted <- pDeleted, serial <- pSerial,
    overlapped <- pOverlapped

Access == INSTANCE ConsoleAccess WITH
    Users <- SignIns,
    visitors <- sVisitors, recent <- sRecent, inactive <- sInactive, tokens <- sTokens,
    sockets <- sSockets, served <- sServed

Cloud == INSTANCE CloudScan WITH
    Names <- BucketNames, Requests <- Scans, MaxFaults <- CloudFaults, MaxWrites <- CloudWrites,
    pc <- tPc, left <- tLeft, found <- tFound, content <- tContent, store <- tStore,
    listed <- tListed, work <- tWork, findings <- tFindings, errors <- tErrors,
    truncated <- tTruncated, aborted <- tAborted, expired <- tExpired, faults <- tFaults, written <- tWritten

----------------------------------------------------------------------------
\* What the parts are given: None is no row, no bucket and no kind of role, a token's
\* life is a number of steps of the clock, an idle bucket is kept at least until it
\* would be full again, system roles are roles, keywords are keywords and a file of
\* them has at least one, a batch has events, requests name statuses the table
\* allows, and handlers are finitely many.
ASSUME ConsoleAssumption ==
    /\ None \notin [PolicyFields -> PolicyValues]
    /\ TokenLife \in Nat /\ Window \in Nat
    /\ Burst \in Nat /\ StaleAfter \in Nat /\ Burst <= StaleAfter
    /\ None \notin [left : 0..Burst, idle : 0..(StaleAfter + 1)]
    /\ SystemRoles \subseteq RoleIds /\ None # "system"
    /\ KeywordInputs \subseteq Keyword!Keyword
    /\ Csv \in Seq(Keyword!Keyword) \ {<<>>}
    /\ IsFiniteSet(Handlers)
    /\ Len(Batch) \in Nat \ {0} /\ DOMAIN Batch = 1..Len(Batch)
    /\ GivenStatuses \subseteq Incident!Statuses
    /\ None \notin Incident!Incident

\* What is in the cloud account: each object is in one bucket, and its sensitive
\* content, if any, is in one of its units; the account is not one of its buckets.
\* Each extractor shows, hides or fails to read what is in it; a name decides or not.
ASSUME CloudAssumption ==
    /\ BucketNames \in Seq(Cloud!Buckets) /\ AccountID \notin Cloud!Buckets \cup DOMAIN Initial
    /\ \A b \in Cloud!Buckets : Keys[b] \in Seq(DOMAIN Initial)
    /\ \A a, b \in Cloud!Buckets :
           a # b => Cloud!Range(Keys[a]) \cap Cloud!Range(Keys[b]) = {}
    /\ \A obj \in Cloud!Range(Initial) \cup Versions :
           obj # None => /\ obj.size \in Nat /\ obj.secret \in 0..obj.size
                         /\ obj.read \in [{"text", "format"} -> {"shown", "hidden", "unreadable"}]
    /\ \A o \in DOMAIN Initial : /\ o \in DOMAIN Label
                                  /\ Extractor[o] \in {"text", "format"}
                                  /\ NameSays[o] \in {"nothing", "public", "sensitive"}
    /\ {MaxBuckets, MaxObjects, MaxObject, MaxSample} \subseteq Nat

\* What the detectors see in a file, and what a provider may find: no two findings
\* of the detectors have one key, which says by whom and where they were found.
ASSUME FilesAssumption ==
    /\ \A f \in Samples :
           /\ {"size", "counts", "secrets", "findings", "bulk"} \subseteq DOMAIN f
           /\ f.size \in Nat /\ f.bulk \in BOOLEAN
           /\ f.counts \in [{Engine!CountWeight[n][1] : n \in DOMAIN Engine!CountWeight} -> Nat]
           /\ Len(f.findings) \in Nat /\ DOMAIN f.findings = 1..Len(f.findings)
           /\ \A m, n \in DOMAIN f.findings : f.findings[m].key = f.findings[n].key => m = n
    /\ \A answer \in Answers : Len(answer.findings) \in Nat

\* What the types of the parts rest on besides: bounds are numbers, users and roles
\* have different ids, and names and roles are those of the tables.
ASSUME TypesAssumption ==
    /\ {IncidentRequests, KeywordWrites, RuleWrites, CloudFaults} \subseteq Nat
    /\ UserIds \cap RoleIds = {} /\ Lists \subseteq SUBSET RoleIds
    /\ Admin \in Names /\ AdminRole \in SystemRoles
    /\ None \notin [name : Names, active : BOOLEAN]
    /\ None # "custom"
    /\ \A request \in Scans : request.content \in BOOLEAN

Parts == {"approvals", "incidents", "keywords", "classification", "accounts", "policies",
          "access", "cloud"}

nVars == <<nIncs, nNotes, nLogs, nWork, nSends, nEdits, nAcked, nFaulty>>
kVars == <<kTable, kVersion, kMatcher, kWork, kEmptied>>
cVars == <<cTable, cVersion, cCache, cWork>>
uVars == <<uUsers, uRoles, uGrants, uAllows, uWork>>
pVars == <<pTable, pWork, pDeleted, pSerial, pOverlapped>>
sVars == <<sVisitors, sRecent, sInactive, sTokens, sSockets, sServed>>
tVars == <<tPc, tLeft, tFound, tContent, tStore, tListed, tWork, tFindings, tErrors, tTruncated,
           tAborted, tExpired, tFaults, tWritten>>
consoleVars == <<focus, vars, nVars, kVars, cVars, uVars, pVars, sVars, tVars>>

ConsoleInit ==
    /\ focus \in Parts
    /\ Init /\ Incident!Init /\ Keyword!Init /\ Engine!Init /\ Account!Init
    /\ Policies!Init /\ Access!Init /\ Cloud!Init

ConsoleNext ==
    \/ /\ focus = "approvals" /\ Next
       /\ UNCHANGED <<focus, nVars, kVars, cVars, uVars, pVars, sVars, tVars>>
    \/ /\ focus = "incidents" /\ Incident!Next
       /\ UNCHANGED <<focus, vars, kVars, cVars, uVars, pVars, sVars, tVars>>
    \/ /\ focus = "keywords" /\ Keyword!Next
       /\ UNCHANGED <<focus, vars, nVars, cVars, uVars, pVars, sVars, tVars>>
    \/ /\ focus = "classification" /\ Engine!Next
       /\ UNCHANGED <<focus, vars, nVars, kVars, uVars, pVars, sVars, tVars>>
    \/ /\ focus = "accounts" /\ Account!Next
       /\ UNCHANGED <<focus, vars, nVars, kVars, cVars, pVars, sVars, tVars>>
    \/ /\ focus = "policies" /\ Policies!Next
       /\ UNCHANGED <<focus, vars, nVars, kVars, cVars, uVars, sVars, tVars>>
    \/ /\ focus = "access" /\ Access!Next
       /\ UNCHANGED <<focus, vars, nVars, kVars, cVars, uVars, pVars, tVars>>
    \/ /\ focus = "cloud" /\ Cloud!Next
       /\ UNCHANGED <<focus, vars, nVars, kVars, cVars, uVars, pVars, sVars>>

ConsoleSpec == ConsoleInit /\ [][ConsoleNext]_consoleVars

----------------------------------------------------------------------------
(* The properties of the parts, under the names of their modules; those of   *)
(* Approvals are in its module.  A part that rests is in its initial state,   *)
(* which is also the first state of the behaviours about it, so each property *)
(* is evaluated where its part moves.                                         *)

\* Every part keeps its types.
PartsTypeOK ==
    /\ focus \in Parts
    /\ focus = "approvals" => TypeOK
    /\ focus = "incidents" => Incident!TypeOK
    /\ focus = "keywords" => Keyword!TypeOK
    /\ focus = "classification" => Engine!TypeOK
    /\ focus = "accounts" => Account!TypeOK
    /\ focus = "policies" => Policies!TypeOK
    /\ focus = "access" => Access!TypeOK
    /\ focus = "cloud" => Cloud!TypeOK

\* The notes of an incident explain its status (incidents/manager.go).
StatusExplained == focus = "incidents" => Incident!StatusExplained

\* A batch that was acknowledged is logged (events.go, ReceiveEventBatch).
AckedIsStored == focus = "incidents" => Incident!AckedIsStored

\* A keyword test ends unless an update stored an empty keyword, and uses a list no
\* older than when it began, or than one being loaded then (keywords/manager.go,
\* matcher.go).
TestsAnswer == focus = "keywords" => Keyword!TestsAnswer

\* The provider takes no hard evidence away, and a late answer changes nothing
\* (classification/findings.go, orchestrator.go).
ProviderBounded == focus = "classification" => Engine!ProviderBounded

\* More evidence never lowers the level (classification_engine.go, the phases).
MoreEvidenceNeverLowers == focus = "classification" => Engine!MoreEvidenceNeverLowers

\* A stored rule is applied once its request is answered (rule_engine.go).
OwnRuleApplies == focus = "classification" => Engine!OwnRuleApplies

\* System roles stay as they are, and an undisturbed update leaves the list it was
\* asked for, mixed with the old one as far as its own statements failed (users.go,
\* UpdateUser, UpdateRole, DeleteRole).
RolesExact == focus = "accounts" => Account!RolesExact

\* Updates that do not overlap lose nothing, and what is deleted stays so
\* (rest.go, updatePolicy and deletePolicy).
ChangesLast == focus = "policies" => Policies!ChangesLast

\* No address gets more than one burst in a window (ratelimit.go, allow, cleanup).
AttemptsBounded == focus = "access" => Access!AttemptsBounded

\* A deactivated account has no request and no new connection let through after a
\* token's life; connections it has stay open (auth.go, handleLogin; rest.go).
RevocationBounded == focus = "access" => Access!RevocationBounded

\* An object reported as clean was read to its end, unless its name decided or its
\* text hides what it holds, and the posture reported is that of the settings
\* (aws/content.go, posture.go).
VerdictsTrue == focus = "cloud" => Cloud!VerdictsTrue

\* No object with content and no check is passed over in silence (aws/content.go,
\* scanObject, ScanContent).
AllAccounted == focus = "cloud" => Cloud!AllAccounted

=============================================================================
