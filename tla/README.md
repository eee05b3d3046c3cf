# A TLA+ verification of Manara DLP

Manara is a data-loss-prevention system: a Go backend with a web console, and a
Windows agent (C++ service and kernel minifilter) on every endpoint. This
directory holds TLA+ models of its stateful parts, TLC configurations that check
them on small instances, and proofs checked by TLAPS for every instance.
`PROJECT.json` is the index: components, runs, the source lines behind every
definition, findings, hazards and theorems.

## 1. Inventory

### Backend (`src/backend`)

| Component | State | Operations | What is hard | What makes it correct |
|---|---|---|---|---|
| Device registry, `api/devices.go` | the map `dm.devices`, the `devices` table | register, heartbeat, discovery, delete all, status updater, reload at start | two copies, one lock, writes outside it, retries, restarts | the copies agree unless a statement failed; no device vanishes or is doubled; silence is noticed |
| Directory synchronisation, `api/ad_sync.go` | the same table | one lookup and one write per computer | runs beside registrations, outside the lock | never disturbs what the registry relies on |
| Network discovery, `discovery/service.go` | progress, found devices, in-progress flag, cancel function | start, stop, progress, four scan phases, worker pool | start and stop race with the scan goroutine and its workers | never wedged, one scan at a time, coherent report |
| WebSocket hub, `websocket/` | client set, index by user, one channel per client, broadcast queue | register, unregister, broadcast, pumps | closing channels others send on, full buffers, broken peers | no panic, exact index, order, no blocked publisher |
| Event ingestion, `api/events.go` | `event_logs`, `incidents` | batch insert, rule check, incident | partial failure inside a batch, repeated batches | acknowledged means logged, as far as statements succeed |
| Approval workflow, `approval/`, `api/approvals.go` | requests, cached approvals, notices | create, approve, deny, cancel, time out | decisions race with each other and with the timeout; the cached approval is written apart | a request is decided once; what is announced stands; a grant has an approval behind it |
| Policy engine and ownership, `policy/engine.go`, `ownership/` | owners of files | evaluate, register, replace, delete | every lookup can fail and is replaced by a default | an operation is allowed for an earlier approval only if that approval reaches it |
| Incidents, `incidents/`, `api/incidents.go` | incidents, notes | create, change status, assign, escalate, resolve, note | read-then-write, a note apart from its change, two writers with different columns | the notes explain the status; a list shows what the total counts |
| Keyword lists, `keywords/` | table, compiled matcher | create, update, delete, import, test, reload | reloads overtake each other; the matcher's lock | a test uses a list no older than its start; only an update can store what never matches to an end |
| Classification, `classification/` | rules, their cached form | phases, provider, merge of findings, rules | thresholds, a provider that is late or wrong, rule changes meanwhile | hard evidence survives; late answers do not count; more evidence never lowers the score |
| Users and roles, `api/users.go` | users, roles, two relations | create, update, delete | one statement at a time, errors ignored and answered as success | what a list can be after its update, failed statements included; system roles kept |
| Policies, `policy/service.go`, `api/rest.go` | table | create, update, delete | read, change, write back | serial unless updates overlap; what is deleted stays so |
| Sign-in, `api/auth.go`, `ratelimit.go`, `AuthMiddleware` | a token bucket per address, tokens, open WebSocket connections | allow, cleanup, log in, validate, connect, push | first request, eviction, accounts changed after the token was signed | attempts are bounded, and so is what a token opens after a deactivation |
| Cloud scan, `dspm/cloud/aws`, `api/cloud.go` | one result shared by goroutines | discover, check settings, list, head, download | denied calls, limits, a deadline, objects that change, names that decide | what is passed over silently is known; clean means read as a whole |
| Handlers that keep everything in memory, `api/events_inmemory.go`, `in_memory_rules.go` | events, incidents, rules | the same without a database | nothing: no start reaches them | not modelled |
| Routing, telemetry service, alerts, licence, settings, start-up | little or none | I/O | | |

### Agent (`src/agent`)

| Component | State | Operations | What is hard | What makes it correct |
|---|---|---|---|---|
| Event pipeline: `DLPAgent`, `TelemetryCollector`, `LocalCache`, `SecureComm` | two queues, sender batch, SQLite outbox, connection flag | produce, process, collect, post, store, sync, start, stop | five threads, outages, lost replies, crash, shutdown order | an event is never lost or doubled silently; it reaches the backend |
| Enrolment and heartbeat | device id and token | register, beat, re-register | lost replies, reclaimed records | the registry stays current |
| Kernel channel, minifilter | policy cache, tainted processes, event queue | lookup, expire, block, notify | limits, expiry, interrupt level | a protected file is blocked |
| Quarantine manager | vault, table | move, restore | failure between two steps | a file is never in neither place |
| Policy engine, clipboard monitor, notification, inspection | rules, a bounded queue | match, enqueue | swap under load, overflow | |

**Interaction.** Agents call the backend over HTTP: registration, heartbeats,
event batches, policy download. The handlers share the database and, for
devices, one in-memory map. Handlers and background goroutines publish to the
hub, which pushes to the consoles. In the agent, the kernel callback and the
drive monitor feed the event loop and the collector; only the telemetry sender
touches the network path and the outbox.

The console (`src/frontend`), the installers and the tools hold no protocol
state and are not modelled.

## 2. Modules

| Module | Models | Composed with |
|---|---|---|
| `DeviceRegistry` | registry, status updater, directory synchronisation, enrolling agents, `ReceiveEventBatch`'s touch of the device row | the agents and the backend in one module |
| `DeviceRegistryProofs` | theorems about it | extends `DeviceRegistry` |
| `DiscoveryScan` | discovery service, its HTTP handlers, scan goroutines and port workers | |
| `DiscoveryScanProofs` | theorems about it | extends `DiscoveryScan`, `FilteringProofs` |
| `Filtering` | what is left of a sequence when some elements go (a frame's messages, the LRU list, a goroutine's keys) | extended by `WSHub`, `PolicyCache` and `CloudScan` |
| `FilteringProofs` | what it computes, and induction over an interval of numbers | extends `Filtering` |
| `WSHub` | hub, client pumps, publishers | |
| `WSHubProofs` | theorems about it | extends `WSHub`, `FilteringProofs` |
| `EventPipeline` | the agent's event path with the backend's batch handler | agent, network and backend in one module |
| `EventPipelineProofs` | theorems about it | extends `EventPipeline` |
| `PolicyCache` | the minifilter's policy cache and the port messages that change it | threads of the service and file system callbacks in one module |
| `PolicyCacheProofs` | theorems about it | extends `PolicyCache`, `FilteringProofs` |
| `ApprovalLifecycle` | what the approval workflow promises (abstract) | implemented by `Approvals` |
| `Approvals`, `PolicyEngine` | approval workflow, notifier, ownership, evaluation of a file event | `Approvals` extends `PolicyEngine` and instantiates `ApprovalLifecycle` |
| `ApprovalsProofs` | theorems about them | extends `Approvals` |
| `Incidents` | incident manager and the batch handler that opens incidents | the two writers of the table in one module |
| `KeywordStore` | keyword service, matcher, handlers | |
| `Classification`, `Findings` | engine, provider, rules; the merge of findings | `Classification` extends `Findings` |
| `Accounts` | users, roles, permissions, the administrator at start | |
| `PolicyStore` | policies and their handlers | |
| `ConsoleAccess` | rate limiter, tokens, gate before the handlers, WebSocket connections as far as their token goes | |
| `CloudScan` | one scan of an AWS account | the scan and the owner of the account |
| `Console` | the eight parts behind the console's API, with their properties | extends `Approvals`, instantiates the other seven |
| `ConsoleProofs` | theorems about the seven parts it instantiates, and the types of all eight | extends `Console`, `ApprovalsProofs`, `FilteringProofs` and the library's theorems on finite sets and sequences |

`MC...` modules name model values and symmetry sets. `Console` puts the eight
components behind the console's API together. They share no state: `focus`, chosen in
the first state, says which of them takes steps while the others rest in their
initial states, so one run explores the union of eight state spaces, not their
product.

### DeviceRegistry

`mem` is `dm.devices`, `db` the `devices` table, both functions from ids to a
record or `None`; a record keeps hostname, address, status and the age of
`LastSeen`. `req` holds the requests being served: a heartbeat tries the update,
then the registration, and the steps of a request that leave the lock are
separate actions, so two requests interleave there. `devId` is the id each agent
has persisted. A critical section of `dm.mu` is one action together with its SQL
statement; every statement may fail when `DbFails` holds, and `dbFailed`
remembers that one did. `Restart` forgets requests and reloads the map.

Time is the age of records, counted in periods of the status updater; an age
stops growing at `MaxAge`, above every threshold, where the code can no longer
tell ages apart.

The table is the one `createDevicesTable` declares. `migrations/003` declares
another one, without some of the columns; where it came first every statement of
`RegisterDevice` fails, which is `DbFails` with every statement failing. 

### DiscoveryScan

One action per critical section of `s.mu` with the local work around it. A
request goes from the handler's unprotected test of the flag through the claim,
range, ping batches, port workers and device information to completion or
failure; workers probe and report on their own, also after the phase that
started them was left. `cancelFunc` is the request whose context it cancels.
Hosts answer nondeterministically.

### WSHub

One action per channel operation or critical section of `h.mu`. Channel contents
and closedness are explicit; a send on or close of a closed channel sets
`panicked`. A full client buffer drops the message, a full broadcast queue
blocks the publisher.

### EventPipeline

| Variable | Code |
|---|---|
| `eventQueue`, `inHand` | `DLPAgent::eventQueue_`, the local of `EventLoop` |
| `collectorQueue`, `seenFiles` | `TelemetryCollector` |
| `pc`, `batch` | the thread `SendTelemetry` and its vector |
| `cache` | the `events` table of the SQLite file; survives the process |
| `connected`, `cacheOpen`, `running`, `collecting`, `serving` | the flags of `SecureComm`, `LocalCache`, `DLPAgent`, the collector and the kernel channel |
| `enrolled` | id and token in the configuration file; survives the process |
| `up`, `eventLogs` | the backend and its `event_logs` table |
| `made`, `acked`, `lost` | history: raised, acknowledged, given up |

An event is a value of one of two sources. Of its text the model keeps whether
there is a path, whether the collector's gate lets it through, and whether the
text still is JSON when it is spliced in without escaping; a kernel path starts
with `\Device`, which is not. `ToJson` and `FromJson` are modelled by the JSON
type of the fields: numbers are written as strings and asked for as numbers.
A POST is one step with all outcomes: not reached, rejected (400 for a body that
is not JSON, 404 for a first event without a known device id), stored with or
without the reply arriving. The policy verdict and the file move of
`QuarantineFile` are nondeterministic. The event sender (`EventSender.cpp`) is
left out: nothing queues an event there.

The shutdown is modelled as the threads run it: the control handler clears
`isRunning_` and then joins; `ServiceMain` sees the flag, and its own call of
`Stop` returns at once, so `Shutdown` does not wait for the sender.

### PolicyCache

One action per section between acquiring and releasing a push lock, or per
interlocked operation; a lookup's second pass takes the LRU lock inside the bucket's
and is one action. `memory` says of each `DLP_CACHE_ENTRY` whether it is private to
a thread, in a bucket, taken out of it, or freed, `policy` what it holds; an entry
is never allocated twice, so that a use after the free shows (`corrupted`, after
which nothing is said). `lru` is the list at `LruHead`, `linked` the entries whose
`LruLink` is not empty, `count` is `CurrentEntries`. `msg` is the message a thread
handles, `pc` how far it got, `target` the file it looks for, `held` the entry it
has made or taken out, `bucket` the next one a clear empties. Neither the port nor
`KernelComm::SendMessage` serializes messages, so several are handled at once as
soon as several threads send; the agent at this commit sends updates from its
scanning thread only, and has functions for the other messages that nothing calls.
`overlaps` is history: whether two messages were ever handled at once. Time is one
action, `Expire`. No code in the agent sets the pinned flag; it is kept as an input
because the eviction depends on it.

### Approvals, PolicyEngine, ApprovalLifecycle

`reqs` and `cached` are the tables `approval_requests` and `cached_approvals`, `owner`
is `file_ownership`, `work` what each handler is doing between two statements,
`notices` what the notifier was given. A decision is the conditional `UPDATE`, then
the write of the cached approval if it is permanent, then the notice, each a step;
any may fail and the backend may stop between them. `ProcessTimeouts` expires all
late requests in one statement. An evaluation goes through hard-block keywords,
classification, rules, ownership and cached approvals, in this order; a lookup
that fails is replaced by what the code puts in its place.

A cached approval is found by `$4 LIKE destination_pattern` (`workflow.go` line 513),
and the pattern is the destination of the approved request, written as it came. `Like`
is the relation of patterns to the destinations they cover, any relation whatever:
with `%` or `_` in it a destination covers others than itself, and with a backslash
perhaps not even itself.

`ImplementsLifecycle` maps `reqs` to decision and subject, the permanent approvals
to `lasting`, `cached` to `grants` and `notices` to `told`. Every statement is one
abstract step or a stutter: the lifecycle decides each request once, and its grants
and announcements follow decisions however handlers interleave or fail.

### Incidents

A row keeps which columns its writer supplied, because the two writers
(`Manager.Create` and `createIncident` of the event handler) supply different ones
and the schema and the readers ask for others. `UpdateStatus` reads, writes and
notes in three statements; assignment, escalation and resolution write and note.
`logs` are the rows of `event_logs`, `acked` what a batch was acknowledged for; a
batch may be sent again. The router serves creation (`/api/incidents/enhanced`) and
`ResolveIncident`; the handlers that change the status, assign, escalate, resolve with
a note, or add a note have no route at this commit. They are modelled as they stand,
and what `StatusExplained` says of them it says for the day they are routed.

### KeywordStore

The table has a version, and a list that was read carries it. A change or a test
reads the list and then loads it, two steps. A keyword is whether it is empty,
whether it compiles and whether it is enabled: the search for an empty keyword does
not advance, so `MatchContent` never returns and its read lock stays taken
(`Unlocked`). Listing, creation, test and import are routed; the handlers of update and
deletion are not, so only `Service.Update`, when called, can store an empty keyword.

### Classification, Findings

A file is what the detectors report: marks of its path, counts of validated numbers
and words, secrets and whether they stand in an example context. The weights and
thresholds are the code's, kept as sequences of a mark and its points that a
recursive function adds up. `MergeFindings` is one recursive function over the local
findings and then the provider's. (Recursive functions, here and in `Totals` of
`ConsoleAccess`, because a theorem can be proved of them.) A classification runs
beside changes of the rules; `loadRulesFromDB` queries and swaps under one lock.

### Accounts, PolicyStore, ConsoleAccess

Every SQL statement of `users.go` is a step, and its error is ignored where the code
ignores it. A request that replaces a list remembers the list it found (`old`), which
kinds of its own statements failed (`failed`) and whether another request touched the
list (`alone`). `CreateUserFromAD` is left out: its `INSERT` (`users.go` line 556) does not
supply `password_hash`, which `001_init.sql` line 109 declares `NOT NULL` and no migration
relaxes, so it is refused every time and no account of the directory ever exists.
`PolicyStore` keeps beside the table what it would be if every update were one
statement (`serial`) and which policies were written by overlapping updates.
`ConsoleAccess` counts time in intervals of one token; `recent` is the history of
attempts let through, `inactive` how long an account has been deactivated. `sockets` are
the holders of open `/ws/events` connections: `ServeWs` checks the token, `Push` delivers
a broadcast without looking at it again, `Disconnect` is the only end.

### CloudScan

The handler's phases are `pc`, the loop it is in `left`; `work[b]` is the goroutine
of bucket `b`. Every call of the AWS API is a step that may fail, and fails once the
deadline has passed. Bytes are units: `size`, and `secret` the unit in which
sensitive content ends: the first prefix whose text is classified above PUBLIC. An
object has a format by its name (`Label`) and one by its content (`magic`); what
reads it goes by its extension alone (`Extractor`), also after a container was
recognised, and `read` says what each reader makes of it: text that shows what is in
it, text that hides it (the bytes of a container under a text name, or a container
whose entries cannot be read, as those are skipped), or an error. `NameSays` are the
names that decide before the text is looked at: `.log`, `.tmp` and `.cache` are
PUBLIC, `.env`, `.key`, `.sql` and names with `password`, `secret` or `api_key`
RESTRICTED; with them go names whose points in phase 1 suffice, and databases over
100 MB, which their name and size decide. `listed` is the size and storage class the
list gave, which `HeadObject` falls back on. The owner writes and deletes objects
while the content is scanned; `stale` marks an object replaced between `HeadObject`
and its download.

## 3. Runs

| Run | Result | Shows |
|---|---|---|
| `registry_faults` | pass | with failing statements and restarts: types, no device vanishes; a silent device becomes offline |
| `registry_concurrent` | pass | two requests, synchronisation, deletion, restarts: every device in memory has its row under the same hostname, no new duplicate |
| `registry_current` | violation | finding 2 |
| `discovery_scan` | pass | `ScanControl`: flag always has an owner, no overlap unless stopped; `ReportCoherent`: no duplicate device, figures agree; every scan returns, all workers finish |
| `discovery_cancel` | violation | finding 1 |
| `hub_safety` | pass | no channel panic; `HubConsistent`: limits, exact index; `DeliveryExact`: order and addressing |
| `hub_liveness` | pass | broken connections are reclaimed, publishers go on |
| `pipeline_faults` | pass | conservation and exclusive custody under every fault |
| `pipeline_liveness` | pass | every event leaves memory |
| `pipeline_outbox` | violation | finding 3 |
| `cache_safety` | pass | `BucketsExact`: one entry per file, exact counter; `LruExact`; while messages come one by one no freed entry is used and eviction keeps the limit and what is pinned (`SafeIfSerial`, `EvictionSound`) |
| `console` | pass | the eight parts of `Console`, see below |

What `console` checks, beside the types of all parts:

| Part | Property | Says |
|---|---|---|
| approvals | `ImplementsLifecycle` | the workflow implements `ApprovalLifecycle` |
| | `AllowJustified` | an operation is allowed by an earlier approval only if a permanent one of the owner, for the same user, file and action, is for all destinations or covers this one as a `LIKE` pattern |
| | `LastingIsCached` | a permanent approval is in the cache once its handler is done, unless a statement failed |
| incidents | `StatusExplained` | the status is explained by creation, assignment, resolution or a note written or about to be, unless a statement failed |
| | `AckedIsStored` | an acknowledged batch is in the log, unless a statement failed, however often it came |
| keywords | `TestsAnswer` | a test ends unless an update stored an empty keyword, and matches with a list no older than its start or than one being loaded then |
| classification | `ProviderBounded` | no provider removes hard evidence; a late answer changes nothing |
| | `MoreEvidenceNeverLowers` | further evidence in a file never lowers its classification |
| | `OwnRuleApplies` | once its request is answered a stored rule is in force |
| accounts | `RolesExact` | when an update that no other request came between answers, its list is the one asked for, but for what its own failed statements explain: old entries left beside the new ones after a failed `DELETE`, new ones missing after a failed `INSERT`, never an entry from nowhere; system roles are never changed |
| policies | `ChangesLast` | updates that do not overlap lose nothing; a deletion stands even if an update had read the row |
| access | `AttemptsBounded` | attempts of an address in a window are at most what the bucket gives, one more for the first |
| | `RevocationBounded` | once a token's life has passed, a deactivated account has no request let through and no WebSocket connection accepted; nothing is said of connections opened before |
| cloud | `VerdictsTrue` | an object called compliant has no sensitive content at all, and one called noncompliant has some, unless it was replaced during its download, its name decides, or its text hides what is in it; a denied or failed call never becomes a verdict on a setting |
| | `AllAccounted` | no object with content is missing without an error, the deadline or the truncation flag saying so, except those whose key ends in a slash; no check of a bucket is |

**Bounds.** Two hosts that share one address are what a reclaim needs; two server
ids let a second record appear. The thresholds are 0 or 1 periods so that one or
two ticks pass all of them. Two requests are what a race needs in the registry and
in discovery. Two addresses, batches of one and a pool of at most two workers make
phases of several rounds and a full pool. Buffers of one or two messages with three
published fill up. In the pipeline three events, one of each kind (kernel
without path, kernel with path, file on a drive), and batches of two make batches
that mix kinds and a remainder; one restart is enough to see what survives it.
In the cache, a limit of one makes every second insertion evict, two files in
two buckets make a clear take two steps, and three allocations let an entry be
freed and its file inserted again while another thread still acts on the first.
In `console` two handlers are what a race needs, and two ids, requests or rules
what a mix-up needs. `MaxRequests`, `MaxWrites` and `MaxFaults` bound how often
callers come and calls fail; one change more than there are handlers lets a handler
finish and begin again beside a slow one. One request is for a destination that, as a
pattern, covers another one, and the events go to that other one or nowhere known. A
bucket of one token that is dropped after two intervals, and a window of two, are
the least with which a second burst from a bucket dropped too early would show. The
cloud account has a bucket with one key more than the limit, an object with its secret
behind the sample, a container under a text name, a name that is sensitive and one
that is public, the key of a directory, a write that deletes, empties or enlarges an
object, and one failing call; posture and content are asked for separately, as they
share only the deadline and the list of errors. `console` has 585,872 distinct states.
Deadlock checking is off for the hub, the pipeline, the cache and the console:
consoles connect once and messages, events and restarts are bounded, and nothing follows a
corruption, so a behaviour really may end.

**Fairness.** Weak fairness of a goroutine or thread that has a step to take: the Go
and Windows schedulers run them, pings, probes and requests end by their timeouts,
timers fire. Strong fairness only for the hub's `select` among ready channels and
for senders that wait on a channel, which Go serves in order of arrival (select
chooses uniformly among ready cases). `Start` of the agent is fair because the
service is installed to start by itself; its process ends after `Shutdown`. Nothing
is assumed about hosts, peers, the network, the database or the administrator.

Where a run checks a conjunction (`ScanControl`, `BucketsExact`, `TestsAnswer` and the
like) its parts are definitions with their own comments beside it.

**Symmetry** is used in safety runs only, over hosts or requests, handlers and ids
that no definition tells apart. `ImplementsLifecycle` has no liveness part, so it
is checked under symmetry too.

## 4. Findings

1. `discovery_cancel`: `SetCancelFunc` runs before the scan has claimed the
   service; a refused start overwrites the running scan's cancel function.
2. `registry_current`: after its record was reclaimed for another host with the
   same address, an agent's heartbeats refresh the other host's record.
3. `pipeline_outbox`: `FromJson` cannot read what `ToJson` writes, so what was
   cached during an outage is never sent. While this holds a lost reply causes no
   duplicate; once it is repaired, delivery is at least once, and a row that
   cannot be read is marked synced with the rest of its batch (`LocalCache.cpp`
   line 325), which the model's `SyncEvents` already contains.

What the models show and no run is spent on:

- **Discovery, agent, cache.** `StopScan` clears the in-progress flag while the
  stopped scan still runs (why `SingleScanUnlessStopped` excepts stopped scans). A
  service stop closes the outbox under the sender, and a batch with failed inserts
  is acknowledged as logged (two of the places where `TelemetryConserved` lets an
  event be lost). An insertion that meets an entry added meanwhile leaves it expired
  (`dlp_policy_cache.c` line 476 copies an expiration time of zero). Two insertions
  that evict at once choose the same victim, after which the cache stays one entry
  larger, or evict an entry pinned since it was chosen.
- **Cache, thread safety.** `DlpInsertPolicy` releases the bucket before it links the
  entry into the LRU list (line 489); an eviction by another insertion that had
  chosen the same file frees the entry in between, and freed memory is linked. The
  design goals at line 13 say "Thread-safe at IRQL <= APC_LEVEL"; the agent at this
  commit sends its updates from one thread, for which `SafeIfSerial` holds. A clear
  frees a bucket's entries while they are on the LRU list (line 616), which is why
  `LruExact` and `CountExact` except clears that overlap.
- **Events.** The incident a rule triggers is never stored: `createIncident`
  supplies none of `username`, `action_attempted`, `decision`, which migration 005
  declares `NOT NULL`, and its error is dropped. The default rule's scalar
  `"classification"` is ignored by `doesRuleMatch`. `ListEventLogs` scans a
  `block_reason` that may be NULL.
- **Approvals.** A destination is stored raw and used as a `LIKE` pattern, so an
  approval for one that contains `%` or `_` allows others nobody approved. The
  routes that approve and deny are not wired, and no notification handler is
  registered, so the models show what the service does when called.
- **Keywords.** An update may store an empty keyword, which creation and import
  refuse; the next search never ends. A reload that read earlier may be loaded
  later.
- **Classification.** Two optional findings with one key are merged in their order,
  although `findings.go` line 103 promises a result that does not depend on it. A
  rule changes the class and leaves the risk level of the phases. A remote file has
  size 0 and is PUBLIC after phase 0.
- **Accounts, policies.** An update of roles or permissions whose `DELETE` or
  `INSERT` fails is answered as success, with old and new entries side by side or
  new ones missing. The import of a directory user is always refused (see
  `Accounts`). `UpdateUser` without `is_active` reactivates a deactivated account.
  Two overlapping role updates leave the union. Overlapping policy updates overwrite
  each other's fields.
- **Access.** An open WebSocket connection is never rechecked: it gets every broadcast
  after its token has expired and its account was deactivated, until one end breaks it.
- **What no start reaches.** `main.go` refuses to start without a database (lines
  133 to 150), and without one `NewRouter` would return (`rest.go` line 577) before
  it builds `NewInMemoryEventsHandler` and `NewInMemoryRulesHandler`: these handlers
  are dead code and not modelled. Unrouted, but modelled: the incident handlers for
  status, assignment, escalation, resolution and notes, and the keyword handlers for
  update and deletion.
- **Cloud.** An object replaced by a larger one between `HeadObject` and `GetObject`
  is reported with full coverage and compliant although only a prefix was read
  (`content.go` line 23 says a prefix can never be used to claim an object is
  clean). A container under a plain name is downloaded whole, but `ExtractText` goes
  by the extension: mostly an error and `unknown`, as `content_test.go` line 598
  expects, but compliant if its bytes pass for text. Entries of a container that
  cannot be read are skipped (`scanner.go` line 97), so it can be compliant too. A
  secret in `app.log` is compliant; `secret.txt` is noncompliant whatever it holds,
  also if it vanished before the download. Empty objects and all whose key ends in a
  slash, with content or without, get neither a finding nor an error (`content.go`
  line 217). A download cancelled by the deadline is reported as unsupported.

## 5. Proofs

Each proof module extends the module it is about, so what is proved is what the
runs check. Every theorem holds for all values of the constants that satisfy the
module's named assumption: any number of hosts, handlers, threads, consoles and
entries, any limits.

Most of the invariants are not inductive as they stand. The strengthening each
proof uses was checked by TLC on the run's instance first; it is named below and
stated, part by part, at the head of the proof module.

**`DeviceRegistryProofs`** (from `RegistryAssumption` and `NoneAssumption`: the
constants are sets and numbers of the right kind, and `None` is none of the
values it stands apart from).

| theorem | statement | argument |
|---|---|---|
| `TypeCorrect` | `Spec => []TypeOK` | `TypeOK` is inductive; `RegisterType`, `ExecType`, `BeatType` give the type of what one handler step computes |
| `Durable` | `Spec => []RegistryIsDurable` | inductive together with `TypeOK`; `RowsKept` covers the steps that leave memory alone and keep every row and its hostname, `RegisterDurable` that registration writes memory and table alike unless a statement failed |
| `NeverVanish` | `Spec => DevicesNeverVanish` | from `TypeOK`, one case per action |
| `NoDuplicates` | `Spec => NoNewDuplicates` | from `TypeOK`: `RegisterUnique` (registration looks the hostname up before it adds), `SameNames` (the other updates keep hostnames) |

**`EventPipelineProofs`** (from `PipelineAssumption`).

| theorem | statement | argument |
|---|---|---|
| `TypeCorrect` | `Spec => []TypeOK` | `TypeOK` is inductive because it also records what the sender's batch holds at each point of its loop and that a dead process's sender is at `done`: `GetBatch` overwrites the batch and `Start` leaves it alone, so the type of what they find depends on it |
| `Conserved` | `Spec => []TelemetryConserved` | inductive relative to `TypeOK`; an event moves between sequences, so the proof rests on `RangeAppend`, `RangeHeadTail`, `TakeDrop` (the batch and the rest hold what the queue held) and `CachedAppend`, and on `SyncIdle` (a sync changes no row) |
| `CustodyIsExclusive` | `Spec => []ExclusiveCustody` | the property counts occurrences; `Custody` says the same without counting (one place holds the event, once, and only if it was raised), is inductive, and `CustodyCounted` turns it into the count |
| `NothingIsEverSynced` | `Spec => []OutboxStuck` | from `TypeOK` and `SyncIdle`: no sequence of outages, batches and restarts drains the outbox. It is finding 3 for every configuration |

`Conserved` depends on the defect it coexists with: it cites `SyncIdle`, which
holds only because a stored event is never readable. With `FromJson` repaired
the step that syncs would have to be proved instead.

**`ApprovalsProofs`** (from `ApprovalAssumption`).

| theorem | statement | argument |
|---|---|---|
| `TypeCorrect` | `Spec => []TypeOK` | inductive; one case per statement of a handler |
| `AllowsAreJustified` | `Spec => []AllowJustified` | for any `Like`. `ApprovalInv`: who is about to write the cache does so for a permanent approval, a cached approval is that of such a request and names its owner, and an answer that rested on the cache when it was read still does when it is given. The last is true because nothing takes an approval back (`RowsKept`, `CacheKept`): a cancellation or timeout after the decision finds the request no longer pending |
| `LastingAreCached` | `Spec => []LastingIsCached` | without faults what becomes a permanent approval leaves its handler at the write of the cache (`BecomesPermanent`), and only that write ends it |
| `Implements` | `Spec => ImplementsLifecycle` | the refinement: initial states map to initial states, and under `ApprovalInv` each statement is a step of `ApprovalLifecycle` (`CreateOpens`, `DecideDecides`, `TimeoutsExpire`, `CacheGrants`, `NotifyTells`) or leaves the abstract state alone (`Invisible`) |

**`DiscoveryScanProofs`** (from the assumptions of `DiscoveryScan`).

| theorem | statement | argument |
|---|---|---|
| `ScansControlled` | `Spec => []ScanControl` | the flag alone is not inductive: that figures stay numbers needs the sets of hosts each phase works through (`Phases`), that a stop finds a context needs `Cancellable` |
| `ReportsCoherent` | `Spec => []ReportCoherent` | `Undisturbed`: as long as nothing was stopped, a running scan is alone, its workers end with the port phase, and the live list holds hosts it has visited, one entry each, with as many eligible ones as it has devices (`Tally`), so that the final merge changes nothing (`MergeSame`, an induction over the list) |

**`WSHubProofs`** (from the assumptions of `WSHub`).

| theorem | statement | argument |
|---|---|---|
| `NeverPanics`, `IndexExact` | `Spec => []NoChannelPanic`, `Spec => []HubConsistent` | `ControlInv`: a channel is closed only by `unregisterClient`, which the read pump asks for last, and the read pump starts only once `Run` has received the registration |
| `DeliversExactly` | `Spec => []DeliveryExact` | `HubInv` adds that the broadcast queue is numbered in its order and that all a console got or has queued comes before what the hub still holds (`Past`); a frame that drops the answers to pings keeps the order by `WithoutLeaves` |

**`PolicyCacheProofs`** (from `CacheAssumption`). Steps are first summed up by what
they do to the threads, to the entries, to the list and to what an eviction knows
(`Moves`, `Lives`, `Lists`, `Chooses`); the invariant `CacheInv` is then shown
conjunct by conjunct from the summary.

| theorem | statement | argument |
|---|---|---|
| `BucketsStayExact` | `Spec => []BucketsExact` | `Ownership`: no two threads insert, or take out, the same entry, and one taken out has a thread that will free it. The counter is then right at each of the steps between publishing and counting, and after a clear because one that overlapped with nothing leaves no entry behind it (`ClearsAlone`) |
| `ListStaysExact` | `Spec => []LruExact` | with `LinkedInList`: an entry that says it is linked is on the list, so that a touch or a removal takes it out before it is put back or freed |
| `SerialIsSafe` | `Spec => []SafeIfSerial` | `Serial`: while messages come one by one an entry on its way to the list is still in its bucket and one that is freed has left the list; all elements of the list are allocated then, so no neighbour is freed memory (`SafeList`) |
| `EvictionIsSound` | `Spec => EvictionSound` | `Serial` also has that whoever goes on to add an entry found room or nothing to evict (`Room`), that beyond the limit at most one entry is not pinned (`Limit`), and that the victim is still in its bucket when it is looked up by its file (`Victim`) |

**`ConsoleProofs`** (from the assumptions of `Console`). `ConsoleAssumption`: `None` is
no row and no bucket of tokens, lives, windows and bursts are numbers and an unused
bucket is dropped only when it would have been full again (the code drops it after
10 minutes and fills it in one), system roles are roles, keywords are keywords and an
imported file has one, a batch has events, requests name statuses the table allows,
and handlers are finitely many. `CloudAssumption`: the keys of each bucket are a
finite list, no object is in two buckets, sensitive content lies within its object,
each reader shows it, hides it or fails, the account is not one of its buckets, and
limits are numbers. `FilesAssumption`: files carry what the detectors report, with
no two local findings under one key, and a provider's answer is a finite list.
`TypesAssumption`, used for `PartsTyped` only: bounds are numbers, users and roles
have different ids (UUIDs in the code), lists of roles and the administrator's name and
role are those of the tables, `None` is no account and no kind of role, and
a batch is a list of events.
Each theorem is `ConsoleSpec => []...` about the part named; the other parts rest.

| theorem | part, property | argument |
|---|---|---|
| `PolicyChangesLast` | `PolicyStore`, `ChangesLast` | `PoliciesInv`: as long as no other request touched the policy, what a handler read is still the row; the write replaces all fields, so this is what keeps the last one |
| `DeactivationTakesEffect` | `ConsoleAccess`, `RevocationBounded` | `AccessInv`: a token of a deactivated account is at least as old as the deactivation, up to where ages stop; `validateToken` then refuses it, for a request and for a new connection alike |
| `KeywordTestsAnswer` | `KeywordStore`, `TestsAnswer` | `KeywordAgeInv` bounds the versions a matcher and the lists on their way can have, `KeywordOriginInv` says that the only empty keyword in any of them came from an update |
| `NotesExplain` | `Incidents`, `StatusExplained` | `TrailInv`: a handler between the change of the row and its note remembers what the note will say, one between read and change has changed nothing yet |
| `AckedIsLogged` | `Incidents`, `AckedIsStored` | `LogsInv`: without a failed statement the log holds an event once per delivery that has passed it; the count of deliveries that have is a cardinality over handlers, hence the finite set of them |
| `AttemptsAreBounded` | `ConsoleAccess`, `AttemptsBounded` | `AttemptsInv`: not the total alone but the sum over *each* of the last `n` intervals, with what is left in the bucket, is at most `Burst + n`; an address without a bucket, or with an unused one, made no attempt for as long as its age says (`Paid`). Then a new bucket is no second burst. The sums are a recursive function, shifted when time passes (`SumsAdd`) |
| `RolesAreExact` | `Accounts`, `RolesExact` | `ListsInv`: for a request nothing came in between, the pairs of the user or role it is about are bounded by what it found, asked for and has still to insert, depending on which of its statements failed (`Replaced`), and no two requests with the same list are both undisturbed |
| `VerdictsAreTrue` | `CloudScan`, `VerdictsTrue` | `VerdictsInv`: what a goroutine is to download is still of the size it was told, unless the object is marked as replaced; so a sample of that size is the whole object, and what is read from it is in it (`FindingTrue`); one that is gone is judged by its name alone (`FindingGone`). `CloudTyped` and `LeftTyped` say what each goroutine and the handler's loop hold at each point |
| `NothingPassedOver` | `CloudScan`, `AllAccounted` | `AccountedInv`: at each point of the scan, an object is before the point its bucket's goroutine has reached and accounted for, or still ahead of it; `HeadDone` is the step that may stay silent, which `SizesTyped` confines to what was emptied, written or never had content; likewise each check of each bucket. `ScanGrows`: nothing is taken back from the result, so what is accounted for stays so |
| `OwnRulesApply` | `Classification`, `OwnRuleApplies` | `RulesInv`: the loaded version is never newer than the table, and that of a request on its way never either; a reload reads the table as it is |
| `ProvidersBounded` | `Classification`, `ProviderBounded` | `RulesInv` with `HardKept`: by induction over the provider's findings, whatever is merged leaves the hard local findings as they are |
| `EvidenceNeverLowers` | `Classification`, `MoreEvidenceNeverLowers` | `RulesInv` ties the risk of a result to its file (`RiskOf`); the comparison of two files then is arithmetic: sums over the tables grow (`SumGrows`, by induction), so do products, the scores of each phase, the clamped score and its level (`PhasesGrow`, `LevelGrows`) |
| `PartsTyped` | all eight, `PartsTypeOK` | `TypesInv`: a lemma per part, from the invariants above. What is written must have been typed when it was read, so the notes, rules, lists and findings that handlers carry are typed too. The types include references: a note is about an incident that exists and an assigned role about an account and a role that do (`AccountsTyped`; a list is dropped with its role, and accounts only become inactive), and the log holds no event more often than it was sent |

**`FilteringProofs`.** `WithoutLeaves` says what `Without` leaves of a sequence: its
elements outside the set, each once and in order. The library's induction
theorems take an operator, which none of the provers can instantiate;
`IntervalInduction` states induction over `0 .. n` for a set, and
`EquationSolvable` that a recursive function over such an interval exists, so
recursive functions can be reasoned about. `MergeUnique` of discovery, `SumsExist` of
the rate limiter, `HardKept` and `SumGrows` of the classification use the same.

TLC confirmed each invariant of this section on the run's instance before it was
proved, those of `ConsoleProofs` in all states in which their part takes steps.

**Only model-checked.** Everything about liveness (`ScansReturn`,
`SilentBecomesOffline`, `EveryEventSettles`, `ConnectionsReclaimed`,
`PublishersProgress`), which needs fairness and `ENABLED`, outside this prover. Every
safety property and action property of the runs has a theorem.

## 6. What is not modelled, and the plan

The map covers about 34 % of the backend's Go lines (tests aside) and 9 % of the
agent's C and C++. Not modelled because
there is nothing to check in a state machine: routing, rendering, statistics and
listings, certificates, credentials and error texts of cloud vendors, regular
expressions, checksums and text extraction, build and deployment scripts. Not
modelled because nothing calls it: the event sender, the gRPC interfaces, reminders
of approvals, `ClassifyFile` and `RecordAccess` of the classifier (so the table
`classified_files`), bulk insertion into the policy cache.

Not modelled yet, in this order:

1. `ProcessTaint` (minifilter): the process table, its reference counts and exits,
   the taint of a process that read a protected file, and the decision each
   callback takes from it and from the policy cache.
2. `QuarantineVault` and `KernelChannel`: the steps of a move with a crash between
   them; connect, listen and shut down against the driver's notifications.
3. The agent's policy engine and clipboard monitor; the directory synchronisation of
   users.
4. `GenerateIPRange` and the validators as pure operators against reference
   definitions.
5. `PubSub`: a lossy ordered publish/subscribe service as the abstract
   specification that `WSHub` implements; `Outbox`: an at-least-once outbox that
   `EventPipeline` implements as far as finding 3 allows.

Theorems planned: with the modules above, that `WSHub` implements `PubSub` and
`EventPipeline` implements `Outbox` as far as finding 3 allows.
