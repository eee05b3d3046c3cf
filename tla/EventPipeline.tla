--------------------------- MODULE EventPipeline ---------------------------
(***************************************************************************)
(* How the Windows agent reports an incident to the backend: the kernel    *)
(* callback and the removable-drive monitor produce events, EventLoop      *)
(* (DLPAgent.cpp) moves them through the policy engine to the telemetry    *)
(* collector, SendTelemetry takes batches from the collector, posts them   *)
(* (SecureComm::SendEvents) and writes what could not be posted to the     *)
(* SQLite outbox (LocalCache), which SyncEvents is to drain.               *)
(*                                                                         *)
(* An event is an abstract value.  Its text (path, process, user) is kept  *)
(* only as far as the code tells events apart: whether it has a path,      *)
(* whether the collector's gate lets the path through, and whether the     *)
(* text, spliced into JSON without escaping, still is JSON.                *)
(***************************************************************************)
EXTENDS Naturals, Sequences, FiniteSets, Functions

CONSTANTS
  Kernel,        \* events the minifilter reports (OnKernelBlockEvent)
  Usb,           \* files found on removable drives (MonitorFileSystem)
  Pathless,      \* kernel events without a file name (nameInfo was NULL)
  Sensitive,     \* events whose path passes IsPotentiallySensitive
  WellFormed,    \* events whose text, unescaped, is still valid JSON
  BatchMax,      \* 100 in SendTelemetry and SyncEvents
  MaxRestarts,   \* bound on the number of times the process is started again
  MonitorOnly,   \* enforcement mode MONITOR_ONLY
  NetworkFails,  \* the backend may be down and replies may be lost
  InsertFails,   \* the backend's INSERT INTO event_logs may fail
  DiskFails      \* the agent's SQLite statements may fail

Events == Kernel \cup Usb

\* A kernel path starts with "\Device", and "\D" is no JSON escape.
ASSUME PipelineAssumption ==
  /\ Kernel \cap Usb = {}
  /\ Pathless \subseteq Kernel
  /\ WellFormed \subseteq Pathless \cup Usb
  /\ Sensitive \subseteq Events \ Pathless
  /\ BatchMax \in Nat \ {0}
  /\ MaxRestarts \in Nat
  /\ {MonitorOnly, NetworkFails, InsertFails, DiskFails} \subseteq BOOLEAN

VARIABLES
  alive, running,     \* the process exists; DLPAgent::isRunning_
  collecting,         \* TelemetryCollector::running_
  serving,            \* KernelComm delivers the driver's notifications
  cacheOpen,          \* LocalCache::initialized_
  connected,          \* SecureComm::isConnected_
  enrolled,           \* agent id and token are in the configuration file
  eventQueue,         \* DLPAgent::eventQueue_
  inHand,             \* the event EventLoop has popped: a set of at most one
  collectorQueue,     \* TelemetryCollector::eventQueue_
  seenFiles,          \* TelemetryCollector::seenFiles_
  pc, batch,          \* SendTelemetry: where it is, and its local vector
  cache,              \* the events table of the SQLite file, in id order
  up,                 \* the backend answers
  eventLogs,          \* the events in the backend's event_logs table
  quarantined,        \* files moved to the quarantine store
  restarts,           \* process starts so far
  made, acked, lost   \* history: raised, acknowledged with a 2xx, given up

memory  == <<eventQueue, inHand, collectorQueue, seenFiles, pc, batch>>
process == <<alive, running, collecting, serving, cacheOpen, connected,
             enrolled, restarts>>
backend == <<up, eventLogs, acked>>
vars    == <<memory, process, backend, cache, quarantined, made, lost>>

Take(s, n) == SubSeq(s, 1, IF n < Len(s) THEN n ELSE Len(s))

Drop(s, n) == SubSeq(s, n + 1, Len(s))

(***************************************************************************)
(* What the process holds only in memory, and what the outbox has on disk. *)
(***************************************************************************)
InMemory == Range(eventQueue) \cup inHand \cup Range(collectorQueue)
              \cup Range(batch)

Cached == {cache[i].event : i \in DOMAIN cache}

-----------------------------------------------------------------------------
(***************************************************************************)
(* The codec.  ToJson writes every field between quotes, the numbers too,  *)
(* and escapes nothing; FromJson asks the JSON library for "type" and      *)
(* "severity" as numbers, which throws for a string, and returns false.    *)
(***************************************************************************)
ToJson(e) == [valid    |-> e \in WellFormed,
              type     |-> "string",
              severity |-> "string"]

FromJson(j) == /\ j.valid
               /\ j.type = "number"
               /\ j.severity = "number"

(***************************************************************************)
(* ReceiveEventBatch: 400 when the body is not JSON, 404 when device_id is *)
(* not a device.  The batch carries the agent id of its first event, and   *)
(* the drive monitor leaves that id empty.                                 *)
(***************************************************************************)
Accepts(first, events) == /\ events \subseteq WellFormed
                          /\ first \in Kernel
                          /\ enrolled

\* The rows the handler inserts: a failing insert is skipped, the answer is 200.
Inserted(events) == IF InsertFails THEN SUBSET events ELSE {events}

\* SendEvents: what the backend stored, and whether the agent saw a 2xx.  Both
\* callers have at least one event to send.
SendEvents(first, events) ==
  IF connected /\ up /\ Accepts(first, events)
    THEN [ok : {TRUE, ~NetworkFails}, stored : Inserted(events)]
    ELSE [ok : {FALSE}, stored : {{}}]

Init ==
  /\ alive = FALSE /\ running = FALSE /\ collecting = FALSE
  /\ serving = FALSE /\ cacheOpen = FALSE /\ connected = FALSE
  /\ enrolled = FALSE
  /\ eventQueue = <<>> /\ inHand = {} /\ collectorQueue = <<>>
  /\ seenFiles = {} /\ pc = "done" /\ batch = <<>>
  /\ cache = <<>> /\ up \in BOOLEAN /\ (NetworkFails \/ up)
  /\ eventLogs = {} /\ acked = {} /\ quarantined = {} /\ restarts = 0
  /\ made = {} /\ lost = {}

(***************************************************************************)
(* The process.  Initialize enrols once (the id and token are persisted),  *)
(* opens the cache, and Start starts the threads.  Opening the cache may   *)
(* fail, which Initialize only logs.                                       *)
(***************************************************************************)
Initialize ==
  /\ cacheOpen' \in {TRUE, ~DiskFails}
  /\ enrolled' \in {enrolled \/ up, enrolled \/ (up /\ ~NetworkFails)}
  /\ connected' = FALSE

Start ==
  /\ ~alive
  /\ restarts <= MaxRestarts
  /\ Initialize
  /\ alive' = TRUE /\ running' = TRUE /\ collecting' = TRUE
  /\ serving' = TRUE
  /\ pc' = "top"
  /\ restarts' = restarts + 1
  /\ UNCHANGED <<eventQueue, inHand, collectorQueue, seenFiles, batch,
                 backend, cache, quarantined, made, lost>>

\* Stop as the service control handler calls it: first the flag, ...
Stop ==
  /\ running
  /\ running' = FALSE
  /\ UNCHANGED <<alive, collecting, serving, cacheOpen, connected, enrolled, restarts,
                 memory, backend, cache, quarantined, made, lost>>

\* ... then the collector, before it joins the threads one after the other.
StopCollector ==
  /\ ~running /\ collecting
  /\ collecting' = FALSE
  /\ UNCHANGED <<alive, running, serving, cacheOpen, connected, enrolled, restarts,
                 memory, backend, cache, quarantined, made, lost>>

\* ServiceMain sees IsRunning() false and shuts down.  Its own call of Stop
\* returns at once, so it does not wait for the sender.
Shutdown ==
  /\ ~running /\ serving
  /\ serving' = FALSE /\ cacheOpen' = FALSE /\ connected' = FALSE
  /\ UNCHANGED <<alive, running, collecting, enrolled, restarts,
                 memory, backend, cache, quarantined, made, lost>>

\* The process is gone, after Shutdown or by a crash: its memory with it.
ProcessEnds ==
  /\ alive
  /\ lost' = lost \cup InMemory
  /\ alive' = FALSE /\ running' = FALSE /\ collecting' = FALSE
  /\ serving' = FALSE /\ cacheOpen' = FALSE /\ connected' = FALSE
  /\ eventQueue' = <<>> /\ inHand' = {} /\ collectorQueue' = <<>>
  /\ seenFiles' = {} /\ pc' = "done" /\ batch' = <<>>
  /\ UNCHANGED <<enrolled, restarts, backend, cache, quarantined, made>>

\* Connect succeeds when the health check does.  Nothing but Shutdown clears
\* the flag again, however many requests fail later.
Connect == up /\ connected' = TRUE

SendHeartbeatLoop ==
  /\ running /\ ~connected
  /\ Connect
  /\ UNCHANGED <<alive, running, collecting, serving, cacheOpen, enrolled, restarts,
                 memory, backend, cache, quarantined, made, lost>>

\* external: the backend goes away and comes back
BackendChanges ==
  /\ NetworkFails
  /\ up' = ~up
  /\ UNCHANGED <<memory, process, eventLogs, acked, cache, quarantined, made,
                 lost>>

-----------------------------------------------------------------------------
\* QuarantineFile moves the file or leaves it in place; MONITOR_ONLY skips it.
QuarantineFile(e) ==
  \/ UNCHANGED quarantined
  \/ ~MonitorOnly /\ e \notin Pathless /\ quarantined' = quarantined \cup {e}

\* CollectEvent: the gate, then the collector's queue.
CollectEvent(e) ==
  collectorQueue' = IF e \in Pathless \cup Sensitive
                      THEN Append(collectorQueue, e) ELSE collectorQueue

\* The kernel callback, served until KernelComm is shut down.
OnKernelBlockEvent(e) ==
  /\ serving
  /\ e \in Kernel \ made
  /\ QuarantineFile(e)
  /\ eventQueue' = Append(eventQueue, e)
  /\ made' = made \cup {e}
  /\ UNCHANGED <<inHand, collectorQueue, seenFiles, pc, batch, process,
                 backend, cache, lost>>

\* A file with a blocked extension is found on a removable drive.  seenFiles
\* is forgotten with the process: a file left in place is found again.
MonitorFileSystem(e) ==
  /\ collecting
  /\ e \in Usb \ (seenFiles \cup quarantined)
  /\ seenFiles' = seenFiles \cup {e}
  /\ QuarantineFile(e)
  /\ CollectEvent(e)
  /\ made' = made \cup {e}
  /\ UNCHANGED <<eventQueue, inHand, pc, batch, process, backend, cache, lost>>

\* Mutant: the wait's predicate asks for more than one queued event.
EventLoop_WaitsForTwo ==
  /\ running
  /\ inHand = {} /\ Len(eventQueue) > 1
  /\ inHand' = {Head(eventQueue)}
  /\ eventQueue' = Tail(eventQueue)
  /\ UNCHANGED <<collectorQueue, seenFiles, pc, batch, process, backend,
                 cache, quarantined, made, lost>>

\* EventLoop pops the front under the lock, ...
EventLoop ==
  /\ running
  /\ inHand = {} /\ eventQueue # <<>>
  /\ inHand' = {Head(eventQueue)}
  /\ eventQueue' = Tail(eventQueue)
  /\ UNCHANGED <<collectorQueue, seenFiles, pc, batch, process, backend,
                 cache, quarantined, made, lost>>

\* ... then evaluates the policy, quarantines on BLOCK and hands the event on.
ProcessEvent ==
  /\ inHand # {}
  /\ \E e \in inHand : QuarantineFile(e) /\ CollectEvent(e)
  /\ inHand' = {}
  /\ UNCHANGED <<eventQueue, seenFiles, pc, batch, process, backend, cache,
                 made, lost>>

-----------------------------------------------------------------------------
(***************************************************************************)
(* SendTelemetry, the only thread that uses the outbox.  Its loop condition *)
(* is read before the ten-second sleep, so a stop during the sleep still   *)
(* lets it take and handle one more batch.                                 *)
(***************************************************************************)
LoopTop ==
  /\ pc = "top"
  /\ pc' = IF running THEN "asleep" ELSE "done"
  /\ UNCHANGED <<eventQueue, inHand, collectorQueue, seenFiles, batch, process,
                 backend, cache, quarantined, made, lost>>

NextStop(events) == CASE events = <<>> -> "sync"
                      [] events # <<>> /\ connected -> "post"
                      [] OTHER -> "store"

\* Mutant: the loop runs while batch.size() <= maxSize.
GetBatch_OneMore ==
  /\ pc = "asleep"
  /\ batch' = Take(collectorQueue, BatchMax + 1)
  /\ collectorQueue' = Drop(collectorQueue, Len(batch'))
  /\ pc' = NextStop(batch')
  /\ UNCHANGED <<eventQueue, inHand, seenFiles, process, backend, cache,
                 quarantined, made, lost>>

\* Mutant: the batch is copied and the queue not popped.
GetBatch_Peeks ==
  /\ pc = "asleep"
  /\ batch' = Take(collectorQueue, BatchMax)
  /\ pc' = NextStop(batch')
  /\ UNCHANGED <<eventQueue, inHand, collectorQueue, seenFiles, process,
                 backend, cache, quarantined, made, lost>>

GetBatch ==
  /\ pc = "asleep"
  /\ batch' = Take(collectorQueue, BatchMax)
  /\ collectorQueue' = Drop(collectorQueue, Len(batch'))
  /\ pc' = NextStop(batch')
  /\ UNCHANGED <<eventQueue, inHand, seenFiles, process, backend, cache,
                 quarantined, made, lost>>

\* Mutant: a failed batch is dropped, as EventSender::SendBatch does.
PostBatch_DropsFailures ==
  /\ pc = "post"
  /\ \E r \in SendEvents(Head(batch), Range(batch)) :
       /\ eventLogs' = eventLogs \cup r.stored
       /\ acked' = acked \cup (IF r.ok THEN Range(batch) ELSE {})
       /\ lost' = lost \cup (IF r.ok THEN Range(batch) \ r.stored ELSE {})
  /\ pc' = "sync" /\ batch' = <<>>
  /\ UNCHANGED <<eventQueue, inHand, collectorQueue, seenFiles, process, up,
                 cache, quarantined, made>>

PostBatch ==
  /\ pc = "post"
  /\ \E r \in SendEvents(Head(batch), Range(batch)) :
       /\ eventLogs' = eventLogs \cup r.stored
       /\ IF r.ok THEN /\ pc' = "sync" /\ batch' = <<>>
                       /\ acked' = acked \cup Range(batch)
                       /\ lost' = lost \cup (Range(batch) \ r.stored)
                  ELSE pc' = "store" /\ UNCHANGED <<batch, acked, lost>>
  /\ UNCHANGED <<eventQueue, inHand, collectorQueue, seenFiles, process, up,
                 cache, quarantined, made>>

\* One INSERT per event of the batch; its result is ignored.
StoreEvent ==
  /\ pc = "store"
  /\ \E done \in {cacheOpen, cacheOpen /\ ~DiskFails} :
       IF done THEN /\ cache' = Append(cache, [event |-> Head(batch),
                                               synced |-> FALSE])
                    /\ UNCHANGED lost
               ELSE /\ lost' = lost \cup {Head(batch)}
                    /\ UNCHANGED cache
  /\ batch' = Tail(batch)
  /\ pc' = IF batch' = <<>> THEN "sync" ELSE "store"
  /\ UNCHANGED <<eventQueue, inHand, collectorQueue, seenFiles, process,
                 backend, quarantined, made>>

\* The ids of the n oldest pending rows; a row's id is its place in the table.
GetPendingEventIds(n) ==
  {i \in DOMAIN cache : /\ ~cache[i].synced
                        /\ Cardinality({j \in 1 .. i : ~cache[j].synced}) <= n}

MarkEventsSynced(ids) ==
  cache' = [i \in DOMAIN cache |-> IF i \in ids
                                     THEN [cache[i] EXCEPT !.synced = TRUE]
                                     ELSE cache[i]]

\* The rows among them that FromJson can read.
GetPendingEvents(ids) == {i \in ids : FromJson(ToJson(cache[i].event))}

\* SyncEvents: the ids of the oldest pending rows, the readable rows among them,
\* one post, one transaction that marks ALL the ids.  With the codec as it is
\* no row is readable, and the post is not reached.
SyncEvents ==
  /\ pc = "sync"
  /\ LET ids   == GetPendingEventIds(BatchMax)
         rows  == GetPendingEvents(ids)
         first == CHOOSE i \in rows : \A j \in rows : i <= j
         sent  == {cache[i].event : i \in rows}
     IN IF ~connected \/ ~cacheOpen \/ rows = {}
          THEN UNCHANGED <<cache, eventLogs, acked>>
          ELSE \E r \in SendEvents(cache[first].event, sent),
                  commit \in {TRUE, ~DiskFails} :
                 /\ eventLogs' = eventLogs \cup r.stored
                 /\ acked' = IF r.ok THEN acked \cup sent ELSE acked
                 /\ IF r.ok /\ commit THEN MarkEventsSynced(ids)
                                      ELSE UNCHANGED cache
  /\ pc' = "top"
  /\ UNCHANGED <<eventQueue, inHand, collectorQueue, seenFiles, batch, process,
                 up, quarantined, made, lost>>

SendTelemetry == LoopTop \/ GetBatch \/ PostBatch \/ StoreEvent \/ SyncEvents

Next ==
  \/ Start \/ Stop \/ StopCollector \/ Shutdown \/ ProcessEnds
  \/ SendHeartbeatLoop \/ BackendChanges
  \/ \E e \in Events : OnKernelBlockEvent(e) \/ MonitorFileSystem(e)
  \/ EventLoop \/ ProcessEvent
  \/ SendTelemetry

Spec == Init /\ [][Next]_vars

\* The threads run, the reconnect loop retries, a request ends by its timeout
\* at the latest, and the service process exits once it was told to stop.
FairSpec ==
  /\ Spec
  /\ WF_vars(Start)
  /\ WF_vars(EventLoop) /\ WF_vars(ProcessEvent) /\ WF_vars(SendTelemetry)
  /\ WF_vars(SendHeartbeatLoop)
  /\ WF_vars(StopCollector) /\ WF_vars(Shutdown)
  /\ WF_vars(~running /\ ~serving /\ ProcessEnds)

-----------------------------------------------------------------------------
(***************************************************************************)
(* The type of every variable, with what holds of the sender at each of    *)
(* its points: it runs in a live process only, and holds a batch exactly   *)
(* while it posts or stores one.                                           *)
(***************************************************************************)
TypeOK ==
  /\ alive \in BOOLEAN /\ running \in BOOLEAN /\ collecting \in BOOLEAN
  /\ serving \in BOOLEAN /\ cacheOpen \in BOOLEAN /\ connected \in BOOLEAN
  /\ enrolled \in BOOLEAN /\ up \in BOOLEAN
  /\ eventQueue \in Seq(Events) /\ collectorQueue \in Seq(Events)
  /\ inHand = {} \/ \E e \in Events : inHand = {e}
  /\ seenFiles \in SUBSET Usb
  /\ pc \in {"top", "asleep", "post", "store", "sync", "done"}
  /\ alive \/ pc = "done"
  /\ batch \in Seq(Events) /\ Len(batch) <= BatchMax
  /\ batch = <<>> <=> pc \notin {"post", "store"}
  /\ cache \in Seq([event : Events, synced : BOOLEAN])
  /\ eventLogs \in SUBSET Events /\ quarantined \in SUBSET Events
  /\ made \in SUBSET Events /\ acked \in SUBSET Events /\ lost \in SUBSET Events
  /\ restarts \in 0 .. MaxRestarts + 1

Reportable == Pathless \cup Sensitive

\* An event that was raised and passes the collector's gate is in the memory
\* of the live process, in the SQLite outbox, in the backend's event_logs, or
\* was lost at one of the points where the code lets go of it: the process
\* ended, an INSERT into the outbox failed or found it closed, or the backend
\* skipped a row of a batch it acknowledged.
TelemetryConserved ==
  \A e \in made \cap Reportable :
    e \in InMemory \cup Cached \cup eventLogs \cup lost

\* Custody of a kernel event is exclusive: it stands once in one of the two
\* queues, the event loop's hand or the sender's batch, and while it is there
\* it is neither in the outbox nor already acknowledged; the outbox holds it
\* at most once.  Nothing is popped twice or stored and kept.
ExclusiveCustody ==
  LET path == batch \o collectorQueue \o eventQueue
  IN \A k \in Kernel :
       Cardinality({i \in DOMAIN path : path[i] = k})
         + Cardinality({i \in DOMAIN cache : cache[i].event = k})
         + Cardinality(inHand \cap {k})
         + Cardinality((acked \ Cached) \cap {k}) <= 1

\* Every event leaves the memory of the agent: the event loop and the sender
\* bring it to the backend or to the outbox, or the process that holds it ends.
EveryEventSettles ==
  \A e \in Events : e \in InMemory ~> e \notin InMemory

\* "Stores policies, events and quarantine metadata in SQLite for sync when
\* the backend is available" (LocalCache.h): while the agent keeps running, an
\* event stored in the outbox is eventually acknowledged and marked synced.
OutboxDrains ==
  <>[]running =>
    \A e \in Events :
      (\E i \in DOMAIN cache : cache[i].event = e /\ ~cache[i].synced)
        ~> (\A i \in DOMAIN cache : cache[i].event = e => cache[i].synced)

=============================================================================
