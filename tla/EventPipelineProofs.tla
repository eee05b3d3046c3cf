------------------------ MODULE EventPipelineProofs ------------------------
(***************************************************************************)
(* Proofs about the agent's event pipeline, for any sets of events, any     *)
(* batch size, any number of restarts and every choice of faults.           *)
(***************************************************************************)
EXTENDS EventPipeline, SequenceTheorems, FiniteSetTheorems, TLAPS

Row == [event : Events, synced : BOOLEAN]

\* Appending to a queue adds one event to it.
LEMMA RangeAppend ==
  ASSUME NEW S, NEW s \in Seq(S), NEW e \in S
  PROVE  Range(Append(s, e)) = Range(s) \cup {e}
<1>1. Append(s, e) \in Seq(S) /\ Len(Append(s, e)) = Len(s) + 1
  OBVIOUS
<1>2. \A i \in 1 .. Len(s) : Append(s, e)[i] = s[i]
  OBVIOUS
<1>3. Append(s, e)[Len(s) + 1] = e
  OBVIOUS
<1>4. Len(s) \in Nat
  OBVIOUS
<1>5. Range(s) = {s[i] : i \in 1 .. Len(s)}
  BY RangeEquality
<1>6. Range(Append(s, e)) = {Append(s, e)[i] : i \in 1 .. Len(s) + 1}
  BY <1>1, RangeEquality
<1> QED
  BY <1>2, <1>3, <1>4, <1>5, <1>6

\* The front and the rest of a queue are all of it.
LEMMA RangeHeadTail ==
  ASSUME NEW S, NEW s \in Seq(S), s # <<>>
  PROVE  /\ Head(s) \in S /\ Tail(s) \in Seq(S)
         /\ Len(Tail(s)) = Len(s) - 1
         /\ Range(s) = {Head(s)} \cup Range(Tail(s))
<1>1. Tail(s) \in Seq(S) /\ Head(s) \in S /\ Len(Tail(s)) = Len(s) - 1
  OBVIOUS
<1>2. Head(s) = s[1] /\ Len(s) \in Nat /\ Len(s) > 0
  OBVIOUS
<1>3. \A i \in 1 .. Len(s) - 1 : Tail(s)[i] = s[i + 1]
  OBVIOUS
<1>4. Range(s) = {s[i] : i \in 1 .. Len(s)}
  BY RangeEquality
<1>5. Range(Tail(s)) = {Tail(s)[i] : i \in 1 .. Len(s) - 1}
  BY <1>1, RangeEquality
<1>6. \A i \in 1 .. Len(s) : i = 1 \/ i - 1 \in 1 .. Len(s) - 1
  BY <1>2
<1>7. \A i \in 1 .. Len(s) - 1 : i + 1 \in 1 .. Len(s)
  BY <1>2
<1>8. ASSUME NEW i \in 1 .. Len(s) PROVE s[i] \in {Head(s)} \cup Range(Tail(s))
  <2>1. CASE i = 1
    BY <2>1, <1>2
  <2>2. CASE i - 1 \in 1 .. Len(s) - 1
    <3>1. Tail(s)[i - 1] = s[(i - 1) + 1]
      BY <2>2, <1>3
    <3>2. (i - 1) + 1 = i
      BY <1>2
    <3> QED
      BY <3>1, <3>2, <2>2, <1>5
  <2> QED
    BY <2>1, <2>2, <1>6
<1>9. ASSUME NEW i \in 1 .. Len(s) - 1 PROVE Tail(s)[i] \in Range(s)
  BY <1>3, <1>4, <1>7
<1>10. Head(s) \in Range(s)
  BY <1>2, <1>4
<1> QED
  BY <1>1, <1>4, <1>5, <1>8, <1>9, <1>10

\* What GetBatch takes and what it leaves are together what was queued.
LEMMA TakeDrop ==
  ASSUME NEW S, NEW s \in Seq(S), NEW n \in Nat
  PROVE  /\ Take(s, n) \in Seq(S) /\ Len(Take(s, n)) <= n
         /\ Drop(s, Len(Take(s, n))) \in Seq(S)
         /\ Range(s) = Range(Take(s, n)) \cup Range(Drop(s, Len(Take(s, n))))
<1> DEFINE k == IF n < Len(s) THEN n ELSE Len(s)
<1>1. Len(s) \in Nat /\ k \in 0 .. Len(s) /\ k <= n
  OBVIOUS
<1>2. Take(s, n) = SubSeq(s, 1, k)
  BY DEF Take
<1> HIDE DEF k
<1>3. \A i \in 1 .. k : i \in 1 .. Len(s)
  BY <1>1
<1>4. \A i \in k + 1 .. Len(s) : i \in 1 .. Len(s)
  BY <1>1
<1>5. Take(s, n) \in Seq(S) /\ Len(Take(s, n)) = k
  BY <1>1, <1>2, <1>3, SubSeqProperties
<1>6. \A i \in 1 .. k : Take(s, n)[i] = s[i]
  BY <1>1, <1>2, <1>3, SubSeqProperties
<1>7. Drop(s, k) \in Seq(S) /\ Len(Drop(s, k)) = Len(s) - k
  BY <1>1, <1>4, SubSeqProperties DEF Drop
<1>8. \A i \in 1 .. Len(s) - k : Drop(s, k)[i] = s[k + i]
  BY <1>1, <1>4, SubSeqProperties DEF Drop
<1>9. Range(s) = {s[i] : i \in 1 .. Len(s)}
  BY RangeEquality
<1>10. Range(Take(s, n)) = {Take(s, n)[i] : i \in 1 .. k}
  BY <1>5, RangeEquality
<1>11. Range(Drop(s, k)) = {Drop(s, k)[i] : i \in 1 .. Len(s) - k}
  BY <1>7, RangeEquality
<1>12. ASSUME NEW i \in 1 .. Len(s)
       PROVE  s[i] \in Range(Take(s, n)) \cup Range(Drop(s, k))
  <2>1. CASE i \in 1 .. k
    BY <2>1, <1>6, <1>10
  <2>2. CASE i \notin 1 .. k
    <3>1. i - k \in 1 .. Len(s) - k /\ k + (i - k) = i
      BY <2>2, <1>1
    <3>2. Drop(s, k)[i - k] = s[k + (i - k)]
      BY <3>1, <1>8
    <3> QED
      BY <3>1, <3>2, <1>11
  <2> QED
    BY <2>1, <2>2
<1>13. ASSUME NEW i \in 1 .. k PROVE Take(s, n)[i] \in Range(s)
  BY <1>3, <1>6, <1>9
<1>14. ASSUME NEW i \in 1 .. Len(s) - k PROVE Drop(s, k)[i] \in Range(s)
  <2>1. k + i \in 1 .. Len(s)
    BY <1>1
  <2> QED
    BY <2>1, <1>8, <1>9
<1>15. Range(s) \subseteq Range(Take(s, n)) \cup Range(Drop(s, k))
  BY <1>9, <1>12
<1>16. Range(Take(s, n)) \cup Range(Drop(s, k)) \subseteq Range(s)
  BY <1>10, <1>11, <1>13, <1>14
<1> QED
  BY <1>1, <1>5, <1>7, <1>15, <1>16

\* FromJson reads nothing that ToJson wrote.
LEMMA NothingReadable == \A e : ~FromJson(ToJson(e))
  BY DEF FromJson, ToJson

\* Hence SyncEvents changes neither the outbox nor the backend.
LEMMA SyncIdle == SyncEvents => UNCHANGED <<cache, eventLogs, acked>>
<1> SUFFICES ASSUME SyncEvents PROVE UNCHANGED <<cache, eventLogs, acked>>
  OBVIOUS
<1>1. GetPendingEvents(GetPendingEventIds(BatchMax)) = {}
  BY NothingReadable DEF GetPendingEvents
<1> QED
  BY <1>1 DEF SyncEvents

\* What a post may bring about: rows of the batch, and a 2xx or not.
LEMMA SendOutcome ==
  ASSUME NEW first, NEW S \in SUBSET Events, NEW r \in SendEvents(first, S)
  PROVE  r.stored \subseteq S
  BY DEF SendEvents, Inserted

\* The collector's queue stays a queue and gains at most the event.
LEMMA CollectType ==
  ASSUME collectorQueue \in Seq(Events), NEW e \in Events, CollectEvent(e)
  PROVE  /\ collectorQueue' \in Seq(Events)
         /\ Range(collectorQueue) \subseteq Range(collectorQueue')
         /\ e \in Reportable => e \in Range(collectorQueue')
<1>1. CASE e \in Reportable
  <2>1. collectorQueue' = Append(collectorQueue, e)
    BY <1>1 DEF CollectEvent, Reportable
  <2> QED
    BY <2>1, RangeAppend
<1>2. CASE e \notin Reportable
  BY <1>2 DEF CollectEvent, Reportable
<1> QED
  BY <1>1, <1>2

\* A file that is quarantined is the file of an event.
LEMMA QuarantineType ==
  ASSUME quarantined \in SUBSET Events, NEW e \in Events, QuarantineFile(e)
  PROVE  quarantined' \in SUBSET Events
  BY DEF QuarantineFile

\* Every action keeps the types.
LEMMA TypeInductive == TypeOK /\ [Next]_vars => TypeOK'
<1> SUFFICES ASSUME TypeOK, [Next]_vars PROVE TypeOK'
  OBVIOUS
<1>1. CASE UNCHANGED vars
  BY <1>1 DEF TypeOK, vars, memory, process, backend
<1>2. CASE Start
  <2>1. cacheOpen' \in BOOLEAN /\ enrolled' \in BOOLEAN /\ connected' \in BOOLEAN
    BY <1>2, PipelineAssumption, Zenon DEF Start, Initialize, TypeOK
  <2>2. restarts' \in 0 .. MaxRestarts + 1
    BY <1>2, PipelineAssumption DEF Start, TypeOK
  <2>3. batch = <<>>
    BY <1>2 DEF Start, TypeOK
  <2> QED
    BY <1>2, <2>1, <2>2, <2>3 DEF Start, TypeOK, backend
<1>3. CASE Stop
  BY <1>3 DEF Stop, TypeOK, memory, backend
<1>4. CASE StopCollector
  BY <1>4 DEF StopCollector, TypeOK, memory, backend
<1>5. CASE Shutdown
  BY <1>5 DEF Shutdown, TypeOK, memory, backend
<1>6. CASE ProcessEnds
  <2>1. InMemory \subseteq Events
    BY RangeOfSeq DEF InMemory, TypeOK
  <2>2. lost' \in SUBSET Events
    BY <1>6, <2>1 DEF ProcessEnds, TypeOK
  <2>3. <<>> \in Seq(Events) /\ Len(<<>>) <= BatchMax
    BY PipelineAssumption
  <2> QED
    BY <1>6, <2>2, <2>3 DEF ProcessEnds, TypeOK, backend
<1>7. CASE SendHeartbeatLoop
  BY <1>7 DEF SendHeartbeatLoop, Connect, TypeOK, memory, backend
<1>8. CASE BackendChanges
  BY <1>8 DEF BackendChanges, TypeOK, memory, process
<1>9. ASSUME NEW e \in Events, OnKernelBlockEvent(e) PROVE TypeOK'
  <2>1. eventQueue' \in Seq(Events)
    BY <1>9 DEF OnKernelBlockEvent, TypeOK
  <2>2. quarantined' \in SUBSET Events
    BY <1>9, QuarantineType DEF OnKernelBlockEvent, TypeOK
  <2> QED
    BY <1>9, <2>1, <2>2 DEF OnKernelBlockEvent, TypeOK, process, backend
<1>10. ASSUME NEW e \in Events, MonitorFileSystem(e) PROVE TypeOK'
  <2>1. collectorQueue' \in Seq(Events)
    BY <1>10, CollectType DEF MonitorFileSystem, TypeOK
  <2>2. quarantined' \in SUBSET Events
    BY <1>10, QuarantineType DEF MonitorFileSystem, TypeOK
  <2> QED
    BY <1>10, <2>1, <2>2 DEF MonitorFileSystem, TypeOK, process, backend
<1>11. CASE EventLoop
  <2>1. Head(eventQueue) \in Events /\ eventQueue' \in Seq(Events)
    BY <1>11, RangeHeadTail DEF EventLoop, TypeOK
  <2> QED
    BY <1>11, <2>1 DEF EventLoop, TypeOK, process, backend
<1>12. CASE ProcessEvent
  <2>1. PICK e \in inHand : QuarantineFile(e) /\ CollectEvent(e)
    BY <1>12 DEF ProcessEvent
  <2>2. e \in Events
    BY <2>1 DEF TypeOK
  <2>3. collectorQueue' \in Seq(Events) /\ quarantined' \in SUBSET Events
    BY <2>1, <2>2, CollectType, QuarantineType DEF TypeOK
  <2> QED
    BY <1>12, <2>3 DEF ProcessEvent, TypeOK, process, backend
<1>13. CASE LoopTop
  BY <1>13 DEF LoopTop, TypeOK, process, backend
<1>14. CASE GetBatch
  <2>1. /\ batch' \in Seq(Events) /\ Len(batch') <= BatchMax
        /\ collectorQueue' \in Seq(Events)
    BY <1>14, TakeDrop, PipelineAssumption DEF GetBatch, TypeOK
  <2>2. /\ pc' \in {"sync", "post", "store"}
        /\ batch' = <<>> <=> pc' \notin {"post", "store"}
    BY <1>14 DEF GetBatch, NextStop
  <2> QED
    BY <1>14, <2>1, <2>2 DEF GetBatch, TypeOK, process, backend
<1>15. CASE PostBatch
  <2>1. Range(batch) \in SUBSET Events
    BY RangeOfSeq DEF TypeOK
  <2>2. PICK r \in SendEvents(Head(batch), Range(batch)) :
           /\ eventLogs' = eventLogs \cup r.stored
           /\ IF r.ok THEN /\ pc' = "sync" /\ batch' = <<>>
                           /\ acked' = acked \cup Range(batch)
                           /\ lost' = lost \cup (Range(batch) \ r.stored)
                      ELSE pc' = "store" /\ UNCHANGED <<batch, acked, lost>>
    BY <1>15 DEF PostBatch
  <2>3. r.stored \subseteq Range(batch)
    BY <2>1, SendOutcome
  <2>4. eventLogs' \in SUBSET Events /\ acked' \in SUBSET Events
          /\ lost' \in SUBSET Events
    BY <2>1, <2>2, <2>3 DEF TypeOK
  <2>5. /\ batch' \in Seq(Events) /\ Len(batch') <= BatchMax
        /\ pc' \in {"sync", "store"}
        /\ batch' = <<>> <=> pc' \notin {"post", "store"}
    <3>1. CASE r.ok
      <4>1. pc' = "sync" /\ batch' = <<>>
        BY <3>1, <2>2
      <4> QED
        BY <4>1, PipelineAssumption
    <3>2. CASE ~r.ok
      <4>1. pc' = "store" /\ batch' = batch
        BY <3>2, <2>2
      <4> QED
        BY <4>1, <1>15 DEF PostBatch, TypeOK
    <3> QED
      BY <3>1, <3>2
  <2> QED
    BY <1>15, <2>4, <2>5 DEF PostBatch, TypeOK, process
<1>16. CASE StoreEvent
  <2>1. batch # <<>>
    BY <1>16 DEF StoreEvent, TypeOK
  <2>2. /\ Head(batch) \in Events /\ Tail(batch) \in Seq(Events)
        /\ Len(Tail(batch)) <= BatchMax
    BY <2>1, RangeHeadTail, PipelineAssumption DEF TypeOK
  <2>3. [event |-> Head(batch), synced |-> FALSE] \in Row
    BY <2>2 DEF Row
  <2>4. cache' \in Seq(Row) /\ lost' \in SUBSET Events
    <3>1. \/ /\ cache' = Append(cache, [event |-> Head(batch), synced |-> FALSE])
             /\ lost' = lost
          \/ cache' = cache /\ lost' = lost \cup {Head(batch)}
      BY <1>16 DEF StoreEvent
    <3>2. cache \in Seq(Row) /\ lost \in SUBSET Events
      BY DEF TypeOK, Row
    <3> DEFINE row == [event |-> Head(batch), synced |-> FALSE]
    <3>3. row \in Row
      BY <2>3
    <3>4. cache' = Append(cache, row) \/ cache' = cache
      BY <3>1
    <3> HIDE DEF row
    <3>5. cache' \in Seq(Row)
      BY <3>2, <3>3, <3>4
    <3>6. lost' \in SUBSET Events
      BY <3>1, <3>2, <2>2
    <3> QED
      BY <3>5, <3>6
  <2>5. pc' \in {"sync", "store"} /\ (batch' = <<>> <=> pc' \notin {"post", "store"})
    BY <1>16 DEF StoreEvent
  <2> QED
    BY <1>16, <2>2, <2>4, <2>5 DEF StoreEvent, TypeOK, process, backend, Row
<1>17. CASE SyncEvents
  BY <1>17, SyncIdle DEF SyncEvents, TypeOK, process, backend
<1> QED
  BY <1>1, <1>2, <1>3, <1>4, <1>5, <1>6, <1>7, <1>8, <1>9, <1>10, <1>11, <1>12,
     <1>13, <1>14, <1>15, <1>16, <1>17 DEF Next, SendTelemetry

\* The variables keep their types and the sender holds a batch exactly while
\* it posts or stores one, whatever fails and however often the agent restarts.
THEOREM TypeCorrect == Spec => []TypeOK
<1>1. Init => TypeOK
  <2> SUFFICES ASSUME Init PROVE TypeOK
    OBVIOUS
  <2>1. <<>> \in Seq(Events) /\ <<>> \in Seq(Row) /\ Len(<<>>) <= BatchMax
    BY PipelineAssumption
  <2>2. restarts \in 0 .. MaxRestarts + 1
    BY PipelineAssumption DEF Init
  <2> QED
    BY <2>1, <2>2 DEF Init, TypeOK, Row
<1> QED
  BY <1>1, TypeInductive, PTL DEF Spec

\* Where an event that was raised and is worth reporting may be.
Accounted == InMemory \cup Cached \cup eventLogs \cup lost

\* The events of an outbox with one more row.
LEMMA CachedAppend ==
  ASSUME cache \in Seq(Row), NEW row \in Row, cache' = Append(cache, row)
  PROVE  Cached \cup {row.event} \subseteq Cached'
<1>1. /\ DOMAIN cache = 1 .. Len(cache) /\ Len(cache) \in Nat
      /\ DOMAIN cache' = 1 .. Len(cache) + 1
  OBVIOUS
<1>2. \A i \in 1 .. Len(cache) : cache'[i] = cache[i]
  OBVIOUS
<1>3. cache'[Len(cache) + 1] = row
  OBVIOUS
<1>4. Cached \subseteq Cached'
  BY <1>1, <1>2 DEF Cached
<1>5. row.event \in Cached'
  BY <1>1, <1>3 DEF Cached
<1> QED
  BY <1>4, <1>5

\* No step makes an event that is worth reporting disappear.
LEMMA ConservedInductive ==
  TypeOK /\ TelemetryConserved /\ [Next]_vars => TelemetryConserved'
<1> SUFFICES ASSUME TypeOK, TelemetryConserved, [Next]_vars,
                    NEW e \in Reportable, e \in made'
             PROVE  e \in Accounted'
  BY DEF TelemetryConserved, Accounted
<1>0. e \in made => e \in Accounted
  BY DEF TelemetryConserved, Accounted
<1>a. ASSUME made' = made, InMemory \subseteq Accounted', Cached \subseteq Cached',
             eventLogs \subseteq eventLogs', lost \subseteq lost'
      PROVE  e \in Accounted'
  BY <1>0, <1>a DEF Accounted
<1>1. CASE UNCHANGED <<memory, cache, eventLogs, made, lost>>
  BY <1>1, <1>0 DEF Accounted, InMemory, Cached, memory
<1>2. CASE ProcessEnds
  BY <1>2, <1>0 DEF ProcessEnds, Accounted, Cached, backend
<1>3. ASSUME NEW k \in Events, OnKernelBlockEvent(k) PROVE e \in Accounted'
  <2>1. Range(eventQueue') = Range(eventQueue) \cup {k}
    BY <1>3, RangeAppend DEF OnKernelBlockEvent, TypeOK
  <2>2. InMemory' = InMemory \cup {k}
    BY <1>3, <2>1 DEF OnKernelBlockEvent, InMemory
  <2>3. made' = made \cup {k} /\ Cached' = Cached /\ eventLogs' = eventLogs
          /\ lost' = lost
    BY <1>3 DEF OnKernelBlockEvent, Cached, backend
  <2> QED
    BY <1>0, <2>2, <2>3 DEF Accounted
<1>4. ASSUME NEW u \in Events, MonitorFileSystem(u) PROVE e \in Accounted'
  <2>1. /\ Range(collectorQueue) \subseteq Range(collectorQueue')
        /\ u \in Reportable => u \in Range(collectorQueue')
    BY <1>4, CollectType DEF MonitorFileSystem, TypeOK
  <2>2. InMemory \subseteq InMemory' /\ (u \in Reportable => u \in InMemory')
    BY <1>4, <2>1 DEF MonitorFileSystem, InMemory
  <2>3. made' = made \cup {u} /\ Cached' = Cached /\ eventLogs' = eventLogs
          /\ lost' = lost
    BY <1>4 DEF MonitorFileSystem, Cached, backend
  <2> QED
    BY <1>0, <2>2, <2>3 DEF Accounted
<1>5. CASE EventLoop
  <2>1. Range(eventQueue) = {Head(eventQueue)} \cup Range(eventQueue')
    BY <1>5, RangeHeadTail DEF EventLoop, TypeOK
  <2>2. InMemory \subseteq InMemory'
    BY <1>5, <2>1 DEF EventLoop, InMemory
  <2> QED
    BY <1>5, <2>2, <1>a DEF EventLoop, Accounted, Cached, backend
<1>6. CASE ProcessEvent
  <2>1. PICK x \in inHand : CollectEvent(x)
    BY <1>6 DEF ProcessEvent
  <2>2. inHand = {x} /\ x \in Events
    BY <2>1 DEF TypeOK
  <2>3. /\ Range(collectorQueue) \subseteq Range(collectorQueue')
        /\ x \in Reportable => x \in Range(collectorQueue')
    BY <2>1, <2>2, CollectType DEF TypeOK
  <2>4. e \in InMemory => e \in InMemory'
    BY <1>6, <2>2, <2>3 DEF ProcessEvent, InMemory
  <2>5. made' = made /\ Cached' = Cached /\ eventLogs' = eventLogs /\ lost' = lost
    BY <1>6 DEF ProcessEvent, Cached, backend
  <2> QED
    BY <1>0, <2>4, <2>5 DEF Accounted
<1>7. CASE GetBatch
  <2>1. Range(collectorQueue) = Range(batch') \cup Range(collectorQueue')
    BY <1>7, TakeDrop, PipelineAssumption DEF GetBatch, TypeOK
  <2>2. Range(batch) = {}
    BY <1>7 DEF GetBatch, TypeOK, Range
  <2>3. InMemory \subseteq InMemory'
    BY <1>7, <2>1, <2>2 DEF GetBatch, InMemory
  <2> QED
    BY <1>7, <2>3, <1>a DEF GetBatch, Accounted, Cached, backend
<1>8. CASE PostBatch
  <2>1. PICK r \in SendEvents(Head(batch), Range(batch)) :
           /\ eventLogs' = eventLogs \cup r.stored
           /\ IF r.ok THEN /\ pc' = "sync" /\ batch' = <<>>
                           /\ acked' = acked \cup Range(batch)
                           /\ lost' = lost \cup (Range(batch) \ r.stored)
                      ELSE pc' = "store" /\ UNCHANGED <<batch, acked, lost>>
    BY <1>8 DEF PostBatch
  <2>2. \/ lost' = lost \cup (Range(batch) \ r.stored)
        \/ batch' = batch /\ lost' = lost
    BY <2>1
  <2>3. Range(batch) \subseteq Accounted' /\ lost \subseteq lost'
    BY <2>1, <2>2 DEF Accounted, InMemory
  <2>4. InMemory \subseteq Accounted'
    BY <1>8, <2>3 DEF PostBatch, InMemory, Accounted
  <2>5. made' = made /\ Cached' = Cached /\ eventLogs \subseteq eventLogs'
    BY <1>8, <2>1 DEF PostBatch, Cached
  <2> QED
    BY <2>3, <2>4, <2>5, <1>a
<1>9. CASE StoreEvent
  <2>1. batch # <<>>
    BY <1>9 DEF StoreEvent, TypeOK
  <2>2. /\ Head(batch) \in Events
        /\ Range(batch) = {Head(batch)} \cup Range(batch')
    BY <1>9, <2>1, RangeHeadTail DEF StoreEvent, TypeOK
  <2> DEFINE row == [event |-> Head(batch), synced |-> FALSE]
  <2>3. row \in Row /\ row.event = Head(batch)
    BY <2>2 DEF Row
  <2>4. \/ cache' = Append(cache, row) /\ lost' = lost
        \/ cache' = cache /\ lost' = lost \cup {Head(batch)}
    BY <1>9 DEF StoreEvent
  <2> HIDE DEF row
  <2>5. cache \in Seq(Row)
    BY DEF TypeOK, Row
  <2>6. CASE cache' = Append(cache, row) /\ lost' = lost
    <3>1. Cached \cup {Head(batch)} \subseteq Cached'
      BY <2>3, <2>5, <2>6, CachedAppend
    <3>2. InMemory \subseteq Accounted'
      BY <1>9, <2>2, <3>1 DEF StoreEvent, InMemory, Accounted
    <3> QED
      BY <1>9, <2>6, <3>1, <3>2, <1>a DEF StoreEvent, backend
  <2>7. CASE cache' = cache /\ lost' = lost \cup {Head(batch)}
    <3>1. InMemory \subseteq Accounted'
      BY <1>9, <2>2, <2>7 DEF StoreEvent, InMemory, Accounted
    <3> QED
      BY <1>9, <2>7, <3>1, <1>a DEF StoreEvent, backend, Cached
  <2> QED
    BY <2>4, <2>6, <2>7
<1>10. CASE SyncEvents
  <2>1. UNCHANGED <<cache, eventLogs>>
    BY <1>10, SyncIdle
  <2>2. InMemory' = InMemory /\ made' = made /\ lost' = lost
    BY <1>10 DEF SyncEvents, InMemory
  <2> QED
    BY <2>1, <2>2, <1>0 DEF Accounted, Cached
<1>11. CASE LoopTop
  <2>1. InMemory' = InMemory
    BY <1>11 DEF LoopTop, InMemory
  <2> QED
    BY <1>11, <2>1, <1>0 DEF LoopTop, Accounted, Cached, backend
<1>12. CASE Start
  <2>1. InMemory' = InMemory
    BY <1>12 DEF Start, InMemory
  <2> QED
    BY <1>12, <2>1, <1>0 DEF Start, Accounted, Cached, backend
<1>13. Stop \/ StopCollector \/ Shutdown \/ SendHeartbeatLoop \/ BackendChanges
         => UNCHANGED <<memory, cache, eventLogs, made, lost>>
  BY DEF Stop, StopCollector, Shutdown, SendHeartbeatLoop, BackendChanges, backend
<1>14. UNCHANGED vars => UNCHANGED <<memory, cache, eventLogs, made, lost>>
  BY DEF vars, backend
<1> QED
  BY <1>1, <1>2, <1>3, <1>4, <1>5, <1>6, <1>7, <1>8, <1>9, <1>10, <1>11, <1>12,
     <1>13, <1>14 DEF Next, SendTelemetry

\* For any sets of events, any batch size, any number of restarts and every
\* choice of faults, an event that was raised and passes the collector's gate
\* is in memory, in the outbox, in event_logs, or was given up at a named point.
THEOREM Conserved == Spec => []TelemetryConserved
<1>1. Init => TelemetryConserved
  BY DEF Init, TelemetryConserved
<1> QED
  BY <1>1, TypeCorrect, ConservedInductive, PTL DEF Spec

\* No row of the outbox is ever marked synced, in any configuration: the
\* general form of the disagreement between ToJson and FromJson.
OutboxStuck == \A i \in DOMAIN cache : ~cache[i].synced

THEOREM NothingIsEverSynced == Spec => []OutboxStuck
<1>1. Init => OutboxStuck
  BY DEF Init, OutboxStuck
<1>2. TypeOK /\ OutboxStuck /\ [Next]_vars => OutboxStuck'
  <2> SUFFICES ASSUME TypeOK, OutboxStuck, [Next]_vars PROVE OutboxStuck'
    OBVIOUS
  <2>1. CASE UNCHANGED cache
    BY <2>1 DEF OutboxStuck
  <2>2. CASE StoreEvent
    <3> DEFINE row == [event |-> Head(batch), synced |-> FALSE]
    <3>1. batch # <<>> /\ cache \in Seq(Row)
      BY <2>2 DEF StoreEvent, TypeOK, Row
    <3>2. row \in Row /\ ~row.synced
      BY <3>1, RangeHeadTail DEF Row, TypeOK
    <3>3. cache' = Append(cache, row) \/ cache' = cache
      BY <2>2 DEF StoreEvent
    <3> HIDE DEF row
    <3>4. CASE cache' = Append(cache, row)
      <4>1. \A i \in DOMAIN cache' : cache'[i] = row
                \/ (i \in DOMAIN cache /\ cache'[i] = cache[i])
        BY <3>1, <3>2, <3>4
      <4> QED
        BY <4>1, <3>2 DEF OutboxStuck
    <3> QED
      BY <3>3, <3>4, <2>1
  <2>3. SyncEvents => UNCHANGED cache
    BY SyncIdle
  <2>4. ASSUME Next, ~StoreEvent, ~SyncEvents PROVE UNCHANGED cache
    BY <2>4 DEF Next, SendTelemetry, Start, Stop, StopCollector, Shutdown,
       ProcessEnds, SendHeartbeatLoop, BackendChanges, OnKernelBlockEvent,
       MonitorFileSystem, EventLoop, ProcessEvent, LoopTop, GetBatch, PostBatch
  <2> QED
    BY <2>1, <2>2, <2>3, <2>4 DEF vars
<1> QED
  BY <1>1, <1>2, TypeCorrect, PTL DEF Spec

-----------------------------------------------------------------------------
(* Custody of a kernel event. *)

\* k stands at most once in s.
Single(s, k) == \A i, j \in DOMAIN s : s[i] = k /\ s[j] = k => i = j

CachedOnce(k) ==
  \A i, j \in DOMAIN cache : cache[i].event = k /\ cache[j].event = k => i = j

\* The places that may hold a kernel event that was raised, and whether they do.
Places == {"batch", "collector", "queue", "hand", "outbox", "acked"}
Holds(place, k) ==
  \/ place = "batch" /\ k \in Range(batch)
  \/ place = "collector" /\ k \in Range(collectorQueue)
  \/ place = "queue" /\ k \in Range(eventQueue)
  \/ place = "hand" /\ k \in inHand
  \/ place = "outbox" /\ k \in Cached
  \/ place = "acked" /\ k \in acked

\* One place holds it, once, and only if it was raised: the inductive form of
\* ExclusiveCustody.
Custody(k) ==
  /\ Single(batch, k) /\ Single(collectorQueue, k) /\ Single(eventQueue, k)
  /\ CachedOnce(k)
  /\ \A p, q \in Places : Holds(p, k) /\ Holds(q, k) => p = q
  /\ \A p \in Places : Holds(p, k) => k \in made

\* What the operations on the queues do to one event.
LEMMA SingleAppend ==
  ASSUME NEW S, NEW s \in Seq(S), NEW e \in S, NEW k, Single(s, k),
         e = k => k \notin Range(s)
  PROVE  Single(Append(s, e), k) /\ (k \in Range(Append(s, e)) <=> k \in Range(s) \/ e = k)
<1> DEFINE t == Append(s, e)
<1>1. /\ DOMAIN s = 1 .. Len(s) /\ DOMAIN t = 1 .. Len(s) + 1 /\ Len(s) \in Nat
      /\ \A i \in 1 .. Len(s) : t[i] = s[i]
      /\ t[Len(s) + 1] = e
  OBVIOUS
<1> HIDE DEF t
<1>2. \A i \in DOMAIN t : i \in DOMAIN s \/ i = Len(s) + 1
  BY <1>1
<1>3. Single(t, k)
  BY <1>1, <1>2 DEF Single, Range
<1>4. Range(t) = Range(s) \cup {e}
  BY RangeAppend DEF t
<1> QED
  BY <1>3, <1>4 DEF t

LEMMA SingleTail ==
  ASSUME NEW S, NEW s \in Seq(S), s # <<>>, NEW k, Single(s, k)
  PROVE  /\ Single(Tail(s), k)
         /\ k \in Range(Tail(s)) <=> k \in Range(s) /\ k # Head(s)
<1> DEFINE t == Tail(s)
<1>1. /\ DOMAIN s = 1 .. Len(s) /\ DOMAIN t = 1 .. Len(s) - 1 /\ Len(s) \in Nat \ {0}
      /\ \A i \in 1 .. Len(s) - 1 : t[i] = s[i + 1]
      /\ Head(s) = s[1]
  OBVIOUS
<1>2. Range(s) = {Head(s)} \cup Range(t)
  BY RangeHeadTail
<1> HIDE DEF t
<1>3. \A i \in DOMAIN t : i + 1 \in DOMAIN s /\ t[i] = s[i + 1] /\ i + 1 # 1
  BY <1>1
<1>4. \A i, j \in DOMAIN t : i + 1 = j + 1 => i = j
  BY <1>1
<1>5. Single(t, k)
  BY <1>3, <1>4 DEF Single
<1>6. 1 \in DOMAIN s
  BY <1>1
<1>7. k = Head(s) => k \notin Range(t)
  BY <1>1, <1>3, <1>6 DEF Single, Range
<1> QED
  BY <1>2, <1>5, <1>7 DEF t

LEMMA SingleTakeDrop ==
  ASSUME NEW S, NEW s \in Seq(S), NEW n \in Nat, NEW k, Single(s, k)
  PROVE  /\ Single(Take(s, n), k) /\ Single(Drop(s, Len(Take(s, n))), k)
         /\ ~(k \in Range(Take(s, n)) /\ k \in Range(Drop(s, Len(Take(s, n)))))
<1> DEFINE m == IF n < Len(s) THEN n ELSE Len(s)
           a == Take(s, n)
           b == Drop(s, m)
<1>0. DOMAIN s = 1 .. Len(s)
  OBVIOUS
<1>1. Len(s) \in Nat /\ m \in 0 .. Len(s)
  OBVIOUS
<1>2. a = SubSeq(s, 1, m)
  BY DEF Take
<1> HIDE DEF m
<1>3. \A i \in 1 .. m : i \in 1 .. Len(s)
  BY <1>1
<1>4. \A i \in m + 1 .. Len(s) : i \in 1 .. Len(s)
  BY <1>1
<1>5. a \in Seq(S) /\ Len(a) = m /\ \A i \in 1 .. m : a[i] = s[i]
  BY <1>1, <1>2, <1>3, SubSeqProperties
<1>6. b \in Seq(S) /\ Len(b) = Len(s) - m /\ \A i \in 1 .. Len(s) - m : b[i] = s[m + i]
  <2>1. b \in Seq(S) /\ Len(b) = Len(s) - m
    BY <1>1, <1>4, SubSeqProperties DEF Drop
  <2>2. \A i \in 1 .. Len(s) - m : b[i] = s[m + i]
    BY <1>1, <1>4, SubSeqProperties DEF Drop
  <2> QED
    BY <2>1, <2>2
<1> HIDE DEF a, b
<1>7. \A i \in DOMAIN a : i \in DOMAIN s /\ i <= m /\ a[i] = s[i]
  BY <1>0, <1>1, <1>5
<1>8. \A i \in DOMAIN b : m + i \in DOMAIN s /\ m + i > m /\ b[i] = s[m + i]
  <2> TAKE i \in DOMAIN b
  <2>1. i \in 1 .. Len(s) - m
    BY <1>6
  <2>2. m + i \in 1 .. Len(s) /\ m + i > m
    BY <1>1, <2>1
  <2> QED
    BY <1>0, <1>6, <2>1, <2>2
<1>9. \A i, j \in DOMAIN b : m + i = m + j => i = j
  BY <1>1, <1>6
<1>10. \A i \in DOMAIN a, j \in DOMAIN b : i # m + j
  BY <1>1, <1>5, <1>6
<1>11. Single(a, k)
  BY <1>7 DEF Single
<1>12. Single(b, k)
  BY <1>8, <1>9 DEF Single
<1>13. ~(k \in Range(a) /\ k \in Range(b))
  BY <1>7, <1>8, <1>10 DEF Single, Range
<1> QED
  BY <1>5, <1>11, <1>12, <1>13 DEF a, b

LEMMA CachedOnceAppend ==
  ASSUME cache \in Seq(Row), NEW row \in Row, cache' = Append(cache, row), NEW k,
         CachedOnce(k), row.event = k => k \notin Cached
  PROVE  CachedOnce(k)' /\ (k \in Cached' <=> k \in Cached \/ row.event = k)
<1>1. /\ DOMAIN cache = 1 .. Len(cache) /\ Len(cache) \in Nat
      /\ DOMAIN cache' = 1 .. Len(cache) + 1
  OBVIOUS
<1>2. \A i \in 1 .. Len(cache) : cache'[i] = cache[i]
  OBVIOUS
<1>3. cache'[Len(cache) + 1] = row
  OBVIOUS
<1>4. \A i \in DOMAIN cache' : i \in DOMAIN cache \/ i = Len(cache) + 1
  BY <1>1
<1>5. CachedOnce(k)'
  BY <1>1, <1>2, <1>3, <1>4 DEF CachedOnce, Cached
<1>6. k \in Cached' <=> k \in Cached \/ row.event = k
  BY <1>1, <1>2, <1>3, <1>4 DEF Cached
<1> QED
  BY <1>5, <1>6

LEMMA CustodyInductive ==
  ASSUME TypeOK, [Next]_vars, NEW k \in Kernel, Custody(k)
  PROVE  Custody(k)'
<1> DEFINE Kept == UNCHANGED <<eventQueue, inHand, collectorQueue, batch, cache, acked, made>>
<1>0. Kept => Custody(k)'
  BY DEF Custody, Single, CachedOnce, Holds, Cached
<1>1. CASE ProcessEnds
  <2>1. /\ batch' = <<>> /\ collectorQueue' = <<>> /\ eventQueue' = <<>> /\ inHand' = {}
        /\ cache' = cache /\ acked' = acked /\ made' = made
    BY <1>1 DEF ProcessEnds, backend
  <2>2. \A p \in Places : Holds(p, k)' => Holds(p, k)
    BY <2>1 DEF Holds, Cached, Range
  <2> QED
    BY <2>1, <2>2 DEF Custody, Single, CachedOnce
<1>2. ASSUME NEW e \in Events, OnKernelBlockEvent(e) PROVE Custody(k)'
  <2>1. /\ eventQueue' = Append(eventQueue, e) /\ e \notin made /\ made' = made \cup {e}
        /\ UNCHANGED <<batch, collectorQueue, inHand, cache, acked>>
    BY <1>2 DEF OnKernelBlockEvent, backend
  <2>2. k = e => \A p \in Places : ~Holds(p, k)
    BY <2>1 DEF Custody
  <2>3. k = e => k \notin Range(eventQueue)
    BY <2>2 DEF Holds, Places
  <2>4. Single(eventQueue', k) /\ (k \in Range(eventQueue') <=> k \in Range(eventQueue) \/ e = k)
    BY <2>1, <2>3, SingleAppend DEF Custody, TypeOK
  <2>5. \A p \in Places : Holds(p, k)' <=> Holds(p, k) \/ (p = "queue" /\ e = k)
    BY <2>1, <2>4 DEF Holds, Cached
  <2> QED
    BY <2>1, <2>2, <2>4, <2>5 DEF Custody, CachedOnce
<1>3. ASSUME NEW e \in Events, MonitorFileSystem(e) PROVE Custody(k)'
  <2>1. e # k
    BY <1>3, PipelineAssumption DEF MonitorFileSystem
  <2>2. /\ UNCHANGED <<batch, eventQueue, inHand, cache, acked>> /\ made \subseteq made'
        /\ collectorQueue' = Append(collectorQueue, e) \/ collectorQueue' = collectorQueue
    BY <1>3 DEF MonitorFileSystem, CollectEvent, backend
  <2>3. Single(collectorQueue', k) /\ (k \in Range(collectorQueue') <=> k \in Range(collectorQueue))
    <3>1. CASE collectorQueue' = Append(collectorQueue, e)
      BY <2>1, <3>1, SingleAppend DEF Custody, TypeOK
    <3>2. CASE collectorQueue' = collectorQueue
      BY <3>2 DEF Custody
    <3> QED
      BY <2>2, <3>1, <3>2
  <2>4. \A p \in Places : Holds(p, k)' <=> Holds(p, k)
    BY <2>2, <2>3 DEF Holds, Cached
  <2> QED
    BY <2>2, <2>3, <2>4 DEF Custody, CachedOnce
<1>4. CASE EventLoop
  <2>1. /\ eventQueue # <<>> /\ inHand = {} /\ inHand' = {Head(eventQueue)}
        /\ eventQueue' = Tail(eventQueue)
        /\ UNCHANGED <<batch, collectorQueue, cache, acked, made>>
    BY <1>4 DEF EventLoop, backend
  <2>2. /\ Single(eventQueue', k)
        /\ k \in Range(eventQueue') <=> k \in Range(eventQueue) /\ k # Head(eventQueue)
    BY <2>1, SingleTail DEF Custody, TypeOK
  <2>3. Head(eventQueue) \in Range(eventQueue)
    BY <2>1, RangeHeadTail DEF TypeOK
  <2>4. \A p \in Places \ {"hand"} : Holds(p, k)' => Holds(p, k)
    BY <2>1, <2>2 DEF Holds, Cached
  <2>5. Holds("hand", k)' => Holds("queue", k) /\ ~Holds("queue", k)'
    BY <2>1, <2>2, <2>3 DEF Holds
  <2>6. \A p \in Places \ {"hand", "queue"} : ~(Holds(p, k)' /\ Holds("hand", k)')
    BY <2>4, <2>5 DEF Custody, Places
  <2> QED
    BY <2>1, <2>2, <2>4, <2>5, <2>6 DEF Custody, CachedOnce, Places
<1>5. CASE ProcessEvent
  <2>1. PICK e \in inHand : CollectEvent(e)
    BY <1>5 DEF ProcessEvent
  <2>2. e \in Events /\ inHand = {e}
    BY <2>1 DEF TypeOK
  <2>3. /\ inHand' = {} /\ UNCHANGED <<batch, eventQueue, cache, acked, made>>
        /\ collectorQueue' = Append(collectorQueue, e) \/ collectorQueue' = collectorQueue
    BY <1>5, <2>1 DEF ProcessEvent, CollectEvent, backend
  <2>4. e = k => Holds("hand", k) /\ \A p \in Places \ {"hand"} : ~Holds(p, k)
    BY <2>2 DEF Custody, Holds, Places
  <2>5. e = k => k \notin Range(collectorQueue)
    BY <2>4 DEF Holds, Places
  <2>6. /\ Single(collectorQueue', k)
        /\ k \in Range(collectorQueue') => k \in Range(collectorQueue) \/ e = k
    <3>1. CASE collectorQueue' = Append(collectorQueue, e)
      BY <2>2, <2>5, <3>1, SingleAppend DEF Custody, TypeOK
    <3>2. CASE collectorQueue' = collectorQueue
      BY <3>2 DEF Custody
    <3> QED
      BY <2>3, <3>1, <3>2
  <2>7. \A p \in Places : Holds(p, k)' => Holds(p, k) \/ (p = "collector" /\ e = k)
    BY <2>3, <2>6 DEF Holds, Cached
  <2>8. ~Holds("hand", k)'
    BY <2>3 DEF Holds
  <2>9. \A p, q \in Places : Holds(p, k)' /\ Holds(q, k)' => p = q
    BY <2>4, <2>7, <2>8 DEF Custody
  <2>10. \A p \in Places : Holds(p, k)' => k \in made'
    BY <2>3, <2>4, <2>7 DEF Custody, Places
  <2>11. CachedOnce(k)' /\ Single(batch', k) /\ Single(eventQueue', k)
    BY <2>3 DEF Custody, CachedOnce
  <2> QED
    BY <2>6, <2>9, <2>10, <2>11 DEF Custody
<1>6. CASE GetBatch
  <2>1. /\ batch' = Take(collectorQueue, BatchMax)
        /\ collectorQueue' = Drop(collectorQueue, Len(batch'))
        /\ UNCHANGED <<eventQueue, inHand, cache, acked, made>>
    BY <1>6 DEF GetBatch, backend
  <2>2. /\ Single(batch', k) /\ Single(collectorQueue', k)
        /\ ~(k \in Range(batch') /\ k \in Range(collectorQueue'))
    BY <2>1, SingleTakeDrop, PipelineAssumption DEF Custody, TypeOK
  <2>3. Range(collectorQueue) = Range(batch') \cup Range(collectorQueue')
    BY <2>1, TakeDrop, PipelineAssumption DEF TypeOK
  <2>4. \A p \in Places \ {"batch"} : Holds(p, k)' => Holds(p, k)
    BY <2>1, <2>3 DEF Holds, Cached
  <2>5. Holds("batch", k)' => Holds("collector", k) /\ ~Holds("collector", k)'
    BY <2>2, <2>3 DEF Holds
  <2>6. \A p \in Places \ {"batch", "collector"} : ~(Holds(p, k)' /\ Holds("batch", k)')
    BY <2>4, <2>5 DEF Custody, Places
  <2> QED
    BY <2>1, <2>2, <2>4, <2>5, <2>6 DEF Custody, CachedOnce, Places
<1>7. CASE PostBatch
  <2>1. /\ UNCHANGED <<eventQueue, inHand, collectorQueue, cache, made>>
        /\ \/ batch' = <<>> /\ acked' = acked \cup Range(batch)
           \/ batch' = batch /\ acked' = acked
    BY <1>7 DEF PostBatch
  <2>2. CASE batch' = batch /\ acked' = acked
    BY <1>0, <2>1, <2>2
  <2>3. CASE batch' = <<>> /\ acked' = acked \cup Range(batch)
    <3>1. Single(batch', k) /\ ~Holds("batch", k)'
      BY <2>3 DEF Single, Holds, Range
    <3>2. \A p \in Places \ {"acked", "batch"} : Holds(p, k)' <=> Holds(p, k)
      BY <2>1 DEF Holds, Cached
    <3>3. Holds("acked", k)' <=> Holds("acked", k) \/ Holds("batch", k)
      BY <2>3 DEF Holds
    <3> QED
      BY <2>1, <3>1, <3>2, <3>3 DEF Custody, CachedOnce, Places
  <2> QED
    BY <2>1, <2>2, <2>3
<1>8. CASE StoreEvent
  <2>1. batch # <<>> /\ batch \in Seq(Events) /\ cache \in Seq(Row)
    BY <1>8 DEF StoreEvent, TypeOK, Row
  <2> DEFINE row == [event |-> Head(batch), synced |-> FALSE]
  <2>2. row \in Row /\ row.event = Head(batch) /\ Head(batch) \in Range(batch)
    BY <2>1, RangeHeadTail DEF Row
  <2>3. cache' = Append(cache, row) \/ cache' = cache
    BY <1>8 DEF StoreEvent
  <2>4. batch' = Tail(batch) /\ UNCHANGED <<eventQueue, inHand, collectorQueue, acked, made>>
    BY <1>8 DEF StoreEvent, backend
  <2> HIDE DEF row
  <2>5. Single(batch', k) /\ (k \in Range(batch') <=> k \in Range(batch) /\ k # Head(batch))
    BY <2>1, <2>4, SingleTail DEF Custody
  <2>6. k = Head(batch) => Holds("batch", k) /\ \A p \in Places \ {"batch"} : ~Holds(p, k)
    BY <2>2 DEF Custody, Holds, Places
  <2>7. k = Head(batch) => k \notin Cached
    BY <2>6 DEF Holds, Places
  <2>8. CachedOnce(k)' /\ (k \in Cached' => k \in Cached \/ k = Head(batch))
    <3>1. CASE cache' = Append(cache, row)
      BY <2>1, <2>2, <2>7, <3>1, CachedOnceAppend DEF Custody
    <3>2. CASE cache' = cache
      BY <3>2 DEF Custody, CachedOnce, Cached
    <3> QED
      BY <2>3, <3>1, <3>2
  <2>9. \A p \in Places : Holds(p, k)' => Holds(p, k) \/ (p = "outbox" /\ k = Head(batch))
    BY <2>4, <2>5, <2>8 DEF Holds
  <2>10. k = Head(batch) => ~Holds("batch", k)'
    BY <2>5 DEF Holds
  <2> QED
    BY <2>4, <2>5, <2>6, <2>8, <2>9, <2>10 DEF Custody, Places
<1>9. SyncEvents => Kept
  BY SyncIdle DEF SyncEvents
<1>10. Start \/ Stop \/ StopCollector \/ Shutdown \/ SendHeartbeatLoop \/ BackendChanges \/ LoopTop
         => Kept
  BY DEF Start, Stop, StopCollector, Shutdown, SendHeartbeatLoop, BackendChanges, LoopTop,
         memory, backend
<1>11. UNCHANGED vars => Kept
  BY DEF vars, memory, backend
<1> HIDE DEF Kept
<1> QED
  BY <1>0, <1>1, <1>2, <1>3, <1>4, <1>5, <1>6, <1>7, <1>8, <1>9, <1>10, <1>11
     DEF Next, SendTelemetry

\* The cardinality of a set with at most one element.
LEMMA AtMostOne ==
  ASSUME NEW S, \A i, j \in S : i = j
  PROVE  Cardinality(S) = IF S = {} THEN 0 ELSE 1
<1>1. CASE S = {}
  BY <1>1, FS_EmptySet
<1>2. CASE S # {}
  <2>1. PICK x : S = {x}
    BY <1>2
  <2> QED
    BY <1>2, <2>1, FS_Singleton
<1> QED
  BY <1>1, <1>2

\* Custody of k in the terms of ExclusiveCustody.
LEMMA CustodyCounted ==
  ASSUME TypeOK, NEW k \in Kernel, Custody(k)
  PROVE  LET path == batch \o collectorQueue \o eventQueue
         IN  Cardinality({i \in DOMAIN path : path[i] = k})
               + Cardinality({i \in DOMAIN cache : cache[i].event = k})
               + Cardinality(inHand \cap {k})
               + Cardinality((acked \ Cached) \cap {k}) <= 1
<1> DEFINE path == batch \o collectorQueue \o eventQueue
           onPath == {i \in DOMAIN path : path[i] = k}
           inCache == {i \in DOMAIN cache : cache[i].event = k}
           held == inHand \cap {k}
           done == (acked \ Cached) \cap {k}
<1> DEFINE a == Len(batch)
           b == Len(collectorQueue)
<1>1. a \in Nat /\ b \in Nat /\ Len(eventQueue) \in Nat
  BY DEF TypeOK
<1>2. /\ DOMAIN path = 1 .. a + b + Len(eventQueue)
      /\ DOMAIN batch = 1 .. a /\ DOMAIN collectorQueue = 1 .. b
      /\ DOMAIN eventQueue = 1 .. Len(eventQueue)
      /\ \A i \in 1 .. a : path[i] = batch[i]
      /\ \A i \in a + 1 .. a + b : path[i] = collectorQueue[i - a]
      /\ \A i \in a + b + 1 .. a + b + Len(eventQueue) : path[i] = eventQueue[i - (a + b)]
  BY <1>1 DEF TypeOK
<1>3. \A i \in onPath :
        \/ i \in DOMAIN batch /\ batch[i] = k /\ Holds("batch", k)
        \/ i - a \in DOMAIN collectorQueue /\ collectorQueue[i - a] = k /\ Holds("collector", k)
        \/ /\ i - (a + b) \in DOMAIN eventQueue /\ eventQueue[i - (a + b)] = k
           /\ Holds("queue", k)
  <2> TAKE i \in onPath
  <2>1. CASE i \in 1 .. a
    BY <1>2, <2>1 DEF Holds, Range
  <2>2. CASE i \in a + 1 .. a + b
    <3>1. i - a \in 1 .. b
      BY <1>1, <2>2
    <3> QED
      BY <1>2, <2>2, <3>1 DEF Holds, Range
  <2>3. CASE i \in a + b + 1 .. a + b + Len(eventQueue)
    <3>1. i - (a + b) \in 1 .. Len(eventQueue)
      BY <1>1, <2>3
    <3> QED
      BY <1>2, <2>3, <3>1 DEF Holds, Range
  <2> QED
    BY <1>1, <1>2, <2>1, <2>2, <2>3
<1>4. \A i \in onPath : i \in Int
  BY <1>1, <1>2
<1> HIDE DEF path, a, b
<1>5. \A i, j \in onPath : i = j
  <2> HIDE DEF onPath
  <2> TAKE i, j \in onPath
  <2>1. i \in Int /\ j \in Int
    BY <1>4
  <2>2. CASE Holds("batch", k)
    <3>1. ~Holds("collector", k) /\ ~Holds("queue", k)
      BY <2>2 DEF Custody, Places
    <3> QED
      BY <1>3, <3>1 DEF Custody, Single
  <2>3. CASE Holds("collector", k)
    <3>1. ~Holds("batch", k) /\ ~Holds("queue", k)
      BY <2>3 DEF Custody, Places
    <3>2. i - a = j - a
      BY <1>3, <3>1 DEF Custody, Single
    <3> QED
      BY <1>1, <2>1, <3>2
  <2>4. CASE Holds("queue", k)
    <3>1. ~Holds("batch", k) /\ ~Holds("collector", k)
      BY <2>4 DEF Custody, Places
    <3>2. i - (a + b) = j - (a + b)
      BY <1>3, <3>1 DEF Custody, Single
    <3> QED
      BY <1>1, <2>1, <3>2
  <2> QED
    BY <1>3, <2>2, <2>3, <2>4
<1>6. onPath # {} => Holds("batch", k) \/ Holds("collector", k) \/ Holds("queue", k)
  BY <1>3
<1>7. (\A i, j \in inCache : i = j) /\ (inCache # {} => Holds("outbox", k))
  BY DEF Custody, CachedOnce, Holds, Cached
<1>8. (\A i, j \in held : i = j) /\ (held # {} => Holds("hand", k))
  BY DEF Holds
<1>9. (\A i, j \in done : i = j) /\ (done # {} => Holds("acked", k))
  BY DEF Holds
<1> HIDE DEF onPath, inCache, held, done
<1>10. /\ Cardinality(onPath) = IF onPath = {} THEN 0 ELSE 1
       /\ Cardinality(inCache) = IF inCache = {} THEN 0 ELSE 1
       /\ Cardinality(held) = IF held = {} THEN 0 ELSE 1
       /\ Cardinality(done) = IF done = {} THEN 0 ELSE 1
  BY <1>5, <1>7, <1>8, <1>9, AtMostOne
<1>11. /\ onPath # {} => inCache = {} /\ held = {} /\ done = {}
       /\ inCache # {} => held = {} /\ done = {}
       /\ held # {} => done = {}
  BY <1>6, <1>7, <1>8, <1>9 DEF Custody, Places
<1>12. Cardinality(onPath) + Cardinality(inCache) + Cardinality(held) + Cardinality(done) <= 1
  BY <1>10, <1>11
<1> QED
  BY <1>12 DEF onPath, inCache, held, done, path

\* For any sets of events, any batch size, any number of restarts and every choice
\* of faults, a kernel event is in one place, once: EventLoop, GetBatch, SendEvents
\* and the outbox hand it on and never keep it.
THEOREM CustodyIsExclusive == Spec => []ExclusiveCustody
<1> DEFINE Inv == TypeOK /\ \A k \in Kernel : Custody(k)
<1>1. Init => \A k \in Kernel : Custody(k)
  BY DEF Init, Custody, Single, CachedOnce, Holds, Cached, Range
<1>2. Inv /\ [Next]_vars => Inv'
  BY TypeInductive, CustodyInductive
<1>3. Inv => ExclusiveCustody
  BY CustodyCounted DEF ExclusiveCustody
<1>4. Spec => []Inv
  <2>1. Spec => []TypeOK
    BY TypeCorrect
  <2>2. Init /\ TypeOK => Inv
    BY <1>1
  <2> HIDE DEF Inv
  <2> QED
    BY <1>2, <2>1, <2>2, PTL DEF Spec
<1> HIDE DEF Inv
<1> QED
  BY <1>3, <1>4, PTL

=============================================================================
