------------------------- MODULE DiscoveryScanProofs -------------------------
(***************************************************************************)
(* Proofs about the discovery service, for any number of start and stop     *)
(* requests and of hosts and any sizes of the batches and of the worker     *)
(* pool: the flag tells the truth about the scans, and what the console is  *)
(* shown of them is coherent.                                               *)
(***************************************************************************)
EXTENDS DiscoveryScan, FilteringProofs, FiniteSetTheorems

----------------------------------------------------------------------------
(* What the proofs need beside the types. *)

Unstopped == \A r \in Requests : ~cancelled[r]

\* A goroutine was started with a cancel function installed.
Cancellable ==
    \A r \in Requests : pc[r] \notin {"idle", "checked", "rejected"} => cancelFunc # NoRequest

\* The sets of hosts a scan works through: a phase takes its hosts from the one
\* before, a worker checks an online host, the device being fetched is a Windows
\* host that is not still to visit.
Phases(r) ==
    /\ checking[r] \subseteq online[r]
    /\ pc[r] \notin {"ports", "acquire", "info", "fetch", "stored", "done"} =>
        windows[r] = {} /\ checking[r] = {} /\ reporting[r] = {}
    /\ pc[r] \in {"ports", "acquire"} => todo[r] \subseteq online[r]
    /\ pc[r] \in {"info", "fetch", "stored"} =>
        todo[r] \subseteq windows[r] /\ checking[r] = {} /\ reporting[r] = {}
    /\ pc[r] \in {"fetch", "stored"} => current[r] \in windows[r] \ todo[r]
    /\ pc[r] \notin {"info", "fetch", "stored", "done"} => devices[r] = <<>>

\* The entries of the live list that are eligible.
Eligible == {k \in DOMAIN foundDevices : foundDevices[k].status = "eligible"}

\* What a scan nobody disturbs has stored: the list holds hosts it visited, one
\* entry each, and its eligible devices are the eligible entries.
Tally(r) ==
    /\ pc[r] \notin {"info", "fetch", "stored"} => foundDevices = <<>>
    /\ \A k \in DOMAIN foundDevices : foundDevices[k].ip \in windows[r] \ todo[r]
    /\ pc[r] = "fetch" => \A k \in DOMAIN foundDevices : foundDevices[k].ip # current[r]
    /\ Cardinality(Eligible) = Len(devices[r])
    /\ \A j \in 1 .. Len(devices[r]) : \E k \in DOMAIN foundDevices : foundDevices[k] = devices[r][j]

\* As long as nothing was stopped: a running scan is the only one, its workers are
\* those of its phase 4, and the console sees it as in progress.
Undisturbed ==
    Unstopped =>
        /\ \A r \in Requests : Busy(r) # {} => pc[r] \in {"ports", "acquire"}
        /\ \A r \in Requests :
            IsRunning(r) => currentProgress.status = "discovering" /\ Tally(r)

ScanInv ==
    /\ ScanControl /\ Cancellable
    /\ \A r \in Requests : Phases(r)
    /\ ReportCoherent /\ Undisturbed

----------------------------------------------------------------------------
(* Numbers and sets of hosts. *)

LEMMA HostSets ==
    ASSUME NEW S \in SUBSET Hosts
    PROVE  /\ IsFiniteSet(S) /\ Cardinality(S) \in Nat /\ Cardinality(S) <= NHosts
           /\ S # {} => Cardinality(S) > 0
<1>1. IsFiniteSet(Hosts) /\ Cardinality(Hosts) = NHosts
  BY FS_Interval, DiscoveryAssumption DEF Hosts
<1>2. IsFiniteSet(S) /\ Cardinality(S) <= Cardinality(Hosts)
  BY <1>1, FS_Subset
<1> QED
  BY <1>1, <1>2, FS_CardinalityType, FS_EmptySet

LEMMA FewerHosts ==
    ASSUME NEW T \in SUBSET Hosts, NEW S \in SUBSET T, NEW h \in T \ S
    PROVE  Cardinality(S) < Cardinality(T)
<1>1. IsFiniteSet(T) /\ IsFiniteSet(S) /\ Cardinality(S) \in Nat /\ Cardinality(T) \in Nat
  BY HostSets
<1> QED
  BY <1>1, FS_Subset

\* A share of a positive number is a number: the percentages of the progress.
LEMMA ShareIsNumber ==
    ASSUME NEW a \in Nat, NEW b \in Nat, b > 0
    PROVE  a \div b \in Nat
OBVIOUS

LEMMA ProgressType ==
    ASSUME NEW status \in Statuses, NEW a \in Nat, NEW b \in Nat, NEW c \in Nat
    PROVE  /\ Progress(status, a, b, c) \in ProgressRecord
           /\ Progress(status, a, b, c).status = status
           /\ Progress(status, a, b, c).progress = a
           /\ Progress(status, a, b, c).eligible = c
BY DEF Progress, ProgressRecord

----------------------------------------------------------------------------
(* The live list of devices. *)

\* One entry for an address.
Unique(found) == \A j, k \in DOMAIN found : found[j].ip = found[k].ip => j = k

DeviceLists == {found \in Seq(WindowsDevice) : Unique(found)}

LEMMA UpsertUnique ==
    ASSUME NEW found \in DeviceLists, NEW d \in WindowsDevice
    PROVE  Upsert(found, d) \in DeviceLists
<1> DEFINE u == Upsert(found, d)
<1>0. found \in Seq(WindowsDevice) /\ Unique(found) /\ Len(found) \in Nat
      /\ DOMAIN found = 1 .. Len(found)
  BY DEF DeviceLists
<1>1. CASE \E k \in DOMAIN found : found[k].ip = d.ip
  <2>1. u = [k \in 1 .. Len(found) |-> IF found[k].ip = d.ip THEN d ELSE found[k]]
    BY <1>0, <1>1 DEF Upsert
  <2> HIDE DEF u
  <2>2. u \in Seq(WindowsDevice) /\ DOMAIN u = 1 .. Len(found)
    BY <1>0, <2>1
  <2>3. \A k \in DOMAIN u : u[k].ip = found[k].ip
    BY <1>0, <2>1
  <2>4. Unique(u)
    BY <1>0, <2>2, <2>3 DEF Unique
  <2> QED
    BY <2>2, <2>4 DEF DeviceLists, u
<1>2. CASE ~\E k \in DOMAIN found : found[k].ip = d.ip
  <2>1. u = Append(found, d)
    BY <1>2 DEF Upsert
  <2> HIDE DEF u
  <2>2. /\ u \in Seq(WindowsDevice) /\ DOMAIN u = 1 .. Len(found) + 1
        /\ \A k \in 1 .. Len(found) : u[k] = found[k]
        /\ u[Len(found) + 1] = d
    BY <1>0, <2>1
  <2>3. \A k \in DOMAIN u : k \in DOMAIN found \/ k = Len(found) + 1
    BY <1>0, <2>2
  <2>4. Unique(u)
    BY <1>0, <1>2, <2>2, <2>3 DEF Unique
  <2> QED
    BY <2>2, <2>4 DEF DeviceLists, u
<1> QED
  BY <1>1, <1>2

\* An entry the list holds already changes nothing.
LEMMA UpsertSame ==
    ASSUME NEW found \in DeviceLists, NEW d, \E k \in DOMAIN found : found[k] = d
    PROVE  Upsert(found, d) = found
<1>1. PICK n \in DOMAIN found : found[n] = d
  OBVIOUS
<1>2. found \in Seq(WindowsDevice) /\ Unique(found)
  BY DEF DeviceLists
<1>3. \A k \in DOMAIN found : found[k].ip = d.ip => found[k] = d
  BY <1>1, <1>2 DEF Unique
<1>4. Upsert(found, d) = [k \in DOMAIN found |-> IF found[k].ip = d.ip THEN d ELSE found[k]]
  BY <1>1 DEF Upsert
<1>5. found = [k \in DOMAIN found |-> found[k]]
  BY <1>2
<1> QED
  BY <1>3, <1>4, <1>5

\* The recursion equation of the function behind Merge(found, devs).
MergeEquation(found, devs, n, g) ==
    g = [i \in 0 .. n |-> IF i = 0 THEN found ELSE Upsert(g[i - 1], devs[i])]

LEMMA MergeSolvable ==
    ASSUME NEW found, NEW devs, NEW n \in Nat
    PROVE  \E g : MergeEquation(found, devs, n, g)
<1> DEFINE P == {k \in 0 .. n : \E g : MergeEquation(found, devs, k, g)}
<1>1. 0 \in P
  <2>1. MergeEquation(found, devs, 0, [i \in 0 .. 0 |-> found])
    BY DEF MergeEquation
  <2> QED
    BY <2>1
<1>2. ASSUME NEW k \in 0 .. n - 1, k \in P
      PROVE  k + 1 \in P
  <2>1. PICK g : MergeEquation(found, devs, k, g)
    BY <1>2
  <2> DEFINE h == [i \in 0 .. k + 1 |-> IF i = k + 1 THEN Upsert(g[k], devs[k + 1]) ELSE g[i]]
  <2>2. \A i \in 0 .. k : h[i] = g[i]
    OBVIOUS
  <2>3. \A i \in 0 .. k : g[i] = IF i = 0 THEN found ELSE Upsert(g[i - 1], devs[i])
    BY <2>1 DEF MergeEquation
  <2>4. ASSUME NEW i \in 0 .. k + 1
        PROVE  h[i] = IF i = 0 THEN found ELSE Upsert(h[i - 1], devs[i])
    <3>1. CASE i \in 0 .. k
      <4>1. i # 0 => h[i - 1] = g[i - 1]
        BY <3>1, <2>2
      <4> QED
        BY <3>1, <2>2, <2>3, <4>1
    <3>2. CASE i = k + 1
      <4>1. h[i - 1] = g[k] /\ i # 0 /\ h[i] = Upsert(g[k], devs[k + 1])
        BY <3>2
      <4> QED
        BY <3>2, <4>1
    <3> QED
      BY <3>1, <3>2
  <2>5. h = [i \in 0 .. k + 1 |-> h[i]]
    OBVIOUS
  <2>6. MergeEquation(found, devs, k + 1, h)
    <3> HIDE DEF h
    <3> QED
      BY <2>4, <2>5 DEF MergeEquation
  <2>7. k + 1 \in 0 .. n
    OBVIOUS
  <2> QED
    BY <2>6, <2>7
<1>3. 0 .. n \subseteq P
  <2> HIDE DEF P
  <2> QED
    BY <1>1, <1>2, IntervalInduction
<1>4. n \in P
  BY <1>3
<1> QED
  BY <1>4

\* A set of lists that Upsert does not leave is not left by Merge.
LEMMA MergeStays ==
    ASSUME NEW Q, NEW found \in Q, NEW devs \in Seq(WindowsDevice),
           \A s \in Q, j \in 1 .. Len(devs) : Upsert(s, devs[j]) \in Q
    PROVE  Merge(found, devs) \in Q
<1> DEFINE g == CHOOSE f : MergeEquation(found, devs, Len(devs), f)
<1>0. Len(devs) \in Nat
  OBVIOUS
<1>1. MergeEquation(found, devs, Len(devs), g)
  <2>1. \E f : MergeEquation(found, devs, Len(devs), f)
    BY <1>0, MergeSolvable
  <2> QED
    BY <2>1
<1>2. Merge(found, devs) = g[Len(devs)]
  BY DEF Merge, MergeEquation
<1> HIDE DEF g
<1>3. \A i \in 0 .. Len(devs) : g[i] = IF i = 0 THEN found ELSE Upsert(g[i - 1], devs[i])
  BY <1>1 DEF MergeEquation
<1> DEFINE P == {i \in 0 .. Len(devs) : g[i] \in Q}
<1>4. 0 \in P
  BY <1>0, <1>3
<1>5. ASSUME NEW i \in 0 .. Len(devs) - 1, i \in P
      PROVE  i + 1 \in P
  <2>1. i + 1 \in 0 .. Len(devs) /\ i + 1 \in 1 .. Len(devs) /\ i + 1 # 0 /\ (i + 1) - 1 = i
    BY <1>0
  <2>2. g[i + 1] = Upsert(g[i], devs[i + 1])
    BY <1>3, <2>1
  <2> QED
    BY <1>5, <2>1, <2>2
<1>6. 0 .. Len(devs) \subseteq P
  <2> HIDE DEF P
  <2> QED
    BY <1>0, <1>4, <1>5, IntervalInduction
<1>7. Len(devs) \in P
  BY <1>0, <1>6
<1> QED
  BY <1>2, <1>7

LEMMA MergeUnique ==
    ASSUME NEW found \in DeviceLists, NEW devs \in Seq(WindowsDevice)
    PROVE  Merge(found, devs) \in DeviceLists
<1>1. \A s \in DeviceLists, j \in 1 .. Len(devs) : Upsert(s, devs[j]) \in DeviceLists
  BY UpsertUnique
<1> QED
  BY <1>1, MergeStays

LEMMA MergeSame ==
    ASSUME NEW found \in DeviceLists, NEW devs \in Seq(WindowsDevice),
           \A j \in 1 .. Len(devs) : \E k \in DOMAIN found : found[k] = devs[j]
    PROVE  Merge(found, devs) = found
<1>1. \A s \in {found}, j \in 1 .. Len(devs) : Upsert(s, devs[j]) \in {found}
  BY UpsertSame
<1>2. Merge(found, devs) \in {found}
  BY <1>1, MergeStays
<1> QED
  BY <1>2

----------------------------------------------------------------------------
(* Types. *)

\* The figures a step shows are numbers: no percentage divides by zero and none
\* is negative.
LEMMA Figures ==
    ASSUME ScanInv, NEW r \in Requests
    PROVE  /\ Cardinality(online[r]) \in Nat /\ Len(devices[r]) \in Nat
           /\ Batch(r) \subseteq todo[r]
           /\ \A up \in SUBSET Batch(r) :
                LET before == NHosts - Cardinality(todo[r])
                IN  /\ 15 + (before * 35) \div NHosts \in Nat
                    /\ before + Cardinality(Batch(r)) \in Nat
                    /\ Cardinality(online[r] \cup up) \in Nat
           /\ \A h \in checking[r] :
                50 + ((processed[r] + 1) * 20) \div Cardinality(online[r]) \in Nat
           /\ pc[r] = "stored" =>
                LET n == Cardinality(windows[r])
                    i == (n - Cardinality(todo[r])) - 1
                IN  70 + (i * 25) \div n \in Nat
<1>1. /\ online[r] \in SUBSET Hosts /\ todo[r] \in SUBSET Hosts /\ windows[r] \in SUBSET Hosts
      /\ processed[r] \in Nat /\ devices[r] \in Seq(WindowsDevice)
  BY DEF ScanInv, ScanControl, TypeOK, ControlTypeOK
<1>2. Batch(r) \subseteq todo[r]
  BY DEF Batch
<1>3. NHosts \in Nat /\ NHosts > 0
  BY DiscoveryAssumption
<1>4. ASSUME NEW up \in SUBSET Batch(r)
      PROVE  LET before == NHosts - Cardinality(todo[r])
             IN  /\ 15 + (before * 35) \div NHosts \in Nat
                 /\ before + Cardinality(Batch(r)) \in Nat
                 /\ Cardinality(online[r] \cup up) \in Nat
  <2> DEFINE before == NHosts - Cardinality(todo[r])
  <2>1. before \in Nat
    BY <1>1, <1>3, HostSets
  <2>2. Batch(r) \in SUBSET Hosts /\ online[r] \cup up \in SUBSET Hosts
    BY <1>1, <1>2
  <2>3. Cardinality(Batch(r)) \in Nat /\ Cardinality(online[r] \cup up) \in Nat
    BY <2>2, HostSets
  <2> HIDE DEF before
  <2>4. before * 35 \in Nat
    BY <2>1
  <2>5. (before * 35) \div NHosts \in Nat
    BY <1>3, <2>4, ShareIsNumber
  <2>6. 15 + (before * 35) \div NHosts \in Nat /\ before + Cardinality(Batch(r)) \in Nat
    BY <2>1, <2>3, <2>5
  <2> QED
    BY <2>3, <2>6 DEF before
<1>5. ASSUME NEW h \in checking[r]
      PROVE  50 + ((processed[r] + 1) * 20) \div Cardinality(online[r]) \in Nat
  <2>1. Cardinality(online[r]) \in Nat /\ Cardinality(online[r]) > 0
    BY <1>1, HostSets DEF ScanInv, Phases
  <2>2. (processed[r] + 1) * 20 \in Nat
    BY <1>1
  <2>3. ((processed[r] + 1) * 20) \div Cardinality(online[r]) \in Nat
    BY <2>1, <2>2, ShareIsNumber
  <2> QED
    BY <2>3
<1>6. ASSUME pc[r] = "stored"
      PROVE  LET n == Cardinality(windows[r])
                 i == (n - Cardinality(todo[r])) - 1
             IN  70 + (i * 25) \div n \in Nat
  <2> DEFINE n == Cardinality(windows[r])
             i == (n - Cardinality(todo[r])) - 1
  <2>1. todo[r] \subseteq windows[r] /\ current[r] \in windows[r] \ todo[r]
    BY <1>6 DEF ScanInv, Phases
  <2>2. n \in Nat /\ Cardinality(todo[r]) \in Nat /\ Cardinality(todo[r]) < n
    BY <1>1, <2>1, HostSets, FewerHosts
  <2>3. i \in Nat /\ n > 0
    BY <2>2
  <2> HIDE DEF n, i
  <2>4. i * 25 \in Nat
    BY <2>3
  <2>5. (i * 25) \div n \in Nat
    BY <2>2, <2>3, <2>4, ShareIsNumber
  <2>6. 70 + (i * 25) \div n \in Nat
    BY <2>5
  <2> QED
    BY <2>6 DEF n, i
<1>7. Cardinality(online[r]) \in Nat /\ Len(devices[r]) \in Nat
  BY <1>1, HostSets
<1> QED
  BY <1>2, <1>4, <1>5, <1>6, <1>7

\* The progress record over a step that updates it.
LEMMA UpdateType ==
    ASSUME TypeOK, NEW a \in Nat, NEW b \in Nat, NEW c \in Nat,
           currentProgress' = Progress(currentProgress.status, a, b, c)
    PROVE  /\ currentProgress' \in ProgressRecord
           /\ currentProgress'.status = currentProgress.status
<1>1. currentProgress.status \in Statuses
  BY DEF TypeOK, ProgressRecord
<1> QED
  BY <1>1, ProgressType

LEMMA SetStatusType ==
    ASSUME TypeOK, NEW s \in Statuses, SetStatus(s)
    PROVE  currentProgress' \in ProgressRecord /\ currentProgress'.status = s
<1>1. /\ currentProgress.progress \in Nat /\ currentProgress.scanned \in Nat
      /\ currentProgress.eligible \in Nat
  BY DEF TypeOK, ProgressRecord
<1> QED
  BY <1>1, ProgressType DEF SetStatus

LEMMA NextTypes ==
    ASSUME ScanInv, [Next]_vars
    PROVE  TypeOK'
<1>0. TypeOK
  BY DEF ScanInv, ScanControl
<1> USE DEF ControlTypeOK, PCs, Running
<1>1. ASSUME NEW r \in Requests, StartCheck(r) \/ StartLaunch(r) \/ Refuse(r) \/ PingStart(r)
                                 \/ PortsNext(r) \/ InfoMissing(r)
      PROVE  TypeOK'
  <2>1. CASE StartCheck(r)
    BY <1>0, <2>1 DEF StartCheck, Goto, TypeOK, serviceVars, localVars, workerVars
  <2>2. CASE StartLaunch(r)
    BY <1>0, <2>2 DEF StartLaunch, Goto, TypeOK, localVars, workerVars
  <2>3. CASE Refuse(r) \/ PingStart(r) \/ PortsNext(r) \/ InfoMissing(r)
    BY <1>0, <2>3 DEF Refuse, PingStart, PortsNext, InfoMissing, Goto, TypeOK, serviceVars,
                      localVars, workerVars
  <2> QED
    BY <1>1, <2>1, <2>2, <2>3
<1>2. ASSUME NEW r \in Requests, Claim(r)
      PROVE  TypeOK'
  <2>1. currentProgress' \in ProgressRecord
    BY <1>2, ProgressType DEF Claim, Statuses
  <2> QED
    BY <1>0, <1>2, <2>1 DEF Claim, Goto, TypeOK, localVars, workerVars
<1>3. ASSUME NEW r \in Requests, DetectRange(r) \/ GenerateRange(r) \/ RangeEmpty(r)
      PROVE  TypeOK'
  <2>1. currentProgress' \in ProgressRecord
    BY <1>0, <1>3, UpdateType DEF DetectRange, GenerateRange, RangeEmpty, updateProgress
  <2> QED
    BY <1>0, <1>3, <2>1
       DEF DetectRange, GenerateRange, RangeEmpty, Goto, TypeOK, localVars, workerVars
<1>4. ASSUME NEW r \in Requests, ReturnFailed(r) \/ ReturnCancelled(r)
      PROVE  TypeOK'
  <2>1. currentProgress' \in ProgressRecord
    BY <1>0, <1>4, SetStatusType DEF ReturnFailed, ReturnCancelled, Statuses
  <2> QED
    BY <1>0, <1>4, <2>1
       DEF ReturnFailed, ReturnCancelled, Goto, TypeOK, localVars, workerVars
<1>5. ASSUME NEW r \in Requests, RangeReady(r)
      PROVE  TypeOK'
  <2>1. currentProgress' \in ProgressRecord
    BY <1>0, <1>5, UpdateType DEF RangeReady, updateProgress
  <2> QED
    BY <1>0, <1>5, <2>1 DEF RangeReady, Goto, TypeOK, workerVars
<1>6. ASSUME NEW r \in Requests, PingBatch(r)
      PROVE  TypeOK'
  <2>1. PICK up \in SUBSET Batch(r) :
          /\ online' = [online EXCEPT ![r] = online[r] \cup up]
          /\ updateProgress(15 + ((NHosts - Cardinality(todo[r])) * 35) \div NHosts,
                            (NHosts - Cardinality(todo[r])) + Cardinality(Batch(r)),
                            Cardinality(online'[r]))
    BY <1>6 DEF PingBatch
  <2>2. online'[r] = online[r] \cup up
    BY <1>0, <2>1 DEF TypeOK
  <2>3. currentProgress' \in ProgressRecord
    BY <1>0, <2>1, <2>2, Figures, UpdateType DEF updateProgress
  <2>4. online' \in [Requests -> SUBSET Hosts]
    BY <1>0, <2>1, Figures DEF TypeOK
  <2> QED
    BY <1>0, <1>6, <2>3, <2>4 DEF PingBatch, Goto, TypeOK, workerVars
<1>7. ASSUME NEW r \in Requests, PingDone(r) \/ PortsDone(r)
      PROVE  TypeOK'
  <2>1. currentProgress' \in ProgressRecord
    <3>1. Cardinality(online[r]) \in Nat
      BY Figures
    <3>2. PICK a \in {50, 70} :
            currentProgress' = Progress(currentProgress.status, a, Cardinality(online[r]), 0)
      BY <1>7 DEF PingDone, PortsDone, updateProgress
    <3>3. a \in Nat /\ 0 \in Nat
      OBVIOUS
    <3> QED
      BY <1>0, <3>1, <3>2, <3>3, UpdateType
  <2> QED
    BY <1>0, <1>7, <2>1 DEF PingDone, PortsDone, Goto, TypeOK, workerVars
<1>8. ASSUME NEW r \in Requests, PortsSpawn(r)
      PROVE  TypeOK'
  <2>1. PICK h \in todo[r] : /\ todo' = [todo EXCEPT ![r] = todo[r] \ {h}]
                             /\ checking' = [checking EXCEPT ![r] = checking[r] \cup {h}]
    BY <1>8 DEF PortsSpawn
  <2> QED
    BY <1>0, <1>8, <2>1 DEF PortsSpawn, Goto, TypeOK, serviceVars
<1>9. ASSUME NEW r \in Requests, InfoNext(r)
      PROVE  TypeOK'
  <2>1. PICK h \in todo[r] : /\ current' = [current EXCEPT ![r] = h]
                             /\ todo' = [todo EXCEPT ![r] = todo[r] \ {h}]
    BY <1>9 DEF InfoNext
  <2>2. h \in 0 .. NHosts
    BY <1>0, DiscoveryAssumption DEF TypeOK, Hosts
  <2> QED
    BY <1>0, <1>9, <2>1, <2>2 DEF InfoNext, Goto, TypeOK, serviceVars, workerVars
<1>10. ASSUME NEW r \in Requests, InfoStore(r)
       PROVE  TypeOK'
  <2>1. PICK s \in DeviceStatuses :
          LET d == [ip |-> current[r], status |-> s]
          IN  /\ foundDevices' = Upsert(foundDevices, d)
              /\ devices' = IF s = "eligible"
                            THEN [devices EXCEPT ![r] = Append(devices[r], d)]
                            ELSE devices
    BY <1>10 DEF InfoStore
  <2> DEFINE d == [ip |-> current[r], status |-> s]
  <2>2. current[r] \in Hosts
    BY <1>0, <1>10 DEF InfoStore, ScanInv, Phases, TypeOK
  <2>3. d \in WindowsDevice
    BY <2>2 DEF WindowsDevice
  <2>4. foundDevices \in DeviceLists
    BY <1>0 DEF ScanInv, ReportCoherent, FoundDevicesUnique, DeviceLists, Unique, TypeOK
  <2> HIDE DEF d
  <2>5. foundDevices' \in Seq(WindowsDevice)
    <3>1. foundDevices' = Upsert(foundDevices, d)
      BY <2>1 DEF d
    <3> QED
      BY <2>3, <2>4, <3>1, UpsertUnique DEF DeviceLists
  <2>6. devices' \in [Requests -> Seq(WindowsDevice)]
    <3>1. devices' = [devices EXCEPT ![r] = Append(devices[r], d)] \/ devices' = devices
      BY <2>1 DEF d
    <3>2. Append(devices[r], d) \in Seq(WindowsDevice)
      BY <1>0, <2>3 DEF TypeOK
    <3> QED
      BY <1>0, <3>1, <3>2 DEF TypeOK
  <2> QED
    BY <1>0, <1>10, <2>5, <2>6 DEF InfoStore, Goto, TypeOK, workerVars
<1>11. ASSUME NEW r \in Requests, InfoProgress(r)
       PROVE  TypeOK'
  <2> DEFINE n == Cardinality(windows[r])
             percent == 70 + (((n - Cardinality(todo[r])) - 1) * 25) \div n
  <2>1. percent \in Nat
    BY <1>11, Figures DEF InfoProgress
  <2>2. currentProgress' = Progress(currentProgress.status, percent, Cardinality(online[r]),
                                    Len(devices[r]))
    BY <1>11 DEF InfoProgress, updateProgress
  <2> HIDE DEF percent
  <2>3. currentProgress' \in ProgressRecord
    BY <1>0, <2>1, <2>2, Figures, UpdateType
  <2> QED
    BY <1>0, <1>11, <2>3 DEF InfoProgress, Goto, TypeOK, localVars, workerVars
<1>12. ASSUME NEW r \in Requests, Complete(r)
       PROVE  TypeOK'
  <2>1. foundDevices \in DeviceLists /\ devices[r] \in Seq(WindowsDevice)
    BY <1>0 DEF ScanInv, ReportCoherent, FoundDevicesUnique, DeviceLists, Unique, TypeOK
  <2>2. foundDevices' \in Seq(WindowsDevice)
    BY <1>12, <2>1, MergeUnique DEF Complete, DeviceLists
  <2>3. currentProgress.scanned \in Nat
    BY <1>0 DEF TypeOK, ProgressRecord
  <2>4. currentProgress' \in ProgressRecord
    <3>1. Len(devices[r]) \in Nat /\ 100 \in Nat /\ "completed" \in Statuses
      BY <2>1 DEF Statuses
    <3>2. currentProgress' = Progress("completed", 100, currentProgress.scanned, Len(devices[r]))
      BY <1>12 DEF Complete
    <3> QED
      BY <2>3, <3>1, <3>2, ProgressType
  <2> QED
    BY <1>0, <1>12, <2>2, <2>4 DEF Complete, Goto, TypeOK, localVars, workerVars
<1>13. ASSUME NEW r \in Requests, NEW h \in Hosts, CheckPorts(r, h)
       PROVE  TypeOK'
  <2> DEFINE percent == 50 + ((processed[r] + 1) * 20) \div Cardinality(online[r])
  <2>1. percent \in Nat
    BY <1>13, Figures DEF CheckPorts
  <2>2. /\ checking' = [checking EXCEPT ![r] = checking[r] \ {h}]
        /\ windows' = [windows EXCEPT ![r] = windows[r] \cup {h}] \/ windows' = windows
        /\ processed' = [processed EXCEPT ![r] = processed[r] + 1]
        /\ \/ reporting' = [reporting EXCEPT ![r] = reporting[r] \cup {<<h, percent>>}]
           \/ reporting' = reporting
    BY <1>13 DEF CheckPorts
  <2> HIDE DEF percent
  <2>3. /\ checking' \in [Requests -> SUBSET Hosts] /\ windows' \in [Requests -> SUBSET Hosts]
        /\ processed' \in [Requests -> Nat]
    <3>1. checking' \in [Requests -> SUBSET Hosts]
      <4>1. checking' = [checking EXCEPT ![r] = checking[r] \ {h}]
        BY <2>2
      <4> QED
        BY <1>0, <4>1 DEF TypeOK
    <3>2. windows' \in [Requests -> SUBSET Hosts]
      <4>1. CASE windows' = windows
        BY <1>0, <4>1 DEF TypeOK
      <4>2. CASE windows' = [windows EXCEPT ![r] = windows[r] \cup {h}]
        BY <1>0, <4>2 DEF TypeOK
      <4> QED
        BY <2>2, <4>1, <4>2
    <3>3. processed[r] + 1 \in Nat
      BY <1>0 DEF TypeOK
    <3>4. processed' \in [Requests -> Nat]
      BY <1>0, <2>2, <3>3 DEF TypeOK
    <3> QED
      BY <3>1, <3>2, <3>4
  <2>4. reporting' \in [Requests -> SUBSET (Hosts \X Nat)]
    <3>1. <<h, percent>> \in Hosts \X Nat
      BY <2>1
    <3>2. reporting[r] \cup {<<h, percent>>} \in SUBSET (Hosts \X Nat)
      BY <1>0, <3>1 DEF TypeOK
    <3> QED
      BY <1>0, <2>2, <3>2 DEF TypeOK
  <2> QED
    BY <1>0, <1>13, <2>3, <2>4 DEF CheckPorts, TypeOK, serviceVars
<1>14. ASSUME NEW r \in Requests, NEW w \in reporting[r], WorkerReport(r, w)
       PROVE  TypeOK'
  <2>1. w[2] \in Nat
    BY <1>0 DEF TypeOK
  <2>2. currentProgress' \in ProgressRecord
    BY <1>0, <1>14, <2>1, Figures, UpdateType DEF WorkerReport, updateProgress
  <2> QED
    BY <1>0, <1>14, <2>2 DEF WorkerReport, TypeOK, localVars
<1>15. CASE StopScan
  <2>1. currentProgress' \in ProgressRecord
    BY <1>0, <1>15, SetStatusType DEF StopScan, Statuses
  <2>2. cancelled' \in [Requests -> BOOLEAN]
    BY <1>15 DEF StopScan
  <2> QED
    BY <1>0, <1>15, <2>1, <2>2 DEF StopScan, TypeOK, localVars, workerVars
<1>16. CASE UNCHANGED vars
  BY <1>0, <1>16 DEF vars, TypeOK
<1> QED
  BY <1>1, <1>2, <1>3, <1>4, <1>5, <1>6, <1>7, <1>8, <1>9, <1>10, <1>11, <1>12, <1>13,
     <1>14, <1>15, <1>16 DEF Next, Handler, Goroutine, Worker

----------------------------------------------------------------------------
(* The flag and the scans. *)

\* A step keeps a scan inside DiscoverDevices or releases the service, and only
\* Claim enters, when the service is free.
LEMMA FlagSteps ==
    ASSUME TypeOK, [Next]_vars
    PROVE  \/ \E r \in Requests : Claim(r)
           \/ \E r \in Requests : StartLaunch(r)
           \/ StopScan
           \/ \E r \in Requests :
                /\ scanInProgress' = FALSE
                /\ IsRunning(r) /\ pc' = [pc EXCEPT ![r] = "done"]
                /\ UNCHANGED <<cancelFunc, cancelled>>
           \/ /\ UNCHANGED <<scanInProgress, cancelFunc, cancelled>>
              /\ \A r \in Requests :
                    \/ IsRunning(r) /\ pc'[r] \in Running
                    \/ pc'[r] = pc[r]
                    \/ pc[r] = "idle" /\ pc'[r] \in {"checked", "rejected"}
                    \/ pc[r] = "launched" /\ pc'[r] = "refused"
<1> DEFINE Kept(r) ==
        /\ UNCHANGED <<scanInProgress, cancelFunc, cancelled>>
        /\ \/ pc' = pc
           \/ IsRunning(r) /\ \E l \in Running : pc' = [pc EXCEPT ![r] = l]
           \/ pc[r] = "idle" /\ \E l \in {"checked", "rejected"} : pc' = [pc EXCEPT ![r] = l]
           \/ pc[r] = "launched" /\ pc' = [pc EXCEPT ![r] = "refused"]
<1>1. ASSUME NEW r \in Requests, Kept(r)
      PROVE  /\ UNCHANGED <<scanInProgress, cancelFunc, cancelled>>
             /\ \A q \in Requests :
                  \/ IsRunning(q) /\ pc'[q] \in Running
                  \/ pc'[q] = pc[q]
                  \/ pc[q] = "idle" /\ pc'[q] \in {"checked", "rejected"}
                  \/ pc[q] = "launched" /\ pc'[q] = "refused"
  BY <1>1 DEF TypeOK, ControlTypeOK
<1>2. ASSUME NEW r \in Requests, StartCheck(r) \/ Refuse(r)
      PROVE  Kept(r)
  BY <1>2 DEF StartCheck, Refuse, Goto, serviceVars
<1>3. ASSUME NEW r \in Requests,
             \/ DetectRange(r) \/ GenerateRange(r) \/ RangeEmpty(r) \/ RangeReady(r)
             \/ PingStart(r) \/ PingBatch(r) \/ PingDone(r)
      PROVE  Kept(r)
  BY <1>3 DEF DetectRange, GenerateRange, RangeEmpty, RangeReady, PingStart, PingBatch,
              PingDone, Goto, serviceVars, IsRunning, Running
<1>4. ASSUME NEW r \in Requests,
             \/ PortsNext(r) \/ PortsSpawn(r) \/ PortsDone(r)
             \/ InfoNext(r) \/ InfoStore(r) \/ InfoMissing(r) \/ InfoProgress(r)
      PROVE  Kept(r)
  BY <1>4 DEF PortsNext, PortsSpawn, PortsDone, InfoNext, InfoStore, InfoMissing,
              InfoProgress, Goto, serviceVars, IsRunning, Running
<1>5. ASSUME NEW r \in Requests, Worker(r)
      PROVE  Kept(r)
  BY <1>5 DEF Worker, CheckPorts, WorkerReport, serviceVars
<1>6. ASSUME NEW r \in Requests, ReturnFailed(r) \/ ReturnCancelled(r) \/ Complete(r)
      PROVE  /\ scanInProgress' = FALSE
             /\ IsRunning(r) /\ pc' = [pc EXCEPT ![r] = "done"]
             /\ UNCHANGED <<cancelFunc, cancelled>>
  BY <1>6 DEF ReturnFailed, ReturnCancelled, Complete, Goto, IsRunning, Running
<1>7. UNCHANGED vars => UNCHANGED <<scanInProgress, cancelFunc, cancelled, pc>>
  BY DEF vars
<1> HIDE DEF Kept
<1> QED
  BY <1>1, <1>2, <1>3, <1>4, <1>5, <1>6, <1>7 DEF Next, Handler, Goroutine

LEMMA NextControl ==
    ASSUME ScanInv, [Next]_vars
    PROVE  FlagHasOwner' /\ SingleScanUnlessStopped' /\ Cancellable'
<1>0. TypeOK /\ FlagHasOwner /\ SingleScanUnlessStopped /\ Cancellable
  BY DEF ScanInv, ScanControl
<1>1. ASSUME NEW r \in Requests, Claim(r)
      PROVE  FlagHasOwner' /\ SingleScanUnlessStopped' /\ Cancellable'
  <2>1. /\ ~scanInProgress /\ scanInProgress' = TRUE /\ UNCHANGED <<cancelFunc, cancelled>>
        /\ pc[r] = "launched" /\ pc'[r] = "detect" /\ \A q \in Requests : q # r => pc'[q] = pc[q]
    BY <1>0, <1>1 DEF Claim, Goto, TypeOK, ControlTypeOK
  <2>2. FlagHasOwner'
    BY <2>1 DEF FlagHasOwner, IsRunning, Running
  <2>3. SingleScanUnlessStopped'
    BY <1>0, <2>1 DEF SingleScanUnlessStopped, IsRunning
  <2>4. Cancellable'
    BY <1>0, <2>1 DEF Cancellable
  <2> QED
    BY <2>2, <2>3, <2>4
<1>2. ASSUME NEW r \in Requests, StartLaunch(r)
      PROVE  FlagHasOwner' /\ SingleScanUnlessStopped' /\ Cancellable'
  <2>1. /\ UNCHANGED <<scanInProgress, cancelled>> /\ cancelFunc' = r
        /\ pc[r] = "checked" /\ pc'[r] = "launched"
        /\ \A q \in Requests : q # r => pc'[q] = pc[q]
    BY <1>0, <1>2 DEF StartLaunch, Goto, TypeOK, ControlTypeOK
  <2>2. \A q \in Requests : IsRunning(q)' <=> IsRunning(q)
    BY <2>1 DEF IsRunning, Running
  <2> QED
    BY <1>0, <2>1, <2>2, DiscoveryAssumption
       DEF FlagHasOwner, SingleScanUnlessStopped, Cancellable
<1>3. CASE StopScan
  <2>1. /\ scanInProgress' = FALSE /\ UNCHANGED <<pc, cancelFunc>>
        /\ \A r \in Requests : cancelled'[r] = (cancelled[r] \/ r = cancelFunc)
    BY <1>3 DEF StopScan
  <2>2. \A r \in Requests : IsRunning(r) => \E q \in Requests : cancelled'[q]
    BY <1>0, <2>1 DEF Cancellable, IsRunning, Running, TypeOK, ControlTypeOK
  <2> QED
    BY <1>0, <2>1, <2>2 DEF FlagHasOwner, SingleScanUnlessStopped, Cancellable, IsRunning
<1>4. ASSUME NEW r \in Requests, scanInProgress' = FALSE, IsRunning(r),
             pc' = [pc EXCEPT ![r] = "done"], UNCHANGED <<cancelFunc, cancelled>>
      PROVE  FlagHasOwner' /\ SingleScanUnlessStopped' /\ Cancellable'
  <2>1. pc'[r] = "done" /\ \A q \in Requests : q # r => pc'[q] = pc[q]
    BY <1>0, <1>4 DEF TypeOK, ControlTypeOK
  <2>2. \A q \in Requests : IsRunning(q)' <=> IsRunning(q) /\ q # r
    BY <2>1 DEF IsRunning, Running
  <2>3. Cancellable'
    BY <1>0, <1>4, <2>1 DEF Cancellable, IsRunning, Running
  <2> QED
    BY <1>0, <1>4, <2>2, <2>3 DEF FlagHasOwner, SingleScanUnlessStopped
<1>5. ASSUME UNCHANGED <<scanInProgress, cancelFunc, cancelled>>,
             \A r \in Requests :
                 \/ IsRunning(r) /\ pc'[r] \in Running
                 \/ pc'[r] = pc[r]
                 \/ pc[r] = "idle" /\ pc'[r] \in {"checked", "rejected"}
                 \/ pc[r] = "launched" /\ pc'[r] = "refused"
      PROVE  FlagHasOwner' /\ SingleScanUnlessStopped' /\ Cancellable'
  <2>1. \A q \in Requests : IsRunning(q)' <=> IsRunning(q)
    BY <1>5 DEF IsRunning, Running
  <2>2. Cancellable'
    BY <1>0, <1>5 DEF Cancellable, IsRunning, Running
  <2> QED
    BY <1>0, <1>5, <2>1, <2>2 DEF FlagHasOwner, SingleScanUnlessStopped
<1> QED
  BY <1>0, <1>1, <1>2, <1>3, <1>4, <1>5, FlagSteps

----------------------------------------------------------------------------
(* The phases of a scan. *)

\* The step leaves the scan of request q alone.
Apart(q) ==
    /\ pc'[q] = pc[q] /\ todo'[q] = todo[q] /\ online'[q] = online[q]
    /\ windows'[q] = windows[q] /\ devices'[q] = devices[q] /\ current'[q] = current[q]
    /\ checking'[q] = checking[q] /\ reporting'[q] = reporting[q]

LEMMA OthersApart ==
    ASSUME TypeOK, NEW r \in Requests, Handler(r) \/ Goroutine(r) \/ Worker(r),
           NEW q \in Requests, q # r
    PROVE  Apart(q)
<1> USE DEF TypeOK, ControlTypeOK, Apart, Goto
<1>1. CASE Handler(r)
  BY <1>1 DEF Handler, StartCheck, StartLaunch, localVars, workerVars
<1>2. CASE Worker(r)
  <2>1. CASE \E h \in Hosts : CheckPorts(r, h)
    BY <2>1 DEF CheckPorts
  <2>2. CASE \E w \in reporting[r] : WorkerReport(r, w)
    BY <2>2 DEF WorkerReport, localVars
  <2> QED
    BY <1>2, <2>1, <2>2 DEF Worker
<1>3. CASE Claim(r) \/ Refuse(r) \/ DetectRange(r) \/ GenerateRange(r) \/ RangeEmpty(r)
           \/ ReturnFailed(r) \/ ReturnCancelled(r) \/ PingStart(r) \/ PortsNext(r)
           \/ InfoMissing(r) \/ InfoProgress(r) \/ Complete(r)
  BY <1>3 DEF Claim, Refuse, DetectRange, GenerateRange, RangeEmpty, ReturnFailed,
              ReturnCancelled, PingStart, PortsNext, InfoMissing, InfoProgress, Complete,
              localVars, workerVars
<1>4. CASE RangeReady(r) \/ PingDone(r) \/ PortsDone(r)
  BY <1>4 DEF RangeReady, PingDone, PortsDone, workerVars
<1>5. CASE PingBatch(r)
  BY <1>5 DEF PingBatch, workerVars
<1>6. CASE PortsSpawn(r)
  BY <1>6 DEF PortsSpawn
<1>7. CASE InfoNext(r)
  BY <1>7 DEF InfoNext, workerVars
<1>8. CASE InfoStore(r)
  BY <1>8 DEF InfoStore, workerVars
<1> QED
  BY <1>1, <1>2, <1>3, <1>4, <1>5, <1>6, <1>7, <1>8 DEF Goroutine

LEMMA NextPhases ==
    ASSUME ScanInv, [Next]_vars, NEW q \in Requests
    PROVE  Phases(q)'
<1>0. TypeOK /\ \A r \in Requests : Phases(r)
  BY DEF ScanInv, ScanControl
<1>1. Apart(q) => Phases(q)'
  BY <1>0 DEF Apart, Phases
<1> USE DEF TypeOK, ControlTypeOK, Goto
<1>2. CASE Handler(q)
  BY <1>0, <1>2 DEF Handler, StartCheck, StartLaunch, localVars, workerVars, Phases
<1>3. CASE Worker(q)
  <2>1. CASE \E h \in Hosts : CheckPorts(q, h)
    BY <1>0, <2>1 DEF CheckPorts, Phases
  <2>2. CASE \E w \in reporting[q] : WorkerReport(q, w)
    BY <1>0, <2>2 DEF WorkerReport, localVars, Phases
  <2> QED
    BY <1>3, <2>1, <2>2 DEF Worker
<1>4. CASE Claim(q) \/ Refuse(q) \/ DetectRange(q) \/ GenerateRange(q) \/ RangeEmpty(q)
           \/ ReturnFailed(q) \/ ReturnCancelled(q) \/ Complete(q)
  <2>1. \/ /\ pc[q] \in {"launched", "detect", "range", "ranged"}
           /\ pc'[q] \in {"detect", "refused", "range", "ranged", "failing"}
        \/ pc'[q] = "done"
    BY <1>0, <1>4 DEF Claim, Refuse, DetectRange, GenerateRange, RangeEmpty, ReturnFailed,
                      ReturnCancelled, Complete
  <2>2. UNCHANGED <<todo, online, windows, devices, current, checking, reporting>>
    BY <1>4 DEF Claim, Refuse, DetectRange, GenerateRange, RangeEmpty, ReturnFailed,
                ReturnCancelled, Complete, localVars, workerVars
  <2> QED
    BY <1>0, <2>1, <2>2 DEF Phases
<1>5. CASE PingStart(q) \/ PortsNext(q) \/ InfoMissing(q) \/ InfoProgress(q)
  <2>1. \/ pc[q] = "ping" /\ pc'[q] = "pinging"
        \/ pc[q] = "ports" /\ pc'[q] = "acquire"
        \/ pc[q] = "fetch" /\ pc'[q] = "stored"
        \/ pc[q] = "stored" /\ pc'[q] = "info"
    BY <1>0, <1>5 DEF PingStart, PortsNext, InfoMissing, InfoProgress
  <2>2. UNCHANGED <<todo, online, windows, devices, current, checking, reporting>>
    BY <1>5 DEF PingStart, PortsNext, InfoMissing, InfoProgress, localVars, workerVars
  <2> QED
    BY <1>0, <2>1, <2>2 DEF Phases
<1>6. CASE RangeReady(q)
  BY <1>0, <1>6 DEF RangeReady, workerVars, Phases
<1>7. CASE PingBatch(q)
  BY <1>0, <1>7 DEF PingBatch, workerVars, Phases
<1>8. CASE PingDone(q)
  BY <1>0, <1>8 DEF PingDone, workerVars, Phases
<1>9. CASE PortsSpawn(q)
  <2>1. PICK h \in todo[q] : /\ todo' = [todo EXCEPT ![q] = todo[q] \ {h}]
                             /\ checking' = [checking EXCEPT ![q] = checking[q] \cup {h}]
    BY <1>9 DEF PortsSpawn
  <2>2. pc[q] = "acquire" /\ pc' = [pc EXCEPT ![q] = "ports"]
        /\ UNCHANGED <<online, windows, devices, current, reporting>>
    BY <1>9 DEF PortsSpawn
  <2>3. /\ pc'[q] = "ports" /\ todo'[q] = todo[q] \ {h}
        /\ checking'[q] = checking[q] \cup {h}
    BY <1>0, <2>1, <2>2
  <2>4. todo[q] \subseteq online[q] /\ checking[q] \subseteq online[q] /\ devices[q] = <<>>
    BY <1>0, <2>2 DEF Phases
  <2>5. checking'[q] \subseteq online'[q] /\ todo'[q] \subseteq online'[q] /\ devices'[q] = <<>>
    BY <2>1, <2>2, <2>3, <2>4
  <2> QED
    BY <2>3, <2>5 DEF Phases
<1>10. CASE PortsDone(q)
  <2>1. checking[q] = {} /\ reporting[q] = {}
    <3>1. Busy(q) = {}
      BY <1>10 DEF PortsDone
    <3>2. \A w \in reporting[q] : w[1] \in Busy(q)
      BY DEF Busy
    <3>3. checking[q] \subseteq Busy(q)
      BY DEF Busy
    <3> QED
      BY <3>1, <3>2, <3>3
  <2> QED
    BY <1>0, <1>10, <2>1 DEF PortsDone, workerVars, Phases
<1>11. CASE InfoNext(q)
  BY <1>0, <1>11 DEF InfoNext, workerVars, Phases
<1>12. CASE InfoStore(q)
  BY <1>0, <1>12 DEF InfoStore, workerVars, Phases
<1>13. Goroutine(q) => Phases(q)'
  BY <1>4, <1>5, <1>6, <1>7, <1>8, <1>9, <1>10, <1>11, <1>12 DEF Goroutine
<1>14. CASE StopScan
  BY <1>1, <1>14 DEF StopScan, localVars, workerVars, Apart
<1>15. CASE UNCHANGED vars
  BY <1>1, <1>15 DEF vars, Apart
<1>16. ASSUME NEW r \in Requests, Handler(r) \/ Goroutine(r) \/ Worker(r)
       PROVE  Phases(q)'
  BY <1>0, <1>1, <1>2, <1>3, <1>13, <1>16, OthersApart
<1> QED
  BY <1>14, <1>15, <1>16 DEF Next

----------------------------------------------------------------------------
(* What the console is shown. *)

\* A running scan that nothing was stopped under is alone and in progress.
LEMMA Alone ==
    ASSUME ScanInv, Unstopped, NEW r \in Requests, IsRunning(r)
    PROVE  /\ scanInProgress /\ currentProgress.status = "discovering" /\ Tally(r)
           /\ \A q \in Requests : IsRunning(q) \/ Busy(q) # {} => q = r
<1>1. scanInProgress /\ \A q \in Requests : IsRunning(q) => q = r
  BY DEF ScanInv, ScanControl, SingleScanUnlessStopped, Unstopped
<1>2. \A q \in Requests : Busy(q) # {} => IsRunning(q)
  BY DEF ScanInv, Undisturbed, IsRunning, Running
<1> QED
  BY <1>1, <1>2 DEF ScanInv, Undisturbed

LEMMA KeepsStatus ==
    ASSUME NEW a, NEW b, NEW c, updateProgress(a, b, c)
    PROVE  currentProgress'.status = currentProgress.status
BY DEF updateProgress, Progress

\* Nothing is ever un-stopped.
LEMMA StaysStopped ==
    ASSUME TypeOK, [Next]_vars, Unstopped'
    PROVE  Unstopped
<1>1. CASE StopScan
  BY <1>1 DEF StopScan, Unstopped
<1>2. CASE UNCHANGED cancelled
  BY <1>2 DEF Unstopped
<1>3. StopScan \/ UNCHANGED cancelled
  <2>1. ASSUME NEW r \in Requests, Claim(r) \/ StartLaunch(r)
        PROVE  UNCHANGED cancelled
    BY <2>1 DEF Claim, StartLaunch
  <2> QED
    BY <2>1, FlagSteps
<1> QED
  BY <1>1, <1>2, <1>3

\* A list and devices that are empty agree.
LEMMA EmptyTally ==
    ASSUME NEW r \in Requests, foundDevices' = <<>>, devices'[r] = <<>>
    PROVE  Tally(r)'
<1>1. DOMAIN foundDevices' = {} /\ Len(devices'[r]) = 0
  OBVIOUS
<1>2. Eligible' = {}
  BY <1>1 DEF Eligible
<1>3. Cardinality(Eligible') = 0
  BY <1>2, FS_EmptySet
<1>4. 1 .. Len(devices'[r]) = {}
  BY <1>1
<1> QED
  BY <1>1, <1>3, <1>4 DEF Tally

\* Before phase 5 a step of the scan stores no device and keeps the status.
LEMMA EarlyStep ==
    ASSUME TypeOK, NEW r \in Requests, pc[r] \notin {"info", "fetch", "stored"},
           Goroutine(r) \/ Worker(r), IsRunning(r), pc'[r] \in Running
    PROVE  /\ UNCHANGED <<foundDevices, devices>>
           /\ currentProgress'.status = currentProgress.status
<1> USE DEF TypeOK, ControlTypeOK, Goto
<1>1. CASE Worker(r)
  BY <1>1, KeepsStatus DEF Worker, CheckPorts, WorkerReport, serviceVars, localVars
<1>2. CASE DetectRange(r) \/ GenerateRange(r) \/ RangeEmpty(r) \/ RangeReady(r)
  BY <1>2, KeepsStatus DEF DetectRange, GenerateRange, RangeEmpty, RangeReady, localVars
<1>3. CASE PingStart(r) \/ PortsNext(r) \/ PortsSpawn(r)
  BY <1>3 DEF PingStart, PortsNext, PortsSpawn, serviceVars, localVars
<1>4. CASE PingBatch(r)
  BY <1>4, KeepsStatus DEF PingBatch
<1>5. CASE PingDone(r) \/ PortsDone(r)
  BY <1>5, KeepsStatus DEF PingDone, PortsDone
<1>6. CASE Claim(r) \/ Refuse(r) \/ ReturnFailed(r) \/ ReturnCancelled(r) \/ Complete(r)
  BY <1>6 DEF Claim, Refuse, ReturnFailed, ReturnCancelled, Complete, Running, IsRunning
<1>7. CASE InfoNext(r) \/ InfoStore(r) \/ InfoMissing(r) \/ InfoProgress(r)
  BY <1>7 DEF InfoNext, InfoStore, InfoMissing, InfoProgress
<1> QED
  BY <1>1, <1>2, <1>3, <1>4, <1>5, <1>6, <1>7 DEF Goroutine

\* The device just fetched is a new entry, and counted on both sides.
LEMMA StoreTally ==
    ASSUME ScanInv, NEW r \in Requests, InfoStore(r), Tally(r)
    PROVE  Tally(r)'
<1>0. TypeOK /\ Phases(r)
  BY DEF ScanInv, ScanControl
<1>1. PICK s \in DeviceStatuses :
        LET d == [ip |-> current[r], status |-> s]
        IN  /\ foundDevices' = Upsert(foundDevices, d)
            /\ devices' = IF s = "eligible" THEN [devices EXCEPT ![r] = Append(devices[r], d)]
                          ELSE devices
  BY DEF InfoStore
<1> DEFINE d == [ip |-> current[r], status |-> s]
           n == Len(foundDevices)
<1>2. /\ foundDevices \in Seq(WindowsDevice) /\ n \in Nat /\ DOMAIN foundDevices = 1 .. n
      /\ devices[r] \in Seq(WindowsDevice) /\ Len(devices[r]) \in Nat
  BY <1>0 DEF TypeOK
<1>3. /\ pc[r] = "fetch" /\ pc'[r] = "stored" /\ windows' = windows /\ todo' = todo
      /\ current' = current
  BY <1>0 DEF InfoStore, Goto, TypeOK, ControlTypeOK
<1>4. current[r] \in windows[r] \ todo[r]
  BY <1>0, <1>3 DEF Phases
<1>5. foundDevices' = Append(foundDevices, d)
  BY <1>1, <1>3 DEF Upsert, Tally
<1>6. d.ip = current[r] /\ d.status = s
  OBVIOUS
<1> HIDE DEF d
<1>7. /\ DOMAIN foundDevices' = 1 .. n + 1 /\ foundDevices'[n + 1] = d
      /\ \A k \in 1 .. n : foundDevices'[k] = foundDevices[k]
  BY <1>2, <1>5
<1>8. \A k \in DOMAIN foundDevices' : foundDevices'[k].ip \in windows'[r] \ todo'[r]
  <2>1. \A k \in 1 .. n : foundDevices[k].ip \in windows[r] \ todo[r]
    BY <1>2 DEF Tally
  <2>2. \A k \in 1 .. n + 1 : k \in 1 .. n \/ k = n + 1
    BY <1>2
  <2> QED
    BY <1>3, <1>4, <1>6, <1>7, <2>1, <2>2
<1>9. Eligible \subseteq 1 .. n /\ IsFiniteSet(Eligible) /\ Cardinality(Eligible) = Len(devices[r])
  <2>1. Eligible \subseteq 1 .. n
    BY <1>2 DEF Eligible
  <2>2. IsFiniteSet(1 .. n)
    BY <1>2, FS_Interval
  <2> QED
    BY <2>1, <2>2, FS_Subset DEF Tally
<1>10. Eligible' = Eligible \cup (IF s = "eligible" THEN {n + 1} ELSE {})
  <2>1. Eligible' = {k \in 1 .. n + 1 : foundDevices'[k].status = "eligible"}
    BY <1>7 DEF Eligible
  <2>2. Eligible = {k \in 1 .. n : foundDevices[k].status = "eligible"}
    BY <1>2 DEF Eligible
  <2>3. \A k \in 1 .. n + 1 : k \in 1 .. n \/ k = n + 1
    BY <1>2
  <2>4. n + 1 \notin 1 .. n /\ n + 1 \in 1 .. n + 1 /\ \A k \in 1 .. n : k \in 1 .. n + 1
    BY <1>2
  <2> QED
    BY <1>6, <1>7, <2>1, <2>2, <2>3, <2>4
<1>11. \A j \in 1 .. Len(devices[r]) :
          \E k \in DOMAIN foundDevices' : foundDevices'[k] = devices[r][j]
  <2>1. \A k \in 1 .. n : k \in 1 .. n + 1
    BY <1>2
  <2>2. \A j \in 1 .. Len(devices[r]) : \E k \in 1 .. n : foundDevices[k] = devices[r][j]
    BY <1>2 DEF Tally
  <2> QED
    BY <1>7, <2>1, <2>2
<1>12. CASE s = "eligible"
  <2>1. devices'[r] = Append(devices[r], d)
    BY <1>0, <1>1, <1>12 DEF d, TypeOK
  <2>2. n + 1 \notin Eligible
    BY <1>2, <1>9
  <2>3. Cardinality(Eligible') = Len(devices[r]) + 1
    BY <1>9, <1>10, <1>12, <2>2, FS_AddElement
  <2>4. /\ Len(devices'[r]) = Len(devices[r]) + 1 /\ devices'[r][Len(devices[r]) + 1] = d
        /\ \A j \in 1 .. Len(devices[r]) : devices'[r][j] = devices[r][j]
    BY <1>2, <2>1
  <2>5. \A j \in 1 .. Len(devices[r]) + 1 : j \in 1 .. Len(devices[r]) \/ j = Len(devices[r]) + 1
    BY <1>2
  <2>6. n + 1 \in DOMAIN foundDevices'
    BY <1>2, <1>7
  <2>7. \A j \in 1 .. Len(devices'[r]) :
           \E k \in DOMAIN foundDevices' : foundDevices'[k] = devices'[r][j]
    BY <1>7, <1>11, <2>4, <2>5, <2>6
  <2> QED
    BY <1>3, <1>8, <2>3, <2>4, <2>7 DEF Tally
<1>13. CASE s # "eligible"
  <2>1. devices' = devices /\ Eligible' = Eligible
    BY <1>1, <1>10, <1>13
  <2> QED
    BY <1>3, <1>8, <1>9, <1>11, <2>1 DEF Tally
<1> QED
  BY <1>12, <1>13

\* A step that a scan nobody disturbs survives.
LEMMA Onward ==
    ASSUME ScanInv, Unstopped, NEW r \in Requests, IsRunning(r),
           Goroutine(r) \/ Worker(r), pc'[r] \in Running
    PROVE  currentProgress'.status = "discovering" /\ Tally(r)'
<1>0. TypeOK /\ Phases(r) /\ Tally(r) /\ currentProgress.status = "discovering"
  BY Alone DEF ScanInv, ScanControl
<1>1. CASE pc[r] \notin {"info", "fetch", "stored"}
  <2>1. foundDevices = <<>> /\ devices[r] = <<>>
    BY <1>0, <1>1 DEF Tally, Phases, IsRunning, Running
  <2>2. foundDevices' = <<>> /\ devices'[r] = <<>> /\ currentProgress'.status = "discovering"
    BY <1>0, <1>1, <2>1, EarlyStep
  <2> QED
    BY <2>2, EmptyTally
<1>2. CASE InfoStore(r)
  BY <1>0, <1>2, StoreTally DEF InfoStore
<1>3. CASE InfoNext(r)
  <2>1. PICK h \in todo[r] : /\ current' = [current EXCEPT ![r] = h]
                             /\ todo' = [todo EXCEPT ![r] = todo[r] \ {h}]
    BY <1>3 DEF InfoNext
  <2>2. /\ pc'[r] = "fetch" /\ current'[r] = h /\ todo'[r] = todo[r] \ {h}
        /\ UNCHANGED <<foundDevices, currentProgress, windows, devices>>
    BY <1>0, <1>3, <2>1 DEF InfoNext, Goto, serviceVars, TypeOK, ControlTypeOK
  <2>3. Eligible' = Eligible
    BY <2>2 DEF Eligible
  <2> QED
    BY <1>0, <2>2, <2>3 DEF Tally
<1>4. CASE InfoMissing(r) \/ InfoProgress(r)
  <2>1. /\ pc'[r] \in {"stored", "info"}
        /\ UNCHANGED <<foundDevices, windows, devices, todo, current>>
    BY <1>0, <1>4 DEF InfoMissing, InfoProgress, Goto, serviceVars, localVars, TypeOK,
                      ControlTypeOK
  <2>2. currentProgress'.status = "discovering"
    BY <1>0, <1>4, KeepsStatus DEF InfoMissing, InfoProgress, serviceVars
  <2>3. Eligible' = Eligible
    BY <2>1 DEF Eligible
  <2> QED
    BY <1>0, <2>1, <2>2, <2>3 DEF Tally
<1>5. CASE pc[r] \in {"info", "fetch", "stored"}
  <2>1. ~Worker(r)
    BY <1>0, <1>5 DEF Worker, CheckPorts, Phases
  <2>2. pc'[r] # "done"
    BY DEF Running
  <2>3. ~Complete(r) /\ ~ReturnCancelled(r) /\ ~ReturnFailed(r)
    BY <1>0, <2>2 DEF Complete, ReturnCancelled, ReturnFailed, Goto, TypeOK, ControlTypeOK
  <2>4. InfoNext(r) \/ InfoStore(r) \/ InfoMissing(r) \/ InfoProgress(r)
    BY <1>5, <2>1, <2>3 DEF Goroutine, Claim, Refuse, DetectRange, GenerateRange, RangeEmpty,
       RangeReady, PingStart, PingBatch, PingDone, PortsNext, PortsSpawn, PortsDone
  <2> QED
    BY <1>2, <1>3, <1>4, <2>4
<1> QED
  BY <1>1, <1>5

LEMMA WorkerIsBusy ==
    ASSUME NEW r \in Requests, Worker(r)
    PROVE  Busy(r) # {} /\ pc' = pc /\ UNCHANGED foundDevices
<1>1. checking[r] \subseteq Busy(r)
  BY DEF Busy
<1>2. \A w \in reporting[r] : w[1] \in Busy(r)
  BY DEF Busy
<1>3. ASSUME NEW h \in Hosts, CheckPorts(r, h)
      PROVE  h \in checking[r] /\ pc' = pc /\ UNCHANGED foundDevices
  BY <1>3 DEF CheckPorts, serviceVars
<1>4. ASSUME NEW w \in reporting[r], WorkerReport(r, w)
      PROVE  pc' = pc /\ UNCHANGED foundDevices
  BY <1>4 DEF WorkerReport
<1> QED
  BY <1>1, <1>2, <1>3, <1>4 DEF Worker

\* A scan nobody disturbs leaves no worker behind when it returns.
LEMMA NextWorkers ==
    ASSUME ScanInv, [Next]_vars, Unstopped, NEW q \in Requests, (Busy(q) # {})'
    PROVE  pc'[q] \in {"ports", "acquire"}
<1>0. TypeOK /\ Phases(q) /\ Phases(q)' /\ ~cancelled[q]
      /\ (Busy(q) # {} => pc[q] \in {"ports", "acquire"})
  BY NextPhases DEF ScanInv, ScanControl, Undisturbed, Unstopped
<1>1. checking'[q] # {} \/ reporting'[q] # {}
  <2>1. Busy(q)' = checking'[q] \cup {w[1] : w \in reporting'[q]}
    BY DEF Busy
  <2> QED
    BY <2>1
<1>2. TypeOK'
  BY NextTypes
<1>3. pc'[q] \in {"ports", "acquire", "done"}
  BY <1>0, <1>1 DEF Phases
<1>4. ASSUME pc'[q] = "done" PROVE FALSE
  <2>1. CASE Apart(q)
    <3>1. Busy(q)' = Busy(q)
      BY <2>1 DEF Apart, Busy
    <3>2. pc[q] = "done"
      BY <1>4, <2>1 DEF Apart
    <3> QED
      BY <1>0, <3>1, <3>2
  <2>2. CASE Worker(q)
    <3>1. pc' = pc /\ Busy(q) # {}
      BY <2>2, WorkerIsBusy
    <3> QED
      BY <1>0, <1>4, <3>1
  <2>3. CASE Handler(q) \/ Goroutine(q)
    <3>1. ReturnFailed(q) \/ Complete(q)
      BY <1>0, <1>4, <2>3 DEF Handler, Goroutine, StartCheck, StartLaunch, Claim, Refuse,
         DetectRange, GenerateRange, RangeEmpty, RangeReady, ReturnCancelled, PingStart, PingBatch,
         PingDone, PortsNext, PortsSpawn, PortsDone, InfoNext, InfoStore, InfoMissing,
         InfoProgress, Goto, TypeOK, ControlTypeOK
    <3>2. /\ pc[q] \in {"failing", "info"} /\ UNCHANGED <<checking, reporting>>
      BY <3>1 DEF ReturnFailed, Complete, workerVars
    <3> QED
      BY <1>0, <1>1, <3>2 DEF Phases
  <2>4. CASE StopScan \/ UNCHANGED vars
    BY <2>1, <2>4 DEF StopScan, vars, Apart, localVars, workerVars
  <2> QED
    BY <1>0, <2>1, <2>2, <2>3, <2>4, OthersApart DEF Next
<1> QED
  BY <1>3, <1>4

\* The service's variables that the console is shown, when another request moves.
LEMMA NextScans ==
    ASSUME ScanInv, [Next]_vars, Unstopped', NEW r \in Requests, IsRunning(r)'
    PROVE  currentProgress'.status = "discovering" /\ Tally(r)'
<1>0. TypeOK /\ Unstopped /\ Phases(r) /\ Cancellable
  BY StaysStopped DEF ScanInv, ScanControl
<1>1. CASE Claim(r)
  <2>1. pc[r] = "launched" /\ foundDevices' = <<>> /\ devices' = devices
        /\ currentProgress' = Progress("discovering", 0, 0, 0)
    BY <1>1 DEF Claim, localVars
  <2>2. devices'[r] = <<>>
    BY <1>0, <2>1 DEF Phases
  <2>3. currentProgress'.status = "discovering"
    BY <2>1 DEF Progress
  <2> QED
    BY <2>1, <2>2, <2>3, EmptyTally
<1>2. CASE ~IsRunning(r)
  <2>1. \E q \in Requests : Claim(q)
    <3>1. ASSUME NEW q \in Requests, StartLaunch(q) PROVE FALSE
      BY <1>0, <1>2, <3>1 DEF StartLaunch, Goto, IsRunning, Running, TypeOK, ControlTypeOK
    <3>2. ASSUME StopScan PROVE FALSE
      BY <1>2, <3>2 DEF StopScan, IsRunning
    <3>3. ASSUME NEW q \in Requests, pc' = [pc EXCEPT ![q] = "done"] PROVE FALSE
      BY <1>0, <1>2, <3>3 DEF IsRunning, Running, TypeOK, ControlTypeOK
    <3>4. ~(\/ IsRunning(r) /\ pc'[r] \in Running
            \/ pc'[r] = pc[r]
            \/ pc[r] = "idle" /\ pc'[r] \in {"checked", "rejected"}
            \/ pc[r] = "launched" /\ pc'[r] = "refused")
      BY <1>2 DEF IsRunning, Running
    <3> QED
      BY <1>0, <3>1, <3>2, <3>3, <3>4, FlagSteps
  <2>2. Claim(r)
    BY <1>0, <1>2, <2>1 DEF Claim, Goto, IsRunning, TypeOK, ControlTypeOK
  <2> QED
    BY <1>1, <2>2
<1>3. CASE IsRunning(r)
  <2>0. /\ scanInProgress /\ currentProgress.status = "discovering" /\ Tally(r)
        /\ \A q \in Requests : IsRunning(q) \/ Busy(q) # {} => q = r
    BY <1>0, <1>3, Alone
  <2>1. ASSUME UNCHANGED <<currentProgress, foundDevices>>, Apart(r)
        PROVE  currentProgress'.status = "discovering" /\ Tally(r)'
    <3>1. Eligible' = Eligible
      BY <2>1 DEF Eligible
    <3> QED
      BY <2>0, <2>1, <3>1 DEF Apart, Tally
  <2>2. ASSUME NEW q \in Requests, Handler(q) \/ Refuse(q)
        PROVE  currentProgress'.status = "discovering" /\ Tally(r)'
    <3>1. pc[q] \in {"idle", "checked", "launched"}
          /\ UNCHANGED <<currentProgress, foundDevices>>
      BY <2>2 DEF Handler, StartCheck, StartLaunch, Refuse, serviceVars
    <3>2. q # r
      BY <1>3, <3>1 DEF IsRunning, Running
    <3> QED
      BY <1>0, <2>1, <2>2, <3>1, <3>2, OthersApart DEF Goroutine
  <2>3. ASSUME NEW q \in Requests, Goroutine(q) \/ Worker(q), ~Refuse(q)
        PROVE  currentProgress'.status = "discovering" /\ Tally(r)'
    <3>1. CASE Worker(q)
      <4>1. Busy(q) # {}
        BY <3>1, WorkerIsBusy
      <4> QED
        BY <1>0, <1>3, <2>0, <3>1, <4>1, Onward DEF IsRunning
    <3>2. CASE Goroutine(q)
      <4>1. IsRunning(q)
        BY <2>0, <2>3, <3>2 DEF Goroutine, Claim, DetectRange, GenerateRange, RangeEmpty,
           ReturnFailed, RangeReady, ReturnCancelled, PingStart, PingBatch, PingDone, PortsNext,
           PortsSpawn, PortsDone, InfoNext, InfoStore, InfoMissing, InfoProgress, Complete,
           IsRunning, Running
      <4> QED
        BY <1>0, <1>3, <2>0, <3>2, <4>1, Onward DEF IsRunning
    <3> QED
      BY <2>3, <3>1, <3>2
  <2>4. ~StopScan
    BY <1>0, <1>3 DEF StopScan, Unstopped, Cancellable, IsRunning, Running, TypeOK, ControlTypeOK
  <2>5. CASE UNCHANGED vars
    BY <2>1, <2>5 DEF vars, Apart
  <2> QED
    BY <2>2, <2>3, <2>4, <2>5 DEF Next
<1> QED
  BY <1>2, <1>3

LEMMA NextUndisturbed ==
    ASSUME ScanInv, [Next]_vars
    PROVE  Undisturbed'
<1>1. ASSUME Unstopped', NEW r \in Requests, (Busy(r) # {})'
      PROVE  pc'[r] \in {"ports", "acquire"}
  BY <1>1, StaysStopped, NextWorkers DEF ScanInv, ScanControl
<1>2. ASSUME Unstopped', NEW r \in Requests, IsRunning(r)'
      PROVE  currentProgress'.status = "discovering" /\ Tally(r)'
  BY <1>2, NextScans
<1> QED
  BY <1>1, <1>2 DEF Undisturbed

\* What a step does to the report when it leaves no scan running.
LEMMA ReportSteps ==
    ASSUME TypeOK, [Next]_vars
    PROVE  \/ UNCHANGED <<currentProgress, foundDevices>>
           \/ currentProgress'.status = "failed" /\ UNCHANGED foundDevices
           \/ \E r \in Requests : Complete(r)
           \/ /\ \/ UNCHANGED foundDevices
                 \/ foundDevices' = <<>>
                 \/ \E r \in Requests : InfoStore(r)
              /\ \E r \in Requests : (Busy(r) # {} /\ pc' = pc) \/ IsRunning(r)'
<1> USE DEF Goto, serviceVars, TypeOK, ControlTypeOK
<1>1. ASSUME NEW r \in Requests,
             \/ StartCheck(r) \/ StartLaunch(r) \/ Refuse(r) \/ PingStart(r) \/ PortsNext(r)
             \/ PortsSpawn(r) \/ InfoNext(r) \/ InfoMissing(r)
      PROVE  UNCHANGED <<currentProgress, foundDevices>>
  BY <1>1 DEF StartCheck, StartLaunch, Refuse, PingStart, PortsNext, PortsSpawn, InfoNext,
              InfoMissing
<1>2. ASSUME NEW r \in Requests, ReturnFailed(r) \/ ReturnCancelled(r)
      PROVE  currentProgress'.status = "failed" /\ UNCHANGED foundDevices
  BY <1>2 DEF ReturnFailed, ReturnCancelled, SetStatus, Progress
<1>3. ASSUME NEW r \in Requests, Claim(r)
      PROVE  foundDevices' = <<>> /\ IsRunning(r)'
  BY <1>3 DEF Claim, IsRunning, Running
<1>4. ASSUME NEW r \in Requests,
             DetectRange(r) \/ GenerateRange(r) \/ RangeEmpty(r) \/ RangeReady(r) \/ PingDone(r)
             \/ PortsDone(r) \/ InfoProgress(r)
      PROVE  UNCHANGED foundDevices /\ IsRunning(r)'
  BY <1>4 DEF DetectRange, GenerateRange, RangeEmpty, RangeReady, PingDone, PortsDone,
              InfoProgress, IsRunning, Running
<1>5. ASSUME NEW r \in Requests, PingBatch(r)
      PROVE  UNCHANGED foundDevices /\ IsRunning(r)'
  BY <1>5 DEF PingBatch, IsRunning, Running
<1>6. ASSUME NEW r \in Requests, InfoStore(r)
      PROVE  IsRunning(r)'
  BY <1>6 DEF InfoStore, IsRunning, Running
<1>7. ASSUME NEW r \in Requests, Worker(r)
      PROVE  UNCHANGED foundDevices /\ Busy(r) # {} /\ pc' = pc
  BY <1>7, WorkerIsBusy
<1>8. CASE StopScan
  BY <1>8 DEF StopScan, SetStatus, Progress
<1>9. CASE UNCHANGED vars
  BY <1>9 DEF vars
<1> QED
  BY <1>1, <1>2, <1>3, <1>4, <1>5, <1>6, <1>7, <1>8, <1>9 DEF Next, Handler, Goroutine

LEMMA NextUnique ==
    ASSUME ScanInv, [Next]_vars
    PROVE  FoundDevicesUnique'
<1>0. TypeOK /\ foundDevices \in DeviceLists
  BY DEF ScanInv, ScanControl, ReportCoherent, FoundDevicesUnique, DeviceLists, Unique, TypeOK
<1>1. foundDevices' \in DeviceLists => FoundDevicesUnique'
  BY DEF FoundDevicesUnique, DeviceLists, Unique
<1>2. CASE UNCHANGED foundDevices
  BY <1>0, <1>1, <1>2
<1>3. CASE foundDevices' = <<>>
  BY <1>3 DEF FoundDevicesUnique
<1>4. ASSUME NEW r \in Requests, InfoStore(r)
      PROVE  FoundDevicesUnique'
  <2>1. PICK s \in DeviceStatuses :
            foundDevices' = Upsert(foundDevices, [ip |-> current[r], status |-> s])
    BY <1>4 DEF InfoStore
  <2>2. current[r] \in Hosts
    BY <1>0, <1>4 DEF InfoStore, ScanInv, Phases, TypeOK, ControlTypeOK
  <2>3. [ip |-> current[r], status |-> s] \in WindowsDevice
    BY <2>2 DEF WindowsDevice
  <2> QED
    BY <1>0, <1>1, <2>1, <2>3, UpsertUnique
<1>5. ASSUME NEW r \in Requests, Complete(r)
      PROVE  FoundDevicesUnique'
  <2>1. devices[r] \in Seq(WindowsDevice) /\ foundDevices' = Merge(foundDevices, devices[r])
    BY <1>0, <1>5 DEF TypeOK, Complete
  <2> QED
    BY <1>0, <1>1, <2>1, MergeUnique
<1> QED
  BY <1>0, <1>2, <1>3, <1>4, <1>5, ReportSteps

LEMMA NextCoherent ==
    ASSUME ScanInv, [Next]_vars
    PROVE  CompletedReportCoherent'
<1> SUFFICES ASSUME Unstopped', currentProgress'.status = "completed"
             PROVE  /\ currentProgress'.progress = 100
                    /\ currentProgress'.eligible = Cardinality(Eligible')
  BY DEF CompletedReportCoherent, Unstopped, Eligible
<1>0. TypeOK /\ Unstopped /\ CompletedReportCoherent
  BY StaysStopped DEF ScanInv, ScanControl, ReportCoherent
<1>1. \A r \in Requests : ~IsRunning(r)'
  BY NextScans
<1>2. ASSUME NEW r \in Requests, Busy(r) # {}, pc' = pc PROVE FALSE
  BY <1>0, <1>1, <1>2 DEF ScanInv, Undisturbed, IsRunning, Running
<1>3. CASE UNCHANGED <<currentProgress, foundDevices>>
  BY <1>0, <1>3 DEF CompletedReportCoherent, Unstopped, Eligible
<1>4. ASSUME NEW r \in Requests, Complete(r)
      PROVE  /\ currentProgress'.progress = 100
             /\ currentProgress'.eligible = Cardinality(Eligible')
  <2>1. IsRunning(r)
    BY <1>4 DEF Complete, IsRunning, Running
  <2>2. Tally(r)
    BY <1>0, <2>1, Alone
  <2>3. foundDevices \in DeviceLists /\ devices[r] \in Seq(WindowsDevice)
    BY <1>0 DEF ScanInv, ReportCoherent, FoundDevicesUnique, DeviceLists, Unique, TypeOK
  <2>4. foundDevices' = foundDevices
    BY <1>4, <2>2, <2>3, MergeSame DEF Complete, Tally
  <2>5. currentProgress'.progress = 100 /\ currentProgress'.eligible = Len(devices[r])
    BY <1>4 DEF Complete, Progress
  <2>6. Eligible' = Eligible
    BY <2>4 DEF Eligible
  <2> QED
    BY <2>2, <2>5, <2>6 DEF Tally
<1> QED
  BY <1>0, <1>1, <1>2, <1>3, <1>4, ReportSteps

----------------------------------------------------------------------------
(* The invariant and the theorems. *)

LEMMA InitInv ==
    ASSUME Init
    PROVE  ScanInv
<1> USE DEF Init
<1>1. TypeOK
  <2>1. currentProgress \in ProgressRecord
    BY ProgressType DEF Statuses
  <2>2. /\ pc \in [Requests -> PCs] /\ cancelled \in [Requests -> BOOLEAN]
        /\ todo \in [Requests -> SUBSET Hosts] /\ online \in [Requests -> SUBSET Hosts]
        /\ windows \in [Requests -> SUBSET Hosts] /\ checking \in [Requests -> SUBSET Hosts]
    BY DEF PCs
  <2>3. foundDevices \in Seq(WindowsDevice) /\ devices \in [Requests -> Seq(WindowsDevice)]
    OBVIOUS
  <2>4. current \in [Requests -> 0..NHosts] /\ processed \in [Requests -> Nat]
    BY DiscoveryAssumption
  <2>5. reporting \in [Requests -> SUBSET (Hosts \X Nat)]
    OBVIOUS
  <2> QED
    BY <2>1, <2>2, <2>3, <2>4, <2>5 DEF TypeOK, ControlTypeOK
<1>2. FlagHasOwner /\ SingleScanUnlessStopped /\ Cancellable
  BY DEF FlagHasOwner, SingleScanUnlessStopped, Cancellable, IsRunning, Running
<1>3. \A r \in Requests : Phases(r)
  BY DEF Phases
<1>4. currentProgress.status = "discovering"
  BY DEF Progress
<1>5. ReportCoherent
  <2>1. FoundDevicesUnique
    BY DEF FoundDevicesUnique
  <2>2. CompletedReportCoherent
    BY <1>4 DEF CompletedReportCoherent
  <2> QED
    BY <2>1, <2>2 DEF ReportCoherent
<1>6. Undisturbed
  <2>1. \A r \in Requests : Busy(r) = {} /\ ~IsRunning(r)
    BY DEF Busy, IsRunning, Running
  <2> QED
    BY <2>1 DEF Undisturbed
<1> QED
  BY <1>1, <1>2, <1>3, <1>5, <1>6 DEF ScanInv, ScanControl

\* The inductive invariant holds in every state the service and its goroutines
\* reach.
LEMMA ScanInvariant == Spec => []ScanInv
<1>1. ScanInv /\ [Next]_vars => ScanInv'
  <2> SUFFICES ASSUME ScanInv, [Next]_vars PROVE ScanInv'
    OBVIOUS
  <2>1. TypeOK' /\ FlagHasOwner' /\ SingleScanUnlessStopped' /\ Cancellable'
    BY NextTypes, NextControl
  <2>2. \A r \in Requests : Phases(r)'
    BY NextPhases
  <2>3. FoundDevicesUnique' /\ CompletedReportCoherent' /\ Undisturbed'
    BY NextUnique, NextCoherent, NextUndisturbed
  <2> QED
    BY <2>1, <2>2, <2>3 DEF ScanInv, ScanControl, ReportCoherent
<1> QED
  BY <1>1, InitInv, PTL DEF Spec

\* For every number of requests and hosts, whatever start and stop requests do: a
\* set scanInProgress has a goroutine inside DiscoverDevices that will clear it,
\* and until a scan is stopped no two scans run side by side.
THEOREM ScansControlled == Spec => []ScanControl
<1>1. ScanInv => ScanControl
  BY DEF ScanInv
<1> QED
  BY <1>1, ScanInvariant, PTL

\* For every number of requests and hosts: FoundDevices holds one entry for an
\* address even when stopped scans and their successor store devices side by side,
\* and the report of a scan that completed undisturbed counts exactly the eligible
\* entries of the list.
THEOREM ReportsCoherent == Spec => []ReportCoherent
<1>1. ScanInv => ReportCoherent
  BY DEF ScanInv
<1> QED
  BY <1>1, ScanInvariant, PTL

=============================================================================
