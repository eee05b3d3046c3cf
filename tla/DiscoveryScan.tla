--------------------------- MODULE DiscoveryScan ---------------------------
(***************************************************************************)
(* The network discovery service: backend/internal/discovery/service.go    *)
(* and the HTTP handlers that drive it (backend/internal/api/rest.go).     *)
(*                                                                         *)
(* One Service is shared by every request.  Each POST /api/devices/discover*)
(* runs a handler and, if the handler accepts it, a goroutine executing    *)
(* DiscoverDevices; phase 4 of a scan spawns one worker goroutine per      *)
(* online host.  The service's fields are protected by s.mu, so an action  *)
(* is one critical section of s.mu together with the local work around it. *)
(***************************************************************************)
EXTENDS Integers, Sequences, FiniteSets

CONSTANTS
    Requests,     \* start requests; each may become one scan goroutine
    NHosts,       \* addresses GenerateIPRange returns (254 at most)
    BatchSize,    \* hosts pinged in parallel (10 in the code)
    MinWorkers,   \* lower bound of the phase 4 worker pool (10 in the code)
    MaxWorkers,   \* upper bound of the phase 4 worker pool (100 in the code)
    ReportEvery,  \* a worker reports progress every so many hosts (10)
    NoRequest     \* the nil cancelFunc

ASSUME DiscoveryAssumption ==
    /\ NHosts \in Nat \ {0}
    /\ BatchSize \in Nat \ {0}
    /\ MinWorkers \in Nat \ {0}
    /\ MaxWorkers \in Nat \ {0}
    /\ ReportEvery \in Nat \ {0}
    /\ NoRequest \notin Requests

VARIABLES
    scanInProgress,   \* s.scanInProgress
    cancelFunc,       \* the request whose context s.cancelFunc cancels
    currentProgress,  \* s.currentProgress without FoundDevices and Message
    foundDevices,     \* s.currentProgress.FoundDevices
    pc,               \* where each request's handler or scan goroutine is
    cancelled,        \* whether each request's context is cancelled
    todo,             \* hosts the current phase of a scan has still to visit
    online,           \* onlineHosts of a scan
    windows,          \* windowsHosts of a scan
    devices,          \* devices of a scan: the eligible ones, in order
    current,          \* the host whose device information is being fetched
    processed,        \* atomic counter of the phase 4 workers of a scan
    checking,         \* hosts whose phase 4 worker is probing ports
    reporting         \* <<host, percent>> of workers about to report progress

serviceVars == <<scanInProgress, cancelFunc, currentProgress, foundDevices>>
localVars == <<todo, online, windows, devices, current>>
workerVars == <<processed, checking, reporting>>
vars == <<scanInProgress, cancelFunc, currentProgress, foundDevices, pc, cancelled,
          todo, online, windows, devices, current, processed, checking, reporting>>

----------------------------------------------------------------------------
Hosts == 1..NHosts
Statuses == {"discovering", "completed", "failed"}
DeviceStatuses == {"eligible", "ineligible"}
WindowsDevice == [ip : Hosts, status : DeviceStatuses]
ProgressRecord == [status : Statuses, progress : Nat, scanned : Nat, eligible : Nat]

Progress(status, percent, totalScanned, totalEligible) ==
    [status |-> status, progress |-> percent, scanned |-> totalScanned,
     eligible |-> totalEligible]

\* A goroutine inside DiscoverDevices, past the critical section that claims
\* the service and before the one that releases it.
Running == {"detect", "range", "ranged", "failing", "ping", "pinging", "ports", "acquire", "info", "fetch",
            "stored"}
PCs == Running \cup {"idle", "checked", "rejected", "launched", "refused", "done"}

IsRunning(r) == pc[r] \in Running

\* The first BatchSize addresses of those still to ping.
Batch(r) == {h \in todo[r] : Cardinality({g \in todo[r] : g < h}) < BatchSize}

Busy(r) == checking[r] \cup {w[1] : w \in reporting[r]}

\* A bug: the lower bound of the worker pool is forgotten.
MaxConcurrency_NoMinimum(n) == IF n \div 2 < MaxWorkers THEN n \div 2 ELSE MaxWorkers

\* maxConcurrency of phase 4.
MaxConcurrency(n) ==
    LET atLeast == IF n \div 2 > MinWorkers THEN n \div 2 ELSE MinWorkers
    IN  IF atLeast < MaxWorkers THEN atLeast ELSE MaxWorkers

\* updateProgress: overwrites the figures, keeps the status and the devices.
updateProgress(percent, totalScanned, totalEligible) ==
    currentProgress' = Progress(currentProgress.status, percent, totalScanned, totalEligible)

\* The status is overwritten, the figures stay.
SetStatus(status) ==
    currentProgress' = Progress(status, currentProgress.progress, currentProgress.scanned,
                                currentProgress.eligible)

\* Replace the entry for d's address if there is one, append d otherwise.  The
\* code stops at the first entry it replaces, and there is only one.
Upsert(found, d) ==
    IF \E k \in DOMAIN found : found[k].ip = d.ip
    THEN [k \in DOMAIN found |-> IF found[k].ip = d.ip THEN d ELSE found[k]]
    ELSE Append(found, d)

\* The devices of a scan go into the list one after the other.
Merge(found, devs) ==
    LET merged[n \in 0 .. Len(devs)] ==
            IF n = 0 THEN found ELSE Upsert(merged[n - 1], devs[n])
    IN  merged[Len(devs)]

----------------------------------------------------------------------------
Init ==
    /\ scanInProgress = FALSE
    /\ cancelFunc = NoRequest
    /\ currentProgress = Progress("discovering", 0, 0, 0)
    /\ foundDevices = <<>>
    /\ pc = [r \in Requests |-> "idle"]
    /\ cancelled = [r \in Requests |-> FALSE]
    /\ todo = [r \in Requests |-> {}]
    /\ online = [r \in Requests |-> {}]
    /\ windows = [r \in Requests |-> {}]
    /\ devices = [r \in Requests |-> <<>>]
    /\ current = [r \in Requests |-> 0]
    /\ processed = [r \in Requests |-> 0]
    /\ checking = [r \in Requests |-> {}]
    /\ reporting = [r \in Requests |-> {}]

Goto(r, label) == pc' = [pc EXCEPT ![r] = label]

\* handleStartDiscovery tests IsScanInProgress and answers 409 Conflict ...
StartCheck(r) ==
    /\ pc[r] = "idle"
    /\ Goto(r, IF scanInProgress THEN "rejected" ELSE "checked")
    /\ UNCHANGED <<serviceVars, cancelled, localVars, workerVars>>

\* ... and only later installs the cancel function and starts the goroutine.
StartLaunch(r) ==
    /\ pc[r] = "checked"
    /\ cancelFunc' = r
    /\ Goto(r, "launched")
    /\ UNCHANGED <<scanInProgress, currentProgress, foundDevices, cancelled,
                   localVars, workerVars>>

\* A bug: the service is claimed without testing scanInProgress again.
Claim_Untested(r) ==
    /\ pc[r] = "launched"
    /\ scanInProgress' = TRUE
    /\ currentProgress' = Progress("discovering", 0, 0, 0)
    /\ foundDevices' = <<>>
    /\ Goto(r, "detect")
    /\ UNCHANGED <<cancelFunc, cancelled, localVars, workerVars>>

\* The first critical section of DiscoverDevices claims the service.
Claim(r) ==
    /\ pc[r] = "launched"
    /\ ~scanInProgress
    /\ scanInProgress' = TRUE
    /\ currentProgress' = Progress("discovering", 0, 0, 0)
    /\ foundDevices' = <<>>
    /\ Goto(r, "detect")
    /\ UNCHANGED <<cancelFunc, cancelled, localVars, workerVars>>

\* A goroutine that finds a scan in progress returns an error that is logged.
Refuse(r) ==
    /\ pc[r] = "launched"
    /\ scanInProgress
    /\ Goto(r, "refused")
    /\ UNCHANGED <<serviceVars, cancelled, localVars, workerVars>>

\* Phase 1, GetNetworkRange, and phase 2, GenerateIPRange, each announced.
DetectRange(r) ==
    /\ pc[r] = "detect"
    /\ updateProgress(5, 0, 0)
    /\ Goto(r, "range")
    /\ UNCHANGED <<scanInProgress, cancelFunc, foundDevices, cancelled, localVars,
                   workerVars>>

GenerateRange(r) ==
    /\ pc[r] = "range"
    /\ updateProgress(10, 0, 0)
    /\ Goto(r, "ranged")
    /\ UNCHANGED <<scanInProgress, cancelFunc, foundDevices, cancelled, localVars,
                   workerVars>>

\* The interface has no usable address range: progress is reset in one
\* critical section, the service released in the next.
RangeEmpty(r) ==
    /\ pc[r] = "ranged"
    /\ updateProgress(0, 0, 0)
    /\ Goto(r, "failing")
    /\ UNCHANGED <<scanInProgress, cancelFunc, foundDevices, cancelled, localVars,
                   workerVars>>

ReturnFailed(r) ==
    /\ pc[r] = "failing"
    /\ scanInProgress' = FALSE
    /\ SetStatus("failed")
    /\ Goto(r, "done")
    /\ UNCHANGED <<cancelFunc, foundDevices, cancelled, localVars, workerVars>>

\* Phase 3 starts on the addresses generated.
RangeReady(r) ==
    /\ pc[r] = "ranged"
    /\ updateProgress(15, 0, 0)
    /\ todo' = [todo EXCEPT ![r] = Hosts]
    /\ Goto(r, "ping")
    /\ UNCHANGED <<scanInProgress, cancelFunc, foundDevices, cancelled, online,
                   windows, devices, current, workerVars>>

\* The select on ctx.Done() at the head of each of the three host loops.
ReturnCancelled(r) ==
    /\ pc[r] \in {"ping", "ports", "info"}
    /\ todo[r] # {}
    /\ cancelled[r]
    /\ scanInProgress' = FALSE
    /\ SetStatus("failed")
    /\ Goto(r, "done")
    /\ UNCHANGED <<cancelFunc, foundDevices, cancelled, localVars, workerVars>>

\* Phase 3: a batch of hosts is pinged in parallel and joined.
PingStart(r) ==
    /\ pc[r] = "ping"
    /\ todo[r] # {}
    /\ ~cancelled[r]
    /\ Goto(r, "pinging")
    /\ UNCHANGED <<serviceVars, cancelled, localVars, workerVars>>

PingBatch(r) ==
    /\ pc[r] = "pinging"
    /\ \E up \in SUBSET Batch(r) :
        LET before == NHosts - Cardinality(todo[r])
        IN  /\ online' = [online EXCEPT ![r] = @ \cup up]
            /\ updateProgress(15 + (before * 35) \div NHosts,
                              before + Cardinality(Batch(r)),
                              Cardinality(online'[r]))
    /\ todo' = [todo EXCEPT ![r] = @ \ Batch(r)]
    /\ Goto(r, "ping")
    /\ UNCHANGED <<scanInProgress, cancelFunc, foundDevices, cancelled, windows,
                   devices, current, workerVars>>

PingDone(r) ==
    /\ pc[r] = "ping"
    /\ todo[r] = {}
    /\ updateProgress(50, Cardinality(online[r]), 0)
    /\ todo' = [todo EXCEPT ![r] = online[r]]
    /\ Goto(r, "ports")
    /\ UNCHANGED <<scanInProgress, cancelFunc, foundDevices, cancelled, online,
                   windows, devices, current, workerVars>>

\* Phase 4: the context is tested, then a slot of the worker pool is awaited.
PortsNext(r) ==
    /\ pc[r] = "ports"
    /\ todo[r] # {}
    /\ ~cancelled[r]
    /\ Goto(r, "acquire")
    /\ UNCHANGED <<serviceVars, cancelled, localVars, workerVars>>

PortsSpawn(r) ==
    /\ pc[r] = "acquire"
    /\ Cardinality(Busy(r)) < MaxConcurrency(Cardinality(online[r]))
    /\ \E h \in todo[r] :
        /\ \A g \in todo[r] : h <= g
        /\ todo' = [todo EXCEPT ![r] = @ \ {h}]
        /\ checking' = [checking EXCEPT ![r] = @ \cup {h}]
    /\ Goto(r, "ports")
    /\ UNCHANGED <<serviceVars, cancelled, online, windows, devices, current,
                   processed, reporting>>

\* A worker learns whether SMB or RDP answers, records the host and counts it;
\* some workers go on to report progress, the others are finished.
CheckPorts(r, h) ==
    LET n == Cardinality(online[r])
        now == processed[r] + 1
        percent == 50 + (now * 20) \div n
    IN  /\ h \in checking[r]
        /\ checking' = [checking EXCEPT ![r] = @ \ {h}]
        /\ \/ windows' = [windows EXCEPT ![r] = @ \cup {h}]
           \/ UNCHANGED windows
        /\ processed' = [processed EXCEPT ![r] = now]
        /\ reporting' = IF now % ReportEvery = 0 \/ now = n
                        THEN [reporting EXCEPT ![r] = @ \cup {<<h, percent>>}]
                        ELSE reporting
        /\ UNCHANGED <<serviceVars, pc, cancelled, todo, online, devices, current>>

\* The progress report of a worker, in a critical section of its own.  The
\* worker may belong to a scan that has returned in the meantime.
WorkerReport(r, w) ==
    /\ w \in reporting[r]
    /\ updateProgress(w[2], Cardinality(online[r]), 0)
    /\ reporting' = [reporting EXCEPT ![r] = @ \ {w}]
    /\ UNCHANGED <<scanInProgress, cancelFunc, foundDevices, pc, cancelled,
                   localVars, processed, checking>>

\* A bug: phase 5 starts without waiting for the workers of phase 4.
PortsDone_NoWait(r) ==
    /\ pc[r] = "ports"
    /\ todo[r] = {}
    /\ updateProgress(70, Cardinality(online[r]), 0)
    /\ todo' = [todo EXCEPT ![r] = windows[r]]
    /\ Goto(r, "info")
    /\ UNCHANGED <<scanInProgress, cancelFunc, foundDevices, cancelled, online,
                   windows, devices, current, workerVars>>

\* wg.Wait() at the end of phase 4, then phase 5 starts.
PortsDone(r) ==
    /\ pc[r] = "ports"
    /\ todo[r] = {}
    /\ Busy(r) = {}
    /\ updateProgress(70, Cardinality(online[r]), 0)
    /\ todo' = [todo EXCEPT ![r] = windows[r]]
    /\ Goto(r, "info")
    /\ UNCHANGED <<scanInProgress, cancelFunc, foundDevices, cancelled, online,
                   windows, devices, current, workerVars>>

\* Phase 5: device information is requested host by host ...
InfoNext(r) ==
    /\ pc[r] = "info"
    /\ ~cancelled[r]
    /\ \E h \in todo[r] :
        /\ current' = [current EXCEPT ![r] = h]
        /\ todo' = [todo EXCEPT ![r] = @ \ {h}]
    /\ Goto(r, "fetch")
    /\ UNCHANGED <<serviceVars, cancelled, online, windows, devices, workerVars>>

\* ... a host that answers is stored in the live list ...
InfoStore(r) ==
    /\ pc[r] = "fetch"
    /\ \E s \in DeviceStatuses :
        LET d == [ip |-> current[r], status |-> s]
        IN  /\ foundDevices' = Upsert(foundDevices, d)
            /\ devices' = IF s = "eligible"
                          THEN [devices EXCEPT ![r] = Append(@, d)]
                          ELSE devices
    /\ Goto(r, "stored")
    /\ UNCHANGED <<scanInProgress, cancelFunc, currentProgress, cancelled, todo,
                   online, windows, current, workerVars>>

\* ... a host that does not answer is skipped ...
InfoMissing(r) ==
    /\ pc[r] = "fetch"
    /\ Goto(r, "stored")
    /\ UNCHANGED <<serviceVars, cancelled, localVars, workerVars>>

\* ... and progress is reported in another critical section.
InfoProgress(r) ==
    /\ pc[r] = "stored"
    /\ LET n == Cardinality(windows[r])
           i == (n - Cardinality(todo[r])) - 1
       IN  updateProgress(70 + (i * 25) \div n, Cardinality(online[r]), Len(devices[r]))
    /\ Goto(r, "info")
    /\ UNCHANGED <<scanInProgress, cancelFunc, foundDevices, cancelled, localVars,
                   workerVars>>

\* The last critical section merges the eligible devices and releases the service.
Complete(r) ==
    /\ pc[r] = "info"
    /\ todo[r] = {}
    /\ foundDevices' = Merge(foundDevices, devices[r])
    /\ scanInProgress' = FALSE
    /\ currentProgress' = Progress("completed", 100, currentProgress.scanned, Len(devices[r]))
    /\ Goto(r, "done")
    /\ UNCHANGED <<cancelFunc, cancelled, localVars, workerVars>>

\* handleStopDiscovery: StopScan cancels the context behind cancelFunc and
\* releases the service without waiting for any goroutine.
StopScan ==
    /\ cancelled' = [r \in Requests |-> cancelled[r] \/ r = cancelFunc]
    /\ scanInProgress' = FALSE
    /\ SetStatus("failed")
    /\ UNCHANGED <<cancelFunc, foundDevices, pc, localVars, workerVars>>

----------------------------------------------------------------------------
Handler(r) == StartCheck(r) \/ StartLaunch(r)

Goroutine(r) ==
    \/ Claim(r) \/ Refuse(r)
    \/ DetectRange(r) \/ GenerateRange(r) \/ RangeEmpty(r) \/ ReturnFailed(r)
    \/ RangeReady(r) \/ ReturnCancelled(r)
    \/ PingStart(r) \/ PingBatch(r) \/ PingDone(r)
    \/ PortsNext(r) \/ PortsSpawn(r) \/ PortsDone(r)
    \/ InfoNext(r) \/ InfoStore(r) \/ InfoMissing(r) \/ InfoProgress(r)
    \/ Complete(r)

Worker(r) ==
    \/ \E h \in Hosts : CheckPorts(r, h)
    \/ \E w \in reporting[r] : WorkerReport(r, w)

Next ==
    \/ \E r \in Requests : Handler(r) \/ Goroutine(r) \/ Worker(r)
    \/ StopScan

Spec == Init /\ [][Next]_vars

\* The Go scheduler runs every runnable goroutine, and ping, dial and the WMI
\* query all have timeouts (PingHost, CheckPort, GetWindowsDeviceInfo), so a
\* goroutine and a worker that can step eventually do.  Nothing obliges a
\* client to start or to stop a scan.
FairSpec ==
    /\ Spec
    /\ \A r \in Requests : WF_vars(Goroutine(r)) /\ WF_vars(Worker(r))

----------------------------------------------------------------------------
ControlTypeOK ==
    /\ scanInProgress \in BOOLEAN
    /\ cancelFunc \in Requests \cup {NoRequest}
    /\ pc \in [Requests -> PCs]
    /\ cancelled \in [Requests -> BOOLEAN]
    /\ todo \in [Requests -> SUBSET Hosts]
    /\ online \in [Requests -> SUBSET Hosts]
    /\ windows \in [Requests -> SUBSET Hosts]

\* Types of every variable of the service and of its goroutines.
TypeOK ==
    /\ ControlTypeOK
    /\ currentProgress \in ProgressRecord
    /\ foundDevices \in Seq(WindowsDevice)
    /\ devices \in [Requests -> Seq(WindowsDevice)]
    /\ current \in [Requests -> 0..NHosts]
    /\ processed \in [Requests -> Nat]
    /\ checking \in [Requests -> SUBSET Hosts]
    /\ reporting \in [Requests -> SUBSET (Hosts \X Nat)]

\* The service is never wedged: while scanInProgress refuses new scans there is
\* a goroutine inside DiscoverDevices that will release it, although
\* four return paths and StopScan write the flag.
FlagHasOwner == scanInProgress => \E r \in Requests : IsRunning(r)

\* As long as no client has stopped a scan, the test-and-set at the head of
\* DiscoverDevices keeps scans apart, even when several start requests
\* passed the handler's unprotected IsScanInProgress test together.
SingleScanUnlessStopped ==
    (\A r \in Requests : ~cancelled[r]) =>
        \A r, q \in Requests :
            IsRunning(r) => scanInProgress /\ (IsRunning(q) => q = r)

\* The flag tells the truth about the scans: someone will release it while it is
\* set, and no two scans run side by side unless one was stopped (StartScan,
\* StopScan and every way out of DiscoverDevices).
ScanControl == TypeOK /\ FlagHasOwner /\ SingleScanUnlessStopped

\* The live device list has one entry per address, whatever scans, stopped or
\* not, interleave their updates and the final merge.
FoundDevicesUnique ==
    \A j, k \in DOMAIN foundDevices :
        foundDevices[j].ip = foundDevices[k].ip => j = k

\* A completed scan's report is coherent: as long as no scan was stopped,
\* status "completed" comes with progress 100 and a TotalEligible equal to the
\* number of eligible devices the console is shown.
CompletedReportCoherent ==
    (/\ \A r \in Requests : ~cancelled[r]
     /\ currentProgress.status = "completed") =>
        /\ currentProgress.progress = 100
        /\ currentProgress.eligible =
            Cardinality({k \in DOMAIN foundDevices : foundDevices[k].status = "eligible"})

\* What the console is shown of scans is coherent (updateProgress, Upsert, the
\* final merge): one entry for an address, and figures that agree with the list.
ReportCoherent == FoundDevicesUnique /\ CompletedReportCoherent

\* Every scan that claimed the service returns, cancelled or not, and its
\* workers finish: no goroutine of a scan is leaked.
ScansReturn ==
    \A r \in Requests :
        IsRunning(r) ~> (pc[r] = "done" /\ Busy(r) = {})

\* What "SetCancelFunc sets the cancel function for the current scan" says: the
\* scan that owns the service is the one StopScan would cancel.
CancelFuncIsCurrentScan ==
    \A r \in Requests : scanInProgress /\ IsRunning(r) => cancelFunc = r

=============================================================================
