--------------------------- MODULE DeviceRegistry ---------------------------
(***************************************************************************)
(* The endpoint registry: backend/internal/api/devices.go, with the agents  *)
(* that enrol and send heartbeats (agent/usermode/core/DLPAgent.cpp,        *)
(* comms/HeartbeatManager.cpp and the PowerShell agents).                   *)
(*                                                                         *)
(* DeviceManager keeps every device twice: in memory, under dm.mu, and in   *)
(* the devices table.  An action is one critical section of dm.mu, the SQL  *)
(* statement it executes included, or one database transaction executed     *)
(* outside the lock.  Any database operation may fail.  Time is counted in  *)
(* periods of the status updater (30 s): a record carries the age of its    *)
(* LastSeen, and ages stop growing once every threshold is passed.          *)
(***************************************************************************)
EXTENDS Integers, FiniteSets

CONSTANTS
    Hosts,         \* hostnames; "" and "unknown" are rejected by the handlers
    ServerIds,     \* ids uuid.New() may return
    AgentIds,      \* ids the PowerShell agents make up for themselves
    Addrs,         \* IP addresses agents report ("0.0.0.0" is one of them)
    Handlers,      \* HTTP requests the backend serves at the same time
    None,          \* an absent record, id or request field
    WarnAfter,     \* HeartbeatWarningDuration
    ReclaimAfter,  \* IPReclaimWindow
    OfflineAfter,  \* HeartbeatOfflineDuration
    DbFails,       \* whether database operations may fail
    MaxAge         \* bound: an age that has reached it stops growing

Ids == ServerIds \cup AgentIds

ASSUME RegistryAssumption ==
    /\ WarnAfter \in Nat
    /\ ReclaimAfter \in Nat
    /\ OfflineAfter \in Nat
    /\ DbFails \in BOOLEAN
    /\ MaxAge \in Nat
    /\ MaxAge > WarnAfter /\ MaxAge > ReclaimAfter /\ MaxAge > OfflineAfter
    /\ ServerIds \cap AgentIds = {}
    /\ None \notin Ids \cup Addrs \cup Hosts

VARIABLES
    mem,      \* dm.devices
    db,       \* the devices table
    devId,    \* the device id each agent has persisted
    req,      \* the requests being served
    sync,     \* the computer a directory synchronisation is at, if one runs
    dbFailed  \* history: some database operation has failed

vars == <<mem, db, devId, req, sync, dbFailed>>

----------------------------------------------------------------------------
Ages == 0..MaxAge
Statuses == {"online", "warning", "offline"}
Device == [host : Hosts, ip : Addrs, status : Statuses, age : Ages]
Steps == {"update", "register", "retry", "persist", "enrol", "reply"}
Idle == [pc |-> "idle", host |-> None, ip |-> None, id |-> None, age |-> 0]
Request == {Idle} \cup [pc : Steps, host : Hosts, ip : Addrs, id : Ids \cup {None},
                        age : Ages]
SyncStep == [host : Hosts, exists : BOOLEAN]

\* None is no record: an absent row is told apart from a device.
ASSUME NoneAssumption == None \notin Device \cup SyncStep

Known(table) == {i \in Ids : table[i] # None}
ByHost(table, h) == {i \in Known(table) : table[i].host = h}

Reply(q, i) == [q EXCEPT !.pc = "reply", !.id = i]
Goto(r, step) == req' = [req EXCEPT ![r].pc = step]

\* Ids no record, agent or request mentions: uuid.New() returns a new one.
FreshIds ==
    {i \in ServerIds : /\ mem[i] = None /\ db[i] = None
                       /\ \A h \in Hosts : devId[h] # i
                       /\ \A r \in Handlers : req[r].id # i}

JustSeen(h, ip) == [host |-> h, ip |-> ip, status |-> "online", age |-> 0]
SeenAt(h, ip, age) == [JustSeen(h, ip) EXCEPT !.age = age]
Located(d, ip) == [d EXCEPT !.ip = ip, !.age = 0]
Active(d) == [d EXCEPT !.status = "online", !.age = 0]
Beat(d, ip, age) == [d EXCEPT !.ip = ip, !.status = "online", !.age = age]

\* UPDATE devices SET ... WHERE id = i touches a row only if there is one.
UpdateRow(i, d) == IF db[i] = None THEN db ELSE [db EXCEPT ![i] = d]

DbOk(table) == db' = table /\ UNCHANGED dbFailed
DbError == DbFails /\ UNCHANGED db /\ dbFailed' = TRUE
Exec(table) == DbOk(table) \/ DbError

----------------------------------------------------------------------------
\* A PowerShell agent brings an id of its own, the C++ agent starts with none.
Init ==
    /\ mem = [i \in Ids |-> None]
    /\ db = [i \in Ids |-> None]
    /\ devId \in [Hosts -> AgentIds \cup {None}]
    /\ \A g, h \in Hosts : devId[g] = devId[h] => g = h \/ devId[g] = None
    /\ req = [r \in Handlers |-> Idle]
    /\ sync = None
    /\ dbFailed = FALSE

\* Records silent for so long that their address may be reclaimed.
Stale(ip) ==
    {i \in Known(mem) : mem[i].ip = ip /\ mem[i].age > ReclaimAfter}

\* A bug: the hostname is not looked up first.
RegistrationTarget_IgnoreHost(h, ip) == IF Stale(ip) # {} THEN Stale(ip) ELSE FreshIds

\* The records RegisterDevice may settle on, in its order of preference: one
\* with the hostname, a silent one with the address, a new one.
RegistrationTarget(h, ip) ==
    IF ByHost(mem, h) # {} THEN ByHost(mem, h)
    ELSE IF Stale(ip) # {} THEN Stale(ip)
    ELSE FreshIds

\* A bug: a reclaimed record keeps its old hostname in the table.
RegisterDevice_KeepsOldName(h, ip, i) ==
    /\ i \in RegistrationTarget(h, ip)
    /\ mem' = [mem EXCEPT ![i] = JustSeen(h, ip)]
    /\ Exec(IF mem[i] = None THEN [db EXCEPT ![i] = JustSeen(h, ip)]
            ELSE IF db[i] = None THEN db
            ELSE [db EXCEPT ![i] = Beat(@, ip, 0)])

\* RegisterDevice: a database error is logged and otherwise ignored.
RegisterDevice(h, ip, i) ==
    /\ i \in RegistrationTarget(h, ip)
    /\ mem' = [mem EXCEPT ![i] = JustSeen(h, ip)]
    /\ Exec(IF mem[i] = None THEN [db EXCEPT ![i] = JustSeen(h, ip)]
            ELSE UpdateRow(i, JustSeen(h, ip)))

\* The record UpdateHeartbeat settles on: by id, otherwise by hostname.
HeartbeatTarget(id, h) ==
    IF id # None /\ mem[id] # None THEN {id} ELSE ByHost(mem, h)

\* HandleDeviceRegistration: the agent enrols if it holds no id ...
EnrolArrives(r, h, ip) ==
    /\ req[r].pc = "idle"
    /\ devId[h] \notin ServerIds
    /\ req' = [req EXCEPT ![r] = [pc |-> "enrol", host |-> h, ip |-> ip,
                                  id |-> None, age |-> 0]]
    /\ UNCHANGED <<mem, db, devId, sync, dbFailed>>

Enrol(r) ==
    /\ req[r].pc = "enrol"
    /\ \E i \in Ids :
        /\ RegisterDevice(req[r].host, req[r].ip, i)
        /\ req' = [req EXCEPT ![r] = Reply(@, i)]
    /\ UNCHANGED <<devId, sync>>

\* ... and persists the id of the answer, if the answer arrives.
Enrolled(r) ==
    /\ req[r].pc = "reply"
    /\ devId' = IF devId[req[r].host] \in AgentIds THEN devId
                ELSE [devId EXCEPT ![req[r].host] = req[r].id]
    /\ req' = [req EXCEPT ![r] = Idle]
    /\ UNCHANGED <<mem, db, sync, dbFailed>>

ReplyLost(r) ==
    /\ req[r].pc = "reply"
    /\ req' = [req EXCEPT ![r] = Idle]
    /\ UNCHANGED <<mem, db, devId, sync, dbFailed>>

\* HandleDeviceHeartbeat, called with the agent's id, hostname and address.
HeartbeatArrives(r, h, ip) ==
    /\ req[r].pc = "idle"
    /\ req' = [req EXCEPT ![r] = [pc |-> "update", host |-> h, ip |-> ip,
                                  id |-> devId[h], age |-> 0]]
    /\ UNCHANGED <<mem, db, devId, sync, dbFailed>>

\* UpdateHeartbeat returns an error when the device is not found or the
\* database fails; the first error leads to a registration and a second try,
\* the second one is ignored.  The time the transaction will store is taken
\* when the last of these calls returns: a request ages in "persist" only.
UpdateHeartbeat(r) ==
    LET found == HeartbeatTarget(req[r].id, req[r].host)
        onError == IF req[r].pc = "update" THEN "register" ELSE "persist"
    IN  /\ req[r].pc \in {"update", "retry"}
        /\ \/ /\ found = {}
              /\ Goto(r, onError)
              /\ UNCHANGED <<mem, db, dbFailed>>
           \/ \E i \in found :
                /\ mem' = [mem EXCEPT ![i] = Beat(@, req[r].ip, 0)]
                /\ \/ /\ DbOk(UpdateRow(i, Beat(db[i], req[r].ip, 0)))
                      /\ Goto(r, "persist")
                   \/ /\ DbError
                      /\ Goto(r, onError)
        /\ UNCHANGED <<devId, sync>>

HeartbeatRegister(r) ==
    /\ req[r].pc = "register"
    /\ \E i \in Ids : RegisterDevice(req[r].host, req[r].ip, i)
    /\ Goto(r, "retry")
    /\ UNCHANGED <<devId, sync>>

\* The transaction at the end of the handler, outside dm.mu: update by id,
\* otherwise by hostname, otherwise insert.  It commits or rolls back.
PersistHeartbeat(r) ==
    LET q == req[r]
        rows == IF q.id # None /\ db[q.id] # None THEN {q.id} ELSE ByHost(db, q.host)
        touched == [i \in Ids |-> IF i \in rows THEN Beat(db[i], q.ip, q.age) ELSE db[i]]
    IN  /\ q.pc = "persist"
        /\ \/ rows # {} /\ Exec(touched)
           \/ /\ rows = {}
              /\ \E i \in IF q.id # None THEN {q.id} ELSE FreshIds :
                    Exec([db EXCEPT ![i] = SeenAt(q.host, q.ip, q.age)])
        /\ req' = [req EXCEPT ![r] = Idle]
        /\ UNCHANGED <<mem, devId, sync>>

\* performADSync goes through the computers of the directory and writes the
\* table directly, neither locking dm.mu nor touching memory: it looks for the
\* hostname (a failed query reads as "not there") ...
SyncLookup(h) ==
    /\ sync = None
    /\ \/ /\ sync' = [host |-> h, exists |-> ByHost(db, h) # {}]
          /\ UNCHANGED dbFailed
       \/ /\ DbFails
          /\ sync' = [host |-> h, exists |-> FALSE]
          /\ dbFailed' = TRUE
    /\ UNCHANGED <<mem, db, devId, req>>

\* ... and in a second statement updates its rows.  The INSERT for a computer
\* that was not there gives no registered_at, which createDevicesTable declares
\* NOT NULL: it is rejected, logged and adds no row.
SyncWrite(ip) ==
    /\ sync # None
    /\ \/ /\ sync.exists
          /\ Exec([i \in Ids |-> IF i \in ByHost(db, sync.host)
                                THEN Located(db[i], ip) ELSE db[i]])
       \/ ~sync.exists /\ UNCHANGED <<db, dbFailed>>
    /\ sync' = None
    /\ UNCHANGED <<mem, devId, req>>

\* ReceiveEventBatch refreshes the row of the sending device, not its record.
EventBatch(i) ==
    /\ db[i] # None
    /\ Exec([db EXCEPT ![i] = Active(@)])
    /\ UNCHANGED <<mem, devId, req, sync>>

----------------------------------------------------------------------------
\* A bug: a device that is in warning never becomes offline.
StatusOf_StopsAtWarning(d) ==
    IF d.status = "online"
    THEN IF d.age > WarnAfter THEN "warning" ELSE "online"
    ELSE d.status

\* A bug: a status the table and the console do not know.
StatusOf_Stale(d) ==
    IF d.age > OfflineAfter THEN "stale"
    ELSE IF d.age > WarnAfter /\ d.status = "online" THEN "warning"
    ELSE d.status

\* The status statusUpdater gives a record.
StatusOf(d) ==
    IF d.age > OfflineAfter THEN "offline"
    ELSE IF d.age > WarnAfter /\ d.status = "online" THEN "warning"
    ELSE d.status

\* One pass of statusUpdater.  Each record whose status changes costs an
\* UPDATE of its own, and any of them may fail.
StatusUpdater ==
    LET changed == {i \in Known(mem) : StatusOf(mem[i]) # mem[i].status}
    IN  /\ mem' = [i \in Ids |-> IF i \in changed
                                 THEN [mem[i] EXCEPT !.status = StatusOf(mem[i])]
                                 ELSE mem[i]]
        /\ \E written \in SUBSET changed :
            /\ db' = [i \in Ids |-> IF i \in written /\ db[i] # None
                                    THEN [db[i] EXCEPT !.status = StatusOf(mem[i])]
                                    ELSE db[i]]
            /\ written # changed => DbFails
            /\ dbFailed' = (dbFailed \/ written # changed)
        /\ UNCHANGED <<devId, req, sync>>

\* HandleDeleteAllDevices empties the map, then the table.
DeleteAllDevices ==
    /\ mem' = [i \in Ids |-> None]
    /\ Exec([i \in Ids |-> None])
    /\ UNCHANGED <<devId, req, sync>>

\* A bug: a restart starts from an empty map.
Restart_NoLoad ==
    /\ mem' = [i \in Ids |-> None]
    /\ req' = [r \in Handlers |-> Idle]
    /\ sync' = None
    /\ UNCHANGED <<db, devId, dbFailed>>

\* The backend stops at any point and is started again: requests in flight are
\* lost and loadDevicesFromDB fills the map.  A query that fails, at once or on
\* the way, leaves it with the rows read so far.
Restart ==
    /\ \E loaded \in SUBSET Ids :
        /\ mem' = [i \in Ids |-> IF i \in loaded THEN db[i] ELSE None]
        /\ Known(db) \subseteq loaded \/ DbFails
        /\ dbFailed' = (dbFailed \/ ~(Known(db) \subseteq loaded))
    /\ req' = [r \in Handlers |-> Idle]
    /\ sync' = None
    /\ UNCHANGED <<db, devId>>

Older(age) == IF age < MaxAge THEN age + 1 ELSE age

Tick ==
    /\ mem' = [i \in Ids |-> IF mem[i] = None THEN None
                             ELSE [mem[i] EXCEPT !.age = Older(@)]]
    /\ db' = [i \in Ids |-> IF db[i] = None THEN None
                            ELSE [db[i] EXCEPT !.age = Older(@)]]
    /\ req' = [r \in Handlers |-> IF req[r].pc = "persist"
                                  THEN [req[r] EXCEPT !.age = Older(@)] ELSE req[r]]
    /\ UNCHANGED <<devId, sync, dbFailed>>

Serve(r) ==
    \/ Enrol(r) \/ Enrolled(r) \/ ReplyLost(r)
    \/ UpdateHeartbeat(r) \/ HeartbeatRegister(r) \/ PersistHeartbeat(r)

Next ==
    \/ \E r \in Handlers, h \in Hosts, ip \in Addrs :
        EnrolArrives(r, h, ip) \/ HeartbeatArrives(r, h, ip)
    \/ \E r \in Handlers : Serve(r)
    \/ \E h \in Hosts : SyncLookup(h)
    \/ \E ip \in Addrs : SyncWrite(ip)
    \/ \E i \in Ids : EventBatch(i)
    \/ StatusUpdater \/ DeleteAllDevices \/ Restart \/ Tick

Spec == Init /\ [][Next]_vars

\* Time passes and the updater's ticker fires.  Agents owe nothing.
FairSpec == Spec /\ WF_vars(Tick) /\ WF_vars(StatusUpdater)

----------------------------------------------------------------------------
\* Types of the registry, the table and the requests.
TypeOK ==
    /\ mem \in [Ids -> Device \cup {None}]
    /\ db \in [Ids -> Device \cup {None}]
    /\ devId \in [Hosts -> Ids \cup {None}]
    /\ req \in [Handlers -> Request]
    /\ sync \in SyncStep \cup {None}
    /\ dbFailed \in BOOLEAN

\* Unless a database operation failed, every device in memory has a row, under
\* the same hostname: a restart at any point, in the middle of a heartbeat or
\* after a reclaimed address or a deletion, forgets and renames no device.
RegistryIsDurable ==
    ~dbFailed => \A i \in Ids :
        mem[i] # None => db[i] # None /\ db[i].host = mem[i].host

\* Devices never vanish: only DeleteAllDevices, or a restart after a database
\* failure, removes a record from memory.
DevicesNeverVanish ==
    [][\/ DeleteAllDevices
       \/ dbFailed'
       \/ \A i \in Ids : mem[i] # None => mem'[i] # None]_vars

\* However registrations, heartbeats, synchronisations and reclaimed addresses
\* interleave, only a reload from the table gives two records one hostname.
HostnamesUnique == \A h \in Hosts : \A i, j \in ByHost(mem, h) : i = j
NoNewDuplicates == [][HostnamesUnique => HostnamesUnique' \/ Restart]_vars

\* Unless the backend restarts over and over, a device that stays silent is
\* reported offline: again and again it is offline, gone or just seen, however
\* late transactions, synchronisations and event batches rewrite its row.
SilentBecomesOffline ==
    <>[][~Restart]_vars =>
        \A i \in Ids : []<>(mem[i] = None \/ mem[i].status = "offline" \/ mem[i].age = 0)

\* What "The agent heartbeats every 30 seconds so endpoint status stays
\* current" says: a heartbeat whose device is found shows the endpoint that
\* sent it online.
HeartbeatKeepsStatusCurrent ==
    [][\A r \in Handlers :
        UpdateHeartbeat(r) /\ HeartbeatTarget(req[r].id, req[r].host) # {} =>
            \E i \in ByHost(mem', req[r].host) : mem'[i].status = "online"]_vars

=============================================================================
