------------------------ MODULE DeviceRegistryProofs ------------------------
(***************************************************************************)
(* Proofs about the endpoint registry, for any number of hosts, ids,        *)
(* addresses and concurrent requests, and with a database that may fail.    *)
(***************************************************************************)
EXTENDS DeviceRegistry, TLAPS

Table == [Ids -> Device \cup {None}]

\* A record that was just seen is a device.
LEMMA JustSeenType ==
    ASSUME NEW h \in Hosts, NEW ip \in Addrs
    PROVE  /\ JustSeen(h, ip) \in Device
           /\ JustSeen(h, ip).host = h
  BY RegistryAssumption DEF JustSeen, Device, Statuses, Ages

\* A heartbeat keeps the hostname of the record it refreshes.
LEMMA BeatType ==
    ASSUME NEW d \in Device, NEW ip \in Addrs, NEW age \in Ages
    PROVE  /\ Beat(d, ip, age) \in Device
           /\ Beat(d, ip, age).host = d.host
  BY DEF Beat, Device, Statuses

\* A database operation leaves the table as it is or installs the new one.
LEMMA ExecType ==
    ASSUME NEW t, Exec(t)
    PROVE  \/ db' = t /\ dbFailed' = dbFailed
           \/ db' = db /\ dbFailed' = TRUE
  BY DEF Exec, DbOk, DbError

\* None is neither a device, nor an id, nor a step of a synchronisation.
LEMMA NoneApart == None \notin Device /\ None \notin Ids /\ None \notin SyncStep
  BY NoneAssumption, RegistryAssumption

\* RegisterDevice keeps both copies of the registry well typed.
LEMMA RegisterType ==
    ASSUME TypeOK, NEW h \in Hosts, NEW ip \in Addrs, NEW i \in Ids,
           RegisterDevice(h, ip, i)
    PROVE  mem' \in Table /\ db' \in Table /\ dbFailed' \in BOOLEAN
<1> DEFINE d == JustSeen(h, ip)
<1>1. d \in Device
  BY JustSeenType
<1> HIDE DEF d
<1>2. mem' = [mem EXCEPT ![i] = d]
  BY DEF RegisterDevice, d
<1>3. mem' \in Table
  BY <1>1, <1>2 DEF TypeOK, Table
<1>4. PICK t : Exec(t) /\ t \in Table
  <2>1. UpdateRow(i, d) \in Table
    BY <1>1 DEF UpdateRow, TypeOK, Table
  <2>2. [db EXCEPT ![i] = d] \in Table
    BY <1>1 DEF TypeOK, Table
  <2>3. Exec(IF mem[i] = None THEN [db EXCEPT ![i] = d] ELSE UpdateRow(i, d))
    BY DEF RegisterDevice, d
  <2> QED
    BY <2>1, <2>2, <2>3
<1>5. db' \in Table /\ dbFailed' \in BOOLEAN
  BY <1>4, ExecType DEF TypeOK, Table
<1> QED
  BY <1>3, <1>5

\* What a request past "idle" carries.
LEMMA RequestFields ==
    ASSUME TypeOK, NEW r \in Handlers, req[r].pc # "idle"
    PROVE  /\ req[r] \in [pc : Steps, host : Hosts, ip : Addrs, id : Ids \cup {None},
                          age : Ages]
           /\ req[r].host \in Hosts /\ req[r].ip \in Addrs
           /\ req[r].id \in Ids \cup {None} /\ req[r].age \in Ages
  BY DEF TypeOK, Request, Idle

\* Every action keeps the types.
LEMMA TypeInductive == TypeOK /\ [Next]_vars => TypeOK'
<1> SUFFICES ASSUME TypeOK, [Next]_vars PROVE TypeOK'
  OBVIOUS
<1> USE NoneApart
<1>z. 0 \in Ages /\ \A a \in Ages : Older(a) \in Ages
  BY RegistryAssumption DEF Ages, Older
<1>i. Idle \in Request
  BY DEF Request
<1>1. ASSUME NEW r \in Handlers, NEW h \in Hosts, NEW ip \in Addrs,
             EnrolArrives(r, h, ip)
      PROVE  TypeOK'
  BY <1>1, <1>z DEF EnrolArrives, TypeOK, Request, Steps
<1>2. ASSUME NEW r \in Handlers, NEW h \in Hosts, NEW ip \in Addrs,
             HeartbeatArrives(r, h, ip)
      PROVE  TypeOK'
  BY <1>2, <1>z DEF HeartbeatArrives, TypeOK, Request, Steps
<1>3. ASSUME NEW r \in Handlers, Enrol(r) PROVE TypeOK'
  <2>1. PICK i \in Ids : /\ RegisterDevice(req[r].host, req[r].ip, i)
                         /\ req' = [req EXCEPT ![r] = Reply(@, i)]
    BY <1>3 DEF Enrol
  <2>2. req[r].pc # "idle"
    BY <1>3 DEF Enrol
  <2>3. mem' \in Table /\ db' \in Table /\ dbFailed' \in BOOLEAN
    BY <2>1, <2>2, RequestFields, RegisterType
  <2>4. Reply(req[r], i) \in Request
    BY <2>2, RequestFields DEF Reply, Request, Steps
  <2>5. req' \in [Handlers -> Request]
    BY <2>1, <2>4 DEF TypeOK
  <2> QED
    BY <1>3, <2>3, <2>5 DEF Enrol, TypeOK, Table
<1>4. ASSUME NEW r \in Handlers, Enrolled(r) PROVE TypeOK'
  <2>1. req[r].host \in Hosts /\ req[r].id \in Ids \cup {None}
    BY <1>4, RequestFields DEF Enrolled
  <2> QED
    BY <1>4, <1>i, <2>1 DEF Enrolled, TypeOK
<1>5. ASSUME NEW r \in Handlers, ReplyLost(r) PROVE TypeOK'
  BY <1>5, <1>i DEF ReplyLost, TypeOK
<1>6. ASSUME NEW r \in Handlers, UpdateHeartbeat(r) PROVE TypeOK'
  <2> DEFINE onError == IF req[r].pc = "update" THEN "register" ELSE "persist"
  <2>1. req[r].pc # "idle"
    BY <1>6 DEF UpdateHeartbeat
  <2>2. ASSUME NEW step \in Steps, Goto(r, step) PROVE req' \in [Handlers -> Request]
    <3>1. [req[r] EXCEPT !.pc = step] \in Request
      BY <2>1, RequestFields DEF Request
    <3> QED
      BY <2>2, <3>1 DEF TypeOK, Goto
  <2>3. onError \in Steps /\ "persist" \in Steps
    BY DEF Steps
  <2>4. CASE UNCHANGED <<mem, db, dbFailed>> /\ Goto(r, onError)
    BY <1>6, <2>2, <2>3, <2>4 DEF UpdateHeartbeat, TypeOK
  <2>5. ASSUME NEW i \in HeartbeatTarget(req[r].id, req[r].host),
               mem' = [mem EXCEPT ![i] = Beat(@, req[r].ip, 0)],
               \/ /\ DbOk(UpdateRow(i, Beat(db[i], req[r].ip, 0)))
                  /\ Goto(r, "persist")
               \/ /\ DbError
                  /\ Goto(r, onError)
        PROVE  TypeOK'
    <3>1. i \in Ids /\ mem[i] \in Device
      BY <2>1, RequestFields DEF HeartbeatTarget, ByHost, Known, TypeOK
    <3>2. mem' \in Table
      BY <3>1, <2>1, <2>5, <1>z, RequestFields, BeatType DEF TypeOK, Table
    <3>3. UpdateRow(i, Beat(db[i], req[r].ip, 0)) \in Table
      BY <3>1, <2>1, <1>z, RequestFields, BeatType DEF UpdateRow, TypeOK, Table
    <3>4. req' \in [Handlers -> Request]
      BY <2>2, <2>3, <2>5
    <3>5. db' \in Table /\ dbFailed' \in BOOLEAN
      BY <2>5, <3>3 DEF DbOk, DbError, TypeOK, Table
    <3> QED
      BY <1>6, <3>2, <3>4, <3>5 DEF UpdateHeartbeat, TypeOK, Table
  <2> QED
    BY <1>6, <2>4, <2>5 DEF UpdateHeartbeat
<1>7. ASSUME NEW r \in Handlers, HeartbeatRegister(r) PROVE TypeOK'
  <2>1. PICK i \in Ids : RegisterDevice(req[r].host, req[r].ip, i)
    BY <1>7 DEF HeartbeatRegister
  <2>2. req[r].pc # "idle"
    BY <1>7 DEF HeartbeatRegister
  <2>3. mem' \in Table /\ db' \in Table /\ dbFailed' \in BOOLEAN
    BY <2>1, <2>2, RequestFields, RegisterType
  <2>4. [req[r] EXCEPT !.pc = "retry"] \in Request
    BY <2>2, RequestFields DEF Request, Steps
  <2>5. req' \in [Handlers -> Request]
    BY <1>7, <2>4 DEF HeartbeatRegister, Goto, TypeOK
  <2> QED
    BY <1>7, <2>3, <2>5 DEF HeartbeatRegister, TypeOK, Table
<1>8. ASSUME NEW r \in Handlers, PersistHeartbeat(r) PROVE TypeOK'
  <2> DEFINE q == req[r]
             rows == IF q.id # None /\ db[q.id] # None THEN {q.id} ELSE ByHost(db, q.host)
             touched == [i \in Ids |-> IF i \in rows THEN Beat(db[i], q.ip, q.age) ELSE db[i]]
             inserted(i) == [db EXCEPT ![i] = SeenAt(q.host, q.ip, q.age)]
  <2>1. q.pc # "idle"
    BY <1>8 DEF PersistHeartbeat
  <2>2. q.host \in Hosts /\ q.ip \in Addrs /\ q.id \in Ids \cup {None} /\ q.age \in Ages
    BY <2>1, RequestFields
  <2>3. touched \in Table
    <3>1. \A i \in rows : i \in Ids /\ db[i] \in Device
      BY <2>2 DEF ByHost, Known, TypeOK
    <3>2. \A i \in Ids : touched[i] \in Device \cup {None}
      BY <2>2, <3>1, BeatType DEF TypeOK
    <3> QED
      BY <3>2 DEF Table
  <2>4. \A i \in Ids : inserted(i) \in Table
    <3>1. SeenAt(q.host, q.ip, q.age) \in Device
      BY <2>2, JustSeenType DEF SeenAt, Device
    <3> QED
      BY <3>1 DEF TypeOK, Table
  <2>5. \A i \in (IF q.id # None THEN {q.id} ELSE FreshIds) : i \in Ids
    BY <2>2 DEF FreshIds, Ids
  <2>6. Exec(touched) \/ \E i \in Ids : Exec(inserted(i))
    BY <1>8, <2>5 DEF PersistHeartbeat
  <2>7. db' \in Table /\ dbFailed' \in BOOLEAN
    <3> HIDE DEF touched, inserted
    <3>1. PICK t \in Table : Exec(t)
      BY <2>3, <2>4, <2>6
    <3> QED
      BY <3>1, ExecType DEF TypeOK, Table
  <2> QED
    BY <1>8, <1>i, <2>7 DEF PersistHeartbeat, TypeOK, Table
<1>9. ASSUME NEW h \in Hosts, SyncLookup(h) PROVE TypeOK'
  <2>1. sync' \in SyncStep
    <3>1. (ByHost(db, h) # {}) \in BOOLEAN /\ FALSE \in BOOLEAN
      OBVIOUS
    <3>2. PICK e \in BOOLEAN : sync' = [host |-> h, exists |-> e]
      BY <1>9, <3>1, Zenon DEF SyncLookup
    <3> QED
      BY <3>2 DEF SyncStep
  <2>2. dbFailed' \in BOOLEAN
    BY <1>9, Zenon DEF SyncLookup, TypeOK
  <2> QED
    BY <1>9, <2>1, <2>2 DEF SyncLookup, TypeOK
<1>10. ASSUME NEW ip \in Addrs, SyncWrite(ip) PROVE TypeOK'
  <2> DEFINE touched == [i \in Ids |-> IF i \in ByHost(db, sync.host)
                                       THEN Located(db[i], ip) ELSE db[i]]
  <2>2. touched \in Table
    <3>1. ASSUME NEW d \in Device PROVE Located(d, ip) \in Device
      BY <1>z DEF Located, Device
    <3>2. \A i \in Ids : touched[i] \in Device \cup {None}
      BY <3>1 DEF TypeOK, ByHost, Known
    <3> QED
      BY <3>2 DEF Table
  <2>4. Exec(touched) \/ UNCHANGED <<db, dbFailed>>
    BY <1>10 DEF SyncWrite
  <2>5. db' \in Table /\ dbFailed' \in BOOLEAN
    <3> HIDE DEF touched
    <3> QED
      BY <2>2, <2>4, ExecType DEF TypeOK, Table
  <2> QED
    BY <1>10, <2>5 DEF SyncWrite, TypeOK, Table
<1>11. ASSUME NEW i \in Ids, EventBatch(i) PROVE TypeOK'
  <2>1. Active(db[i]) \in Device
    BY <1>11, <1>z DEF EventBatch, Active, TypeOK, Device, Statuses
  <2>2. [db EXCEPT ![i] = Active(@)] \in Table
    BY <2>1 DEF TypeOK, Table
  <2>3. db' \in Table /\ dbFailed' \in BOOLEAN
    BY <1>11, <2>2, ExecType DEF EventBatch, TypeOK, Table
  <2> QED
    BY <1>11, <2>3 DEF EventBatch, TypeOK, Table
<1>12. ASSUME StatusUpdater PROVE TypeOK'
  <2>1. ASSUME NEW d \in Device, NEW e \in Device
        PROVE  [d EXCEPT !.status = StatusOf(e)] \in Device
    BY DEF StatusOf, Device, Statuses
  <2>2. mem' \in Table
    BY <1>12, <2>1 DEF StatusUpdater, Known, TypeOK, Table
  <2>3. db' \in Table /\ dbFailed' \in BOOLEAN
    BY <1>12, <2>1 DEF StatusUpdater, Known, TypeOK, Table
  <2> QED
    BY <1>12, <2>2, <2>3 DEF StatusUpdater, TypeOK, Table
<1>13. ASSUME DeleteAllDevices PROVE TypeOK'
  <2>1. [i \in Ids |-> None] \in Table
    BY DEF Table
  <2>2. db' \in Table /\ dbFailed' \in BOOLEAN
    BY <1>13, <2>1, ExecType DEF DeleteAllDevices, TypeOK, Table
  <2> QED
    BY <1>13, <2>1, <2>2 DEF DeleteAllDevices, TypeOK, Table
<1>14. ASSUME Restart PROVE TypeOK'
  BY <1>14, <1>i DEF Restart, TypeOK
<1>15. ASSUME Tick PROVE TypeOK'
  <2>1. ASSUME NEW d \in Device PROVE [d EXCEPT !.age = Older(@)] \in Device
    BY <1>z DEF Device
  <2>2. mem' \in Table /\ db' \in Table
    BY <1>15, <2>1 DEF Tick, TypeOK, Table
  <2>3. ASSUME NEW r \in Handlers, req[r].pc = "persist"
        PROVE  [req[r] EXCEPT !.age = Older(@)] \in Request
    BY <2>3, <1>z, RequestFields DEF Request
  <2>4. req' \in [Handlers -> Request]
    BY <1>15, <2>3 DEF Tick, TypeOK
  <2> QED
    BY <1>15, <2>2, <2>4 DEF Tick, TypeOK, Table
<1>16. CASE UNCHANGED vars
  BY <1>16 DEF vars, TypeOK
<1> QED
  BY <1>1, <1>2, <1>3, <1>4, <1>5, <1>6, <1>7, <1>8, <1>9, <1>10, <1>11, <1>12,
     <1>13, <1>14, <1>15, <1>16 DEF Next, Serve

\* The registry and its requests always have their types.
THEOREM TypeCorrect == Spec => []TypeOK
<1>1. Init => TypeOK
  <2> SUFFICES ASSUME Init PROVE TypeOK
    OBVIOUS
  <2>1. AgentIds \subseteq Ids /\ Idle \in Request
    BY DEF Ids, Request
  <2>2. devId \in [Hosts -> Ids \cup {None}]
    BY <2>1 DEF Init
  <2> QED
    BY <2>1, <2>2 DEF Init, TypeOK
<1> QED
  BY <1>1, TypeInductive, PTL DEF Spec

----------------------------------------------------------------------------
\* Durability survives a step that leaves memory alone and no row behind.
LEMMA RowsKept ==
    ASSUME RegistryIsDurable, mem' = mem,
           \/ dbFailed'
           \/ /\ dbFailed' = dbFailed
              /\ \A i \in Ids : db[i] # None => db'[i] # None /\ db'[i].host = db[i].host
    PROVE  RegistryIsDurable'
  BY DEF RegistryIsDurable

\* RegisterDevice writes the row of the record it settles on.
LEMMA RegisterDurable ==
    ASSUME TypeOK, RegistryIsDurable, NEW h \in Hosts, NEW ip \in Addrs, NEW i \in Ids,
           RegisterDevice(h, ip, i)
    PROVE  RegistryIsDurable'
<1> DEFINE d == JustSeen(h, ip)
<1>1. d \in Device /\ d # None
  BY JustSeenType, NoneApart
<1> HIDE DEF d
<1>2. mem' = [mem EXCEPT ![i] = d]
  BY DEF RegisterDevice, d
<1>3. Exec(IF mem[i] = None THEN [db EXCEPT ![i] = d] ELSE UpdateRow(i, d))
  BY DEF RegisterDevice, d
<1>4. CASE dbFailed'
  BY <1>4 DEF RegistryIsDurable
<1>5. CASE ~dbFailed'
  <2>1. ~dbFailed /\ db' = IF mem[i] = None THEN [db EXCEPT ![i] = d] ELSE UpdateRow(i, d)
    BY <1>3, <1>5 DEF Exec, DbOk, DbError
  <2>2. db' = [db EXCEPT ![i] = d]
    BY <2>1 DEF RegistryIsDurable, UpdateRow
  <2> QED
    BY <1>1, <1>2, <2>1, <2>2 DEF RegistryIsDurable, TypeOK
<1> QED
  BY <1>4, <1>5

\* Every action keeps the registry durable.
LEMMA DurableInductive == TypeOK /\ RegistryIsDurable /\ [Next]_vars => RegistryIsDurable'
<1> SUFFICES ASSUME TypeOK, RegistryIsDurable, [Next]_vars PROVE RegistryIsDurable'
  OBVIOUS
<1> USE NoneApart
<1>z. 0 \in Ages
  BY RegistryAssumption DEF Ages
<1>1. ASSUME mem' = mem, db' = db, dbFailed' = dbFailed PROVE RegistryIsDurable'
  BY <1>1 DEF RegistryIsDurable
<1>2. ASSUME NEW r \in Handlers, Enrol(r) \/ HeartbeatRegister(r)
      PROVE  RegistryIsDurable'
  <2>1. PICK i \in Ids : RegisterDevice(req[r].host, req[r].ip, i)
    BY <1>2 DEF Enrol, HeartbeatRegister
  <2>2. req[r].pc # "idle"
    BY <1>2 DEF Enrol, HeartbeatRegister
  <2> QED
    BY <2>1, <2>2, RequestFields, RegisterDurable
<1>3. ASSUME NEW r \in Handlers, UpdateHeartbeat(r) PROVE RegistryIsDurable'
  <2>1. req[r].pc # "idle"
    BY <1>3 DEF UpdateHeartbeat
  <2>2. ASSUME NEW i \in HeartbeatTarget(req[r].id, req[r].host),
               mem' = [mem EXCEPT ![i] = Beat(@, req[r].ip, 0)],
               DbOk(UpdateRow(i, Beat(db[i], req[r].ip, 0))) \/ DbError
        PROVE  RegistryIsDurable'
    <3>1. i \in Ids /\ mem[i] \in Device
      BY <2>1, RequestFields DEF HeartbeatTarget, ByHost, Known, TypeOK
    <3>2. req[r].ip \in Addrs /\ 0 \in Ages
      BY <2>1, RequestFields, RegistryAssumption DEF Ages
    <3>3. mem'[i].host = mem[i].host /\ \A j \in Ids \ {i} : mem'[j] = mem[j]
      BY <2>2, <3>1, <3>2, BeatType DEF TypeOK
    <3>4. CASE dbFailed'
      BY <3>4 DEF RegistryIsDurable
    <3>5. CASE ~dbFailed'
      <4>1. ~dbFailed /\ db' = UpdateRow(i, Beat(db[i], req[r].ip, 0))
        BY <2>2, <3>5 DEF DbOk, DbError
      <4>2. db[i] \in Device /\ db[i].host = mem[i].host
        BY <3>1, <4>1 DEF RegistryIsDurable, TypeOK
      <4>3. db' = [db EXCEPT ![i] = Beat(db[i], req[r].ip, 0)]
        BY <4>1, <4>2 DEF UpdateRow
      <4>4. db'[i] # None /\ db'[i].host = mem[i].host /\ \A j \in Ids \ {i} : db'[j] = db[j]
        BY <3>1, <3>2, <4>2, <4>3, BeatType DEF TypeOK
      <4> QED
        BY <3>3, <4>1, <4>4 DEF RegistryIsDurable
    <3> QED
      BY <3>4, <3>5
  <2>3. CASE UNCHANGED <<mem, db, dbFailed>>
    BY <2>3, <1>1
  <2> QED
    BY <1>3, <2>2, <2>3 DEF UpdateHeartbeat
<1>4. ASSUME NEW r \in Handlers, PersistHeartbeat(r) PROVE RegistryIsDurable'
  <2> DEFINE q == req[r]
             rows == IF q.id # None /\ db[q.id] # None THEN {q.id} ELSE ByHost(db, q.host)
             touched == [i \in Ids |-> IF i \in rows THEN Beat(db[i], q.ip, q.age) ELSE db[i]]
             inserted(i) == [db EXCEPT ![i] = SeenAt(q.host, q.ip, q.age)]
  <2>1. q.pc # "idle"
    BY <1>4 DEF PersistHeartbeat
  <2>2. q.host \in Hosts /\ q.ip \in Addrs /\ q.id \in Ids \cup {None} /\ q.age \in Ages
    BY <2>1, RequestFields
  <2>3. \A i \in Ids : db[i] # None => touched[i] # None /\ touched[i].host = db[i].host
    <3>1. \A i \in Ids : db[i] # None => db[i] \in Device
      BY DEF TypeOK
    <3> QED
      BY <2>2, <3>1, BeatType
  <2>4. ASSUME NEW i \in Ids, db[i] = None
        PROVE  \A j \in Ids : db[j] # None => inserted(i)[j] = db[j]
    BY <2>4 DEF TypeOK
  <2>5. ASSUME rows = {}, NEW i \in IF q.id # None THEN {q.id} ELSE FreshIds
        PROVE  i \in Ids /\ db[i] = None
    BY <2>2, <2>5 DEF FreshIds, Ids
  <2>6. Exec(touched) \/ \E i \in Ids : db[i] = None /\ Exec(inserted(i))
    BY <1>4, <2>5 DEF PersistHeartbeat
  <2>7. mem' = mem
    BY <1>4 DEF PersistHeartbeat
  <2> HIDE DEF touched, inserted
  <2>8. CASE Exec(touched)
    BY <2>3, <2>7, <2>8, ExecType, RowsKept
  <2>9. CASE \E i \in Ids : db[i] = None /\ Exec(inserted(i))
    BY <2>4, <2>7, <2>9, ExecType, RowsKept
  <2> QED
    BY <2>6, <2>8, <2>9
<1>5. ASSUME NEW ip \in Addrs, SyncWrite(ip) PROVE RegistryIsDurable'
  <2> DEFINE touched == [i \in Ids |-> IF i \in ByHost(db, sync.host)
                                       THEN Located(db[i], ip) ELSE db[i]]
  <2>1. \A i \in Ids : db[i] # None => touched[i] # None /\ touched[i].host = db[i].host
    <3>1. ASSUME NEW d \in Device
          PROVE  Located(d, ip) \in Device /\ Located(d, ip).host = d.host
      BY <1>z DEF Located, Device
    <3>2. \A i \in Ids : db[i] # None => db[i] \in Device
      BY DEF TypeOK
    <3> QED
      BY <3>1, <3>2
  <2>3. Exec(touched) \/ UNCHANGED <<db, dbFailed>>
    BY <1>5 DEF SyncWrite
  <2>4. mem' = mem
    BY <1>5 DEF SyncWrite
  <2> HIDE DEF touched
  <2>5. CASE Exec(touched)
    BY <2>1, <2>4, <2>5, ExecType, RowsKept
  <2>6. CASE UNCHANGED <<db, dbFailed>>
    BY <2>4, <2>6 DEF RegistryIsDurable
  <2> QED
    BY <2>3, <2>5, <2>6
<1>6. ASSUME NEW i \in Ids, EventBatch(i) PROVE RegistryIsDurable'
  <2>1. Active(db[i]) \in Device /\ Active(db[i]).host = db[i].host
    <3>1. db[i] \in Device
      BY <1>6 DEF EventBatch, TypeOK
    <3> QED
      BY <3>1, <1>z DEF Active, Device, Statuses
  <2>2. \A j \in Ids : db[j] # None =>
            /\ [db EXCEPT ![i] = Active(@)][j] # None
            /\ [db EXCEPT ![i] = Active(@)][j].host = db[j].host
    BY <2>1 DEF TypeOK
  <2> QED
    BY <1>6, <2>2, ExecType, RowsKept DEF EventBatch
<1>7. ASSUME StatusUpdater PROVE RegistryIsDurable'
  <2>1. ASSUME NEW d \in Device, NEW e \in Device
        PROVE  /\ [d EXCEPT !.status = StatusOf(e)] \in Device
               /\ [d EXCEPT !.status = StatusOf(e)].host = d.host
    BY DEF StatusOf, Device, Statuses
  <2>2. \A i \in Ids : mem[i] = None => mem'[i] = None
    BY <1>7 DEF StatusUpdater, Known
  <2>3. \A i \in Ids : mem[i] # None => mem'[i] # None /\ mem'[i].host = mem[i].host
    BY <1>7, <2>1 DEF StatusUpdater, Known, TypeOK
  <2>4. \A i \in Ids : db[i] # None => db'[i] # None /\ db'[i].host = db[i].host
    BY <1>7, <2>1 DEF StatusUpdater, Known, TypeOK
  <2>5. dbFailed => dbFailed'
    BY <1>7 DEF StatusUpdater
  <2> QED
    BY <2>2, <2>3, <2>4, <2>5 DEF RegistryIsDurable
<1>8. ASSUME DeleteAllDevices \/ Restart PROVE RegistryIsDurable'
  BY <1>8 DEF DeleteAllDevices, Restart, RegistryIsDurable
<1>9. ASSUME Tick PROVE RegistryIsDurable'
  <2>1. ASSUME NEW d \in Device
        PROVE  /\ [d EXCEPT !.age = Older(@)] \in Device
               /\ [d EXCEPT !.age = Older(@)].host = d.host
    BY RegistryAssumption DEF Older, Device, Ages
  <2>2. \A i \in Ids : mem[i] = None => mem'[i] = None
    BY <1>9 DEF Tick
  <2>3. \A i \in Ids : mem[i] # None => mem'[i].host = mem[i].host
    BY <1>9, <2>1 DEF Tick, TypeOK
  <2>4. \A i \in Ids : db[i] # None => db'[i] # None /\ db'[i].host = db[i].host
    <3> SUFFICES ASSUME NEW i \in Ids, db[i] # None
                 PROVE  db'[i] # None /\ db'[i].host = db[i].host
      OBVIOUS
    <3>1. db'[i] = [db[i] EXCEPT !.age = Older(@)]
      BY <1>9 DEF Tick
    <3>2. db[i] \in Device
      BY DEF TypeOK
    <3> QED
      BY <2>1, <3>1, <3>2
  <2> QED
    BY <1>9, <2>2, <2>3, <2>4 DEF Tick, RegistryIsDurable
<1>10. ASSUME NEW r \in Handlers, NEW h \in Hosts, NEW ip \in Addrs,
              EnrolArrives(r, h, ip) \/ HeartbeatArrives(r, h, ip)
       PROVE  RegistryIsDurable'
  BY <1>1, <1>10 DEF EnrolArrives, HeartbeatArrives
<1>11. ASSUME NEW r \in Handlers, Enrolled(r) \/ ReplyLost(r) PROVE RegistryIsDurable'
  BY <1>1, <1>11 DEF Enrolled, ReplyLost
<1>12. ASSUME NEW h \in Hosts, SyncLookup(h) PROVE RegistryIsDurable'
  BY <1>12 DEF SyncLookup, RegistryIsDurable
<1>13. CASE UNCHANGED vars
  BY <1>1, <1>13 DEF vars
<1> QED
  BY <1>2, <1>3, <1>4, <1>5, <1>6, <1>7, <1>8, <1>9, <1>10, <1>11, <1>12, <1>13
     DEF Next, Serve

\* Unless a database operation failed, every device the backend holds in memory
\* has its row under the same hostname, whatever was interrupted: what
\* loadDevicesFromDB reads after a crash is no less than what was lost.
THEOREM Durable == Spec => []RegistryIsDurable
<1>1. Init => RegistryIsDurable
  BY DEF Init, RegistryIsDurable
<1> QED
  BY <1>1, TypeCorrect, DurableInductive, PTL DEF Spec

----------------------------------------------------------------------------
\* Only DeleteAllDevices, or a reload after a database failure, removes a record
\* from memory: a consequence of durability, needed for the step Restart.
THEOREM NeverVanish == Spec => DevicesNeverVanish
<1> DEFINE Kept == \A i \in Ids : mem[i] # None => mem'[i] # None
<1>1. ASSUME TypeOK, RegistryIsDurable, [Next]_vars
      PROVE  [DeleteAllDevices \/ dbFailed' \/ Kept]_vars
  <2> SUFFICES ASSUME Next, ~DeleteAllDevices, ~dbFailed' PROVE Kept
    BY <1>1
  <2> USE NoneApart
  <2>1. ASSUME NEW h \in Hosts, NEW ip \in Addrs, NEW i \in Ids, RegisterDevice(h, ip, i)
        PROVE  Kept
    BY <1>1, <2>1, JustSeenType DEF RegisterDevice, TypeOK
  <2>2. ASSUME NEW r \in Handlers, Enrol(r) \/ HeartbeatRegister(r) PROVE Kept
    <3>1. PICK i \in Ids : RegisterDevice(req[r].host, req[r].ip, i)
      BY <2>2 DEF Enrol, HeartbeatRegister
    <3>2. req[r].pc # "idle"
      BY <2>2 DEF Enrol, HeartbeatRegister
    <3> QED
      BY <1>1, <2>1, <3>1, <3>2, RequestFields
  <2>3. ASSUME NEW r \in Handlers, UpdateHeartbeat(r) PROVE Kept
    <3>1. req[r].pc # "idle"
      BY <2>3 DEF UpdateHeartbeat
    <3>2. ASSUME NEW i \in HeartbeatTarget(req[r].id, req[r].host),
                 mem' = [mem EXCEPT ![i] = Beat(@, req[r].ip, 0)]
          PROVE  Kept
      <4>1. i \in Ids /\ mem[i] \in Device
        BY <1>1, <3>1, RequestFields DEF HeartbeatTarget, ByHost, Known, TypeOK
      <4>2. req[r].ip \in Addrs /\ 0 \in Ages
        BY <1>1, <3>1, RequestFields, RegistryAssumption DEF Ages
      <4> QED
        BY <1>1, <3>2, <4>1, <4>2, BeatType DEF TypeOK
    <3> QED
      BY <2>3, <3>2 DEF UpdateHeartbeat
  <2>4. ASSUME Restart PROVE Kept
    <3>1. PICK loaded \in SUBSET Ids :
            /\ mem' = [i \in Ids |-> IF i \in loaded THEN db[i] ELSE None]
            /\ dbFailed' = (dbFailed \/ ~(Known(db) \subseteq loaded))
      BY <2>4 DEF Restart
    <3>2. ~dbFailed /\ Known(db) \subseteq loaded
      BY <3>1
    <3> QED
      BY <1>1, <3>1, <3>2 DEF RegistryIsDurable, Known
  <2>5. ASSUME StatusUpdater PROVE Kept
    <3>1. ASSUME NEW d \in Device PROVE [d EXCEPT !.status = StatusOf(d)] \in Device
      BY DEF StatusOf, Device, Statuses
    <3> QED
      BY <1>1, <2>5, <3>1 DEF StatusUpdater, Known, TypeOK
  <2>6. ASSUME Tick PROVE Kept
    <3>1. ASSUME NEW d \in Device PROVE [d EXCEPT !.age = Older(@)] \in Device
      BY RegistryAssumption DEF Older, Device, Ages
    <3> QED
      BY <1>1, <2>6, <3>1 DEF Tick, TypeOK
  <2>7. ASSUME mem' = mem PROVE Kept
    BY <2>7
  <2> QED
    BY <2>2, <2>3, <2>4, <2>5, <2>6, <2>7
       DEF Next, Serve, EnrolArrives, HeartbeatArrives, Enrolled, ReplyLost,
           PersistHeartbeat, SyncLookup, SyncWrite, EventBatch
<1> QED
  BY <1>1, TypeCorrect, Durable, PTL DEF Spec, DevicesNeverVanish

\* A step that changes no hostname and adds no record adds no duplicate.
LEMMA SameNames ==
    ASSUME HostnamesUnique,
           \A i \in Ids : mem'[i] # None => mem[i] # None /\ mem'[i].host = mem[i].host
    PROVE  HostnamesUnique'
  BY DEF HostnamesUnique, ByHost, Known

\* RegisterDevice gives a record the hostname only if no other record has it.
LEMMA RegisterUnique ==
    ASSUME TypeOK, HostnamesUnique, NEW h \in Hosts, NEW ip \in Addrs, NEW i \in Ids,
           RegisterDevice(h, ip, i)
    PROVE  HostnamesUnique'
<1>1. mem' = [mem EXCEPT ![i] = JustSeen(h, ip)]
  BY DEF RegisterDevice
<1>2. JustSeen(h, ip).host = h
  BY JustSeenType
<1>3. \A j \in Ids \ {i} : mem'[j] = mem[j] /\ (mem[j] # None => mem[j].host # h)
  <2>1. ASSUME NEW j \in Ids \ {i}, mem[j] # None, mem[j].host = h PROVE FALSE
    <3>1. j \in ByHost(mem, h)
      BY <2>1 DEF ByHost, Known
    <3>2. i \in ByHost(mem, h)
      BY <3>1 DEF RegisterDevice, RegistrationTarget
    <3> QED
      BY <3>1, <3>2 DEF HostnamesUnique
  <2> QED
    BY <1>1, <2>1 DEF TypeOK
<1>4. mem'[i].host = h
  BY <1>1, <1>2 DEF TypeOK
<1> QED
  BY <1>3, <1>4 DEF HostnamesUnique, ByHost, Known

\* Registrations, heartbeats, reclaimed addresses and everything else but a
\* reload keep hostnames unique in memory.
THEOREM NoDuplicates == Spec => NoNewDuplicates
<1>1. ASSUME TypeOK, [Next]_vars
      PROVE  [HostnamesUnique => HostnamesUnique' \/ Restart]_vars
  <2> SUFFICES ASSUME Next, HostnamesUnique, ~Restart PROVE HostnamesUnique'
    BY <1>1
  <2> USE NoneApart
  <2>1. ASSUME NEW r \in Handlers, Enrol(r) \/ HeartbeatRegister(r) PROVE HostnamesUnique'
    <3>1. PICK i \in Ids : RegisterDevice(req[r].host, req[r].ip, i)
      BY <2>1 DEF Enrol, HeartbeatRegister
    <3>2. req[r].pc # "idle"
      BY <2>1 DEF Enrol, HeartbeatRegister
    <3> QED
      BY <1>1, <3>1, <3>2, RequestFields, RegisterUnique
  <2>2. ASSUME NEW r \in Handlers, UpdateHeartbeat(r) PROVE HostnamesUnique'
    <3>1. req[r].pc # "idle"
      BY <2>2 DEF UpdateHeartbeat
    <3>2. ASSUME NEW i \in HeartbeatTarget(req[r].id, req[r].host),
                 mem' = [mem EXCEPT ![i] = Beat(@, req[r].ip, 0)]
          PROVE  HostnamesUnique'
      <4>1. i \in Ids /\ mem[i] \in Device
        BY <1>1, <3>1, RequestFields DEF HeartbeatTarget, ByHost, Known, TypeOK
      <4>2. req[r].ip \in Addrs /\ 0 \in Ages
        BY <1>1, <3>1, RequestFields, RegistryAssumption DEF Ages
      <4>3. mem'[i].host = mem[i].host /\ \A j \in Ids \ {i} : mem'[j] = mem[j]
        BY <1>1, <3>2, <4>1, <4>2, BeatType DEF TypeOK
      <4> QED
        BY <4>1, <4>3, SameNames
    <3>3. CASE mem' = mem
      BY <3>3, SameNames
    <3> QED
      BY <2>2, <3>2, <3>3 DEF UpdateHeartbeat
  <2>3. ASSUME StatusUpdater PROVE HostnamesUnique'
    <3>1. ASSUME NEW d \in Device PROVE [d EXCEPT !.status = StatusOf(d)].host = d.host
      BY DEF Device
    <3>2. \A i \in Ids : mem'[i] # None => mem[i] # None /\ mem'[i].host = mem[i].host
      BY <1>1, <2>3, <3>1 DEF StatusUpdater, Known, TypeOK
    <3> QED
      BY <3>2, SameNames
  <2>4. ASSUME Tick PROVE HostnamesUnique'
    <3>1. ASSUME NEW d \in Device PROVE [d EXCEPT !.age = Older(@)].host = d.host
      BY DEF Device
    <3>2. \A i \in Ids : mem'[i] # None => mem[i] # None /\ mem'[i].host = mem[i].host
      BY <1>1, <2>4, <3>1 DEF Tick, TypeOK
    <3> QED
      BY <3>2, SameNames
  <2>5. ASSUME DeleteAllDevices PROVE HostnamesUnique'
    BY <2>5, SameNames DEF DeleteAllDevices
  <2>6. ASSUME mem' = mem PROVE HostnamesUnique'
    BY <2>6, SameNames
  <2> QED
    BY <2>1, <2>2, <2>3, <2>4, <2>5, <2>6
       DEF Next, Serve, EnrolArrives, HeartbeatArrives, Enrolled, ReplyLost,
           PersistHeartbeat, SyncLookup, SyncWrite, EventBatch
<1> QED
  BY <1>1, TypeCorrect, PTL DEF Spec, NoNewDuplicates

=============================================================================
