------------------------------- MODULE WSHub -------------------------------
(***************************************************************************)
(* The WebSocket hub that pushes events to the consoles:                   *)
(* backend/internal/websocket/hub.go and client.go.                        *)
(*                                                                         *)
(* Processes: Hub.Run, one goroutine; for each console ServeWs and then a   *)
(* read pump and a write pump; publishers, which are HTTP handlers blocked  *)
(* on the broadcast channel when it is full.  An action is one channel      *)
(* operation or one critical section of h.mu.  broadcastMessage is one      *)
(* action: what it does to one client's channel is independent of the rest. *)
(***************************************************************************)
EXTENDS Integers, Sequences, FiniteSets, Filtering

CONSTANTS
    Clients,      \* consoles; each connects at most once
    Users,        \* user SIDs
    UserOf,       \* the SID each console passes as user_sid, or None
    Publishers,   \* goroutines that call Broadcast and BroadcastToUser
    None,         \* no SID, no message, no client
    QueueSize,    \* capacity of h.broadcast (256 in the code)
    BufferSize,   \* sendBufferSize (256 in the code)
    MaxMessages   \* bound: messages published in a behaviour

ASSUME HubAssumption ==
    /\ UserOf \in [Clients -> Users \cup {None}]
    /\ None \notin Users \cup Clients
    /\ QueueSize \in Nat \ {0}
    /\ BufferSize \in Nat \ {0}
    /\ MaxMessages \in Nat

VARIABLES
    clients,      \* h.clients
    userClients,  \* h.userClients; an absent entry is an empty set
    broadcast,    \* the channel h.broadcast
    run,          \* what Run received and has still to process
    serve,        \* ServeWs of each console
    read,         \* its read pump
    write,        \* its write pump
    conn,         \* its connection: open, broken by the peer, or closed
    send,         \* the buffer of its channel client.send
    closed,       \* whether that channel is closed
    written,      \* history: the broadcast messages written to its connection
    pub,          \* what each publisher is sending to h.broadcast
    published,    \* messages that entered h.broadcast
    panicked      \* a goroutine sent on or closed a closed channel

hubVars == <<clients, userClients, broadcast, run>>
pumpVars == <<serve, read, write, conn>>
chanVars == <<send, closed, panicked>>
vars == <<clients, userClients, broadcast, run, serve, read, write, conn, send,
          closed, written, pub, published, panicked>>

----------------------------------------------------------------------------
\* Message.Target is "" for a broadcast: the message goes to every client.
Targets == Users \cup {"everyone"}
Message == [n : Nat, to : Targets]
Pong == [n |-> 0, to |-> "everyone"]

\* What Run received from its select, or that it waits there.
Holding(op, client, msg) == [op |-> op, client |-> client, msg |-> msg]
Waiting == Holding("select", None, Pong)
RunState == [op : {"select", "register", "unregister", "broadcast"},
             client : Clients \cup {None}, msg : Message]

\* A non-blocking send: dropped when the buffer is full.
Offer(buffer, m) == IF Len(buffer) < BufferSize THEN Append(buffer, m) ELSE buffer

\* The broadcast messages among those queued for a client.
Events(buffer) == Without(buffer, {Pong})

Addressed(c, m) == m.to = "everyone" \/ m.to = UserOf[c]

Init ==
    /\ clients = {}
    /\ userClients = [u \in Users |-> {}]
    /\ broadcast = <<>>
    /\ run = Waiting
    /\ serve = [c \in Clients |-> "new"]
    /\ read = [c \in Clients |-> "off"]
    /\ write = [c \in Clients |-> "off"]
    /\ conn = [c \in Clients |-> "open"]
    /\ send = [c \in Clients |-> <<>>]
    /\ closed = [c \in Clients |-> FALSE]
    /\ written = [c \in Clients |-> <<>>]
    /\ pub = [p \in Publishers |-> None]
    /\ published = 0
    /\ panicked = FALSE

----------------------------------------------------------------------------
\* Broadcast or BroadcastToUser is called ...
Publish(p, target) ==
    /\ pub[p] = None
    /\ published + Cardinality({q \in Publishers : pub[q] # None}) < MaxMessages
    /\ pub' = [pub EXCEPT ![p] = target]
    /\ UNCHANGED <<hubVars, pumpVars, chanVars, written, published>>

\* ... and blocks until h.broadcast has room.
Enqueue(p) ==
    /\ pub[p] # None
    /\ Len(broadcast) < QueueSize
    /\ broadcast' = Append(broadcast, [n |-> published + 1, to |-> pub[p]])
    /\ published' = published + 1
    /\ pub' = [pub EXCEPT ![p] = None]
    /\ UNCHANGED <<clients, userClients, run, pumpVars, chanVars, written>>

----------------------------------------------------------------------------
\* Hub.Run: the three cases of its select ...
ReceiveRegister(c) ==
    /\ run.op = "select"
    /\ serve[c] = "register"
    /\ run' = Holding("register", c, Pong)
    /\ serve' = [serve EXCEPT ![c] = "start"]
    /\ UNCHANGED <<clients, userClients, broadcast, read, write, conn, chanVars,
                   written, pub, published>>

ReceiveUnregister(c) ==
    /\ run.op = "select"
    /\ read[c] = "unregister"
    /\ run' = Holding("unregister", c, Pong)
    /\ read' = [read EXCEPT ![c] = "close"]
    /\ UNCHANGED <<clients, userClients, broadcast, serve, write, conn, chanVars,
                   written, pub, published>>

ReceiveBroadcast ==
    /\ run.op = "select"
    /\ broadcast # <<>>
    /\ run' = Holding("broadcast", None, Head(broadcast))
    /\ broadcast' = Tail(broadcast)
    /\ UNCHANGED <<clients, userClients, pumpVars, chanVars, written, pub, published>>

\* A bug: the client is not taken out of the index.
unregisterClient_KeepsIndex ==
    LET c == run.client
    IN  /\ run.op = "unregister"
        /\ IF c \in clients
           THEN /\ clients' = clients \ {c}
                /\ closed' = [closed EXCEPT ![c] = TRUE]
                /\ panicked' = (panicked \/ closed[c])
           ELSE UNCHANGED <<clients, closed, panicked>>
        /\ run' = Waiting
        /\ UNCHANGED <<userClients, broadcast, pumpVars, send, written, pub, published>>

\* A bug: the channel is closed while the client stays registered.
unregisterClient_KeepsClient ==
    LET c == run.client
    IN  /\ run.op = "unregister"
        /\ closed' = [closed EXCEPT ![c] = TRUE]
        /\ panicked' = (panicked \/ closed[c])
        /\ run' = Waiting
        /\ UNCHANGED <<clients, userClients, broadcast, pumpVars, send, written, pub,
                       published>>

\* A bug: the send to a client blocks instead of dropping the message.
broadcastMessage_Blocking ==
    LET m == run.msg
        recipients == IF m.to = "everyone" THEN clients ELSE userClients[m.to]
    IN  /\ run.op = "broadcast"
        /\ \A c \in recipients : Len(send[c]) < BufferSize
        /\ send' = [c \in Clients |-> IF c \in recipients THEN Append(send[c], m)
                                      ELSE send[c]]
        /\ panicked' = (panicked \/ \E c \in recipients : closed[c])
        /\ run' = Waiting
        /\ UNCHANGED <<clients, userClients, broadcast, pumpVars, closed, written,
                       pub, published>>

\* ... and the calls they lead to.
registerClient ==
    LET c == run.client
    IN  /\ run.op = "register"
        /\ clients' = clients \cup {c}
        /\ userClients' = [u \in Users |-> IF u = UserOf[c] THEN userClients[u] \cup {c}
                                           ELSE userClients[u]]
        /\ run' = Waiting
        /\ UNCHANGED <<broadcast, pumpVars, chanVars, written, pub, published>>

unregisterClient ==
    LET c == run.client
    IN  /\ run.op = "unregister"
        /\ IF c \in clients
           THEN /\ clients' = clients \ {c}
                /\ closed' = [closed EXCEPT ![c] = TRUE]
                /\ panicked' = (panicked \/ closed[c])
                /\ userClients' = [u \in Users |-> IF u = UserOf[c] THEN userClients[u] \ {c}
                                                   ELSE userClients[u]]
           ELSE UNCHANGED <<clients, closed, panicked, userClients>>
        /\ run' = Waiting
        /\ UNCHANGED <<broadcast, pumpVars, send, written, pub, published>>

broadcastMessage ==
    LET m == run.msg
        recipients == IF m.to = "everyone" THEN clients ELSE userClients[m.to]
    IN  /\ run.op = "broadcast"
        /\ send' = [c \in Clients |-> IF c \in recipients THEN Offer(send[c], m)
                                      ELSE send[c]]
        /\ panicked' = (panicked \/ \E c \in recipients : closed[c])
        /\ run' = Waiting
        /\ UNCHANGED <<clients, userClients, broadcast, pumpVars, closed, written,
                       pub, published>>

----------------------------------------------------------------------------
\* ServeWs upgrades the connection and blocks in hub.Register ...
ServeWs(c) ==
    /\ serve[c] = "new"
    /\ serve' = [serve EXCEPT ![c] = "register"]
    /\ UNCHANGED <<hubVars, read, write, conn, chanVars, written, pub, published>>

\* ... and then starts the pumps, perhaps before registerClient has run.
Start(c) ==
    /\ serve[c] = "start"
    /\ serve' = [serve EXCEPT ![c] = "done"]
    /\ read' = [read EXCEPT ![c] = "reading"]
    /\ write' = [write EXCEPT ![c] = "running"]
    /\ UNCHANGED <<hubVars, conn, chanVars, written, pub, published>>

\* readPump: a PING is answered through the client's own channel ...
handleMessage(c) ==
    /\ read[c] = "reading"
    /\ conn[c] = "open"
    /\ send' = [send EXCEPT ![c] = Offer(@, Pong)]
    /\ panicked' = (panicked \/ closed[c])
    /\ UNCHANGED <<hubVars, pumpVars, closed, written, pub, published>>

\* ... and an error, here one the peer caused on an intact connection (no
\* pong in time, an oversized message), ends the loop ...
ReadRejects(c) ==
    /\ read[c] = "reading"
    /\ conn[c] = "open"
    /\ read' = [read EXCEPT ![c] = "unregister"]
    /\ UNCHANGED <<hubVars, serve, write, conn, chanVars, written, pub, published>>

\* A bug: the deferred function closes the connection without Unregister.
ReadFails_NoUnregister(c) ==
    /\ read[c] = "reading"
    /\ conn[c] # "open"
    /\ read' = [read EXCEPT ![c] = "close"]
    /\ UNCHANGED <<hubVars, serve, write, conn, chanVars, written, pub, published>>

\* ... as does a connection that is broken or closed.
ReadFails(c) ==
    /\ read[c] = "reading"
    /\ conn[c] # "open"
    /\ read' = [read EXCEPT ![c] = "unregister"]
    /\ UNCHANGED <<hubVars, serve, write, conn, chanVars, written, pub, published>>

\* Once Unregister has returned the deferred function closes the connection.
ReadReturns(c) ==
    /\ read[c] = "close"
    /\ read' = [read EXCEPT ![c] = "done"]
    /\ conn' = [conn EXCEPT ![c] = "closed"]
    /\ UNCHANGED <<hubVars, serve, write, chanVars, written, pub, published>>

\* A bug: the frame is written but its messages are left in the buffer.
WriteFrame_KeepsBuffer(c) ==
    /\ write[c] = "running"
    /\ send[c] # <<>>
    /\ conn[c] # "closed"
    /\ Len(written[c]) < MaxMessages
    /\ written' = [written EXCEPT ![c] = @ \o Events(send[c])]
    /\ UNCHANGED <<hubVars, pumpVars, chanVars, pub, published>>

\* writePump: one frame takes the message received and all those queued.
WriteFrame(c) ==
    /\ write[c] = "running"
    /\ send[c] # <<>>
    /\ conn[c] # "closed"
    /\ written' = [written EXCEPT ![c] = @ \o Events(send[c])]
    /\ send' = [send EXCEPT ![c] = <<>>]
    /\ UNCHANGED <<hubVars, pumpVars, closed, panicked, pub, published>>

\* A write or a ping fails: the message just received, or the whole frame, is
\* lost with the connection.
WriteFails(c) ==
    /\ write[c] = "running"
    /\ conn[c] # "open"
    /\ \/ UNCHANGED send
       \/ send[c] # <<>> /\ send' = [send EXCEPT ![c] = Tail(@)]
       \/ send[c] # <<>> /\ send' = [send EXCEPT ![c] = <<>>]
    /\ write' = [write EXCEPT ![c] = "done"]
    /\ conn' = [conn EXCEPT ![c] = "closed"]
    /\ UNCHANGED <<hubVars, serve, read, closed, panicked, written, pub, published>>

\* The channel is closed and drained: the pump says goodbye.
WriteReturns(c) ==
    /\ write[c] = "running"
    /\ send[c] = <<>>
    /\ closed[c]
    /\ write' = [write EXCEPT ![c] = "done"]
    /\ conn' = [conn EXCEPT ![c] = "closed"]
    /\ UNCHANGED <<hubVars, serve, read, chanVars, written, pub, published>>

\* The peer goes away, or stops reading for longer than writeWait.
ConnBreaks(c) ==
    /\ serve[c] # "new"
    /\ conn[c] = "open"
    /\ conn' = [conn EXCEPT ![c] = "broken"]
    /\ UNCHANGED <<hubVars, serve, read, write, chanVars, written, pub, published>>

----------------------------------------------------------------------------
Process == registerClient \/ unregisterClient \/ broadcastMessage

WritePump(c) == WriteFrame(c) \/ WriteFails(c) \/ WriteReturns(c)

Next ==
    \/ \E p \in Publishers : Enqueue(p) \/ \E t \in Targets : Publish(p, t)
    \/ ReceiveBroadcast \/ Process
    \/ \E c \in Clients :
        \/ ReceiveRegister(c) \/ ReceiveUnregister(c)
        \/ ServeWs(c) \/ Start(c)
        \/ handleMessage(c) \/ ReadRejects(c) \/ ReadFails(c) \/ ReadReturns(c)
        \/ WritePump(c) \/ ConnBreaks(c)

Spec == Init /\ [][Next]_vars

\* Goroutines that can step do, and a select that finds a case ready again and
\* again takes it (Go chooses at random among the ready cases).  A broken
\* connection is noticed: reads and pings carry deadlines.
FairSpec ==
    /\ Spec
    /\ WF_vars(Process) /\ SF_vars(ReceiveBroadcast)
    /\ \A p \in Publishers : SF_vars(Enqueue(p))
    /\ \A c \in Clients :
        /\ SF_vars(ReceiveRegister(c)) /\ SF_vars(ReceiveUnregister(c))
        /\ WF_vars(Start(c)) /\ WF_vars(ReadFails(c)) /\ WF_vars(ReadReturns(c))
        /\ WF_vars(WritePump(c)) /\ WF_vars(WriteFails(c))

----------------------------------------------------------------------------
\* Types of the hub, the channels and the pumps.
TypeOK ==
    /\ clients \subseteq Clients
    /\ userClients \in [Users -> SUBSET Clients]
    /\ broadcast \in Seq(Message) /\ Len(broadcast) <= QueueSize
    /\ run \in RunState
    /\ serve \in [Clients -> {"new", "register", "start", "done"}]
    /\ read \in [Clients -> {"off", "reading", "unregister", "close", "done"}]
    /\ write \in [Clients -> {"off", "running", "done"}]
    /\ conn \in [Clients -> {"open", "broken", "closed"}]
    /\ send \in [Clients -> Seq(Message)]
    /\ \A c \in Clients : Len(send[c]) <= BufferSize
    /\ closed \in [Clients -> BOOLEAN]
    /\ written \in [Clients -> Seq(Message)]
    /\ pub \in [Publishers -> Targets \cup {None}]
    /\ published \in Nat
    /\ panicked \in BOOLEAN

\* No goroutine sends on a closed channel or closes one twice, although three
\* goroutines use client.send and the pumps may start, and the read pump end,
\* before Run has executed registerClient.
NoChannelPanic == ~panicked

\* h.userClients is exactly h.clients indexed by SID, so a directed message
\* reaches all the consoles of a user and GetOnlineUsers lists no ghost.
IndexConsistent ==
    \A u \in Users : userClients[u] = {c \in clients : UserOf[c] = u}

\* The hub's two tables have their types, buffers and queues keep to their
\* limits, and the index is exact over connects and disconnects (registerClient,
\* unregisterClient, broadcastMessage).
HubConsistent == TypeOK /\ IndexConsistent

\* A console gets the messages in the order they entered h.broadcast, none
\* twice, whatever was dropped for a full buffer or lost with a connection.
OrderedDelivery ==
    \A c \in Clients :
        LET seen == written[c] \o Events(send[c])
        IN  \A j, k \in DOMAIN seen : j < k => seen[j].n < seen[k].n

\* A message directed at a user is queued for or written to no one else.
DirectedDelivery ==
    \A c \in Clients :
        LET seen == written[c] \o Events(send[c])
        IN  \A k \in DOMAIN seen : Addressed(c, seen[k])

\* What a console gets is addressed to it, in order and once (broadcastMessage
\* and the frames of writePump).
DeliveryExact == OrderedDelivery /\ DirectedDelivery

\* No goroutine, channel or registration outlives its connection.
ConnectionsReclaimed ==
    \A c \in Clients :
        conn[c] # "open" ~>
            c \notin clients /\ closed[c] /\ read[c] = "done" /\ write[c] = "done"

\* A publisher, which is an HTTP handler of the agents, is never blocked for
\* good by a slow, dead or vanishing console.
PublishersProgress == \A p \in Publishers : pub[p] # None ~> pub[p] = None

=============================================================================
