----------------------------- MODULE WSHubProofs -----------------------------
(***************************************************************************)
(* The hub keeps its promises for any number of consoles, users and         *)
(* publishers and any capacity of its channels: no goroutine panics on a     *)
(* closed channel, the index of the users is exact, and what a console gets  *)
(* is addressed to it, in order and once.                                    *)
(***************************************************************************)
EXTENDS WSHub, FilteringProofs

----------------------------------------------------------------------------
\* Where each console's goroutines are when its channel is open or closed: it is
\* closed only by unregisterClient, which the read pump asks for last, and the
\* read pump starts only once Run has received the registration.
ClientControl(c) ==
    /\ serve[c] \in {"new", "register", "start"} => read[c] = "off"
    /\ serve[c] \in {"new", "register"} => c \notin clients /\ run.client # c
    /\ run.op = "register" /\ run.client = c => ~closed[c]
    /\ run.op = "unregister" /\ run.client = c => read[c] \in {"close", "done"}
    /\ c \in clients => ~closed[c]
    /\ closed[c] => read[c] \in {"close", "done"}

RunControl == run.op \in {"register", "unregister"} => run.client \in Clients

ControlInv ==
    /\ HubConsistent
    /\ RunControl
    /\ NoChannelPanic
    /\ \A c \in Clients : ClientControl(c)

----------------------------------------------------------------------------
\* The messages in h.broadcast are numbered in their order, and the one Run is
\* delivering comes before them.
QueueOrder ==
    /\ \A i \in 1 .. Len(broadcast) : 0 < broadcast[i].n /\ broadcast[i].n <= published
    /\ \A i, j \in 1 .. Len(broadcast) : i < j => broadcast[i].n < broadcast[j].n
    /\ run.op = "broadcast" =>
        /\ 0 < run.msg.n /\ run.msg.n <= published
        /\ \A i \in 1 .. Len(broadcast) : run.msg.n < broadcast[i].n

\* The messages that come before everything the hub still holds.
Past ==
    {m \in Message :
        /\ m.n <= published
        /\ run.op = "broadcast" => m.n < run.msg.n
        /\ \A i \in 1 .. Len(broadcast) : m.n < broadcast[i].n}

\* What console c got, w, and what is queued for it, s, answers to pings aside, is
\* addressed to it, numbered in its order, and among the messages of E.
Delivered(c, w, s, E) ==
    /\ \A j \in 1 .. Len(w) : 0 < w[j].n /\ Addressed(c, w[j]) /\ w[j] \in E
    /\ \A j \in 1 .. Len(s) :
        s[j] # Pong => 0 < s[j].n /\ Addressed(c, s[j]) /\ s[j] \in E
    /\ \A j, k \in 1 .. Len(w) : j < k => w[j].n < w[k].n
    /\ \A j, k \in 1 .. Len(s) :
        j < k /\ s[j] # Pong /\ s[k] # Pong => s[j].n < s[k].n
    /\ \A j \in 1 .. Len(w), k \in 1 .. Len(s) : s[k] # Pong => w[j].n < s[k].n

ClientOrder(c) == Delivered(c, written[c], send[c], Past)

HubInv == ControlInv /\ QueueOrder /\ \A c \in Clients : ClientOrder(c)

----------------------------------------------------------------------------
(* Messages, buffers and what Run holds. *)

LEMMA PongIsMessage == Pong \in Message /\ Pong.n = 0 /\ Pong.to = "everyone"
BY DEF Pong, Message, Targets

\* A non-blocking send keeps to the capacity, keeps what is queued in its place,
\* and adds the message or nothing.
LEMMA OfferResult ==
    ASSUME NEW b \in Seq(Message), Len(b) <= BufferSize, NEW m \in Message
    PROVE  /\ Offer(b, m) \in Seq(Message) /\ Len(Offer(b, m)) <= BufferSize
           /\ \A j \in 1 .. Len(b) : j \in 1 .. Len(Offer(b, m)) /\ Offer(b, m)[j] = b[j]
           /\ \A j \in 1 .. Len(Offer(b, m)) :
                  j \in 1 .. Len(b) \/ (j = Len(b) + 1 /\ Offer(b, m)[j] = m)
<1>1. Len(b) \in Nat /\ BufferSize \in Nat
  BY HubAssumption
<1>2. CASE Len(b) < BufferSize
  BY <1>1, <1>2 DEF Offer
<1>3. CASE ~(Len(b) < BufferSize)
  BY <1>1, <1>3 DEF Offer
<1> QED
  BY <1>2, <1>3

LEMMA RunStates ==
    /\ Waiting \in RunState /\ Waiting.op = "select" /\ Waiting.client = None
    /\ \A c \in Clients : /\ Holding("register", c, Pong) \in RunState
                          /\ Holding("unregister", c, Pong) \in RunState
    /\ \A m \in Message : Holding("broadcast", None, m) \in RunState
BY PongIsMessage DEF Waiting, Holding, RunState

----------------------------------------------------------------------------
(* The control invariant. *)

LEMMA InitControl == Init => ControlInv
<1> SUFFICES ASSUME Init PROVE ControlInv
  OBVIOUS
<1>1. TypeOK
  <2>1. <<>> \in Seq(Message) /\ Len(<<>>) = 0
    OBVIOUS
  <2>2. send \in [Clients -> Seq(Message)] /\ written \in [Clients -> Seq(Message)]
    BY <2>1 DEF Init
  <2>3. \A c \in Clients : Len(send[c]) <= BufferSize
    BY <2>1, HubAssumption DEF Init
  <2>4. broadcast \in Seq(Message) /\ Len(broadcast) <= QueueSize
    BY <2>1, HubAssumption DEF Init
  <2>5. pub \in [Publishers -> Targets \cup {None}] /\ panicked \in BOOLEAN
    BY DEF Init
  <2> QED
    BY <2>2, <2>3, <2>4, <2>5, RunStates DEF Init, TypeOK
<1>2. IndexConsistent
  BY DEF Init, IndexConsistent
<1>3. RunControl /\ NoChannelPanic
  BY RunStates DEF Init, RunControl, NoChannelPanic
<1>4. \A c \in Clients : ClientControl(c)
  BY RunStates, HubAssumption DEF Init, ClientControl
<1> QED
  BY <1>1, <1>2, <1>3, <1>4 DEF ControlInv, HubConsistent

\* The types over a step.
LEMMA NextTypes ==
    ASSUME ControlInv, [Next]_vars
    PROVE  TypeOK'
<1> USE DEF ControlInv, HubConsistent
<1>1. ASSUME NEW p \in Publishers, Enqueue(p)
      PROVE  TypeOK'
  <2>1. pub[p] \in Targets /\ published + 1 \in Nat
    BY <1>1 DEF TypeOK, Enqueue
  <2> DEFINE m == [n |-> published + 1, to |-> pub[p]]
  <2>2. m \in Message
    BY <2>1 DEF Message
  <2> HIDE DEF m
  <2>3. broadcast' = Append(broadcast, m)
    BY <1>1 DEF Enqueue, m
  <2>4. broadcast' \in Seq(Message) /\ Len(broadcast') <= QueueSize
    BY <1>1, <2>2, <2>3, HubAssumption DEF TypeOK, Enqueue
  <2>5. published' \in Nat /\ pub' \in [Publishers -> Targets \cup {None}]
    BY <1>1, <2>1 DEF TypeOK, Enqueue
  <2> QED
    BY <1>1, <2>4, <2>5 DEF TypeOK, Enqueue, pumpVars, chanVars
<1>2. ASSUME NEW p \in Publishers, NEW t \in Targets, Publish(p, t)
      PROVE  TypeOK'
  BY <1>2 DEF TypeOK, Publish, hubVars, pumpVars, chanVars
<1>3. CASE ReceiveBroadcast
  <2>1. Head(broadcast) \in Message /\ Tail(broadcast) \in Seq(Message)
        /\ Len(Tail(broadcast)) <= QueueSize
    BY <1>3, HubAssumption DEF TypeOK, ReceiveBroadcast
  <2>3. run' \in RunState
    BY <1>3, <2>1, RunStates DEF ReceiveBroadcast
  <2> QED
    BY <1>3, <2>1, <2>3 DEF TypeOK, ReceiveBroadcast, pumpVars, chanVars
<1>4. CASE registerClient
  <2>1. run.client \in Clients
    BY <1>4 DEF registerClient, RunControl
  <2> QED
    BY <1>4, <2>1, RunStates DEF TypeOK, registerClient, pumpVars, chanVars
<1>5. CASE unregisterClient
  <2>1. run.client \in Clients
    BY <1>5 DEF unregisterClient, RunControl
  <2>2. CASE run.client \in clients
    <3>1. panicked' \in BOOLEAN
      BY <1>5, <2>2 DEF unregisterClient
    <3>2. closed' \in [Clients -> BOOLEAN]
      <4>1. closed' = [closed EXCEPT ![run.client] = TRUE]
        BY <1>5, <2>2 DEF unregisterClient
      <4> QED
        BY <2>1, <4>1 DEF TypeOK
    <3>3. clients' \subseteq Clients /\ userClients' \in [Users -> SUBSET Clients]
      <4>1. /\ clients' = clients \ {run.client}
            /\ userClients' = [u \in Users |-> IF u = UserOf[run.client]
                                               THEN userClients[u] \ {run.client}
                                               ELSE userClients[u]]
        BY <1>5, <2>2 DEF unregisterClient
      <4> QED
        BY <4>1 DEF TypeOK
    <3> QED
      BY <1>5, <3>1, <3>2, <3>3, RunStates DEF TypeOK, unregisterClient, pumpVars
  <2>3. CASE run.client \notin clients
    BY <1>5, <2>1, <2>3, RunStates DEF TypeOK, unregisterClient, pumpVars
  <2> QED
    BY <2>2, <2>3
<1>6. CASE broadcastMessage
  <2>1. run.msg \in Message
    BY DEF TypeOK, RunState
  <2>2. \A c \in Clients : Offer(send[c], run.msg) \in Seq(Message)
                           /\ Len(Offer(send[c], run.msg)) <= BufferSize
    BY <2>1, OfferResult DEF TypeOK
  <2>3. send' \in [Clients -> Seq(Message)] /\ \A c \in Clients : Len(send'[c]) <= BufferSize
    BY <1>6, <2>2 DEF broadcastMessage, TypeOK
  <2>4. panicked' \in BOOLEAN
    BY <1>6 DEF broadcastMessage
  <2> QED
    BY <1>6, <2>3, <2>4, RunStates DEF TypeOK, broadcastMessage, pumpVars
<1>7. ASSUME NEW c \in Clients, ReceiveRegister(c)
      PROVE  TypeOK'
  <2>2. run' \in RunState
    BY <1>7, RunStates DEF ReceiveRegister
  <2> QED
    BY <1>7, <2>2 DEF TypeOK, ReceiveRegister, chanVars
<1>8. ASSUME NEW c \in Clients, ReceiveUnregister(c)
      PROVE  TypeOK'
  <2>2. run' \in RunState
    BY <1>8, RunStates DEF ReceiveUnregister
  <2> QED
    BY <1>8, <2>2 DEF TypeOK, ReceiveUnregister, chanVars
<1>9. ASSUME NEW c \in Clients, ServeWs(c) \/ Start(c) \/ ReadRejects(c) \/ ReadFails(c)
                                \/ ReadReturns(c) \/ ConnBreaks(c) \/ WriteReturns(c)
      PROVE  TypeOK'
  <2>1. CASE ServeWs(c)
    BY <2>1 DEF TypeOK, ServeWs, hubVars, chanVars
  <2>2. CASE Start(c)
    BY <2>2 DEF TypeOK, Start, hubVars, chanVars
  <2>3. CASE ReadRejects(c)
    BY <2>3 DEF TypeOK, ReadRejects, hubVars, chanVars
  <2>4. CASE ReadFails(c)
    BY <2>4 DEF TypeOK, ReadFails, hubVars, chanVars
  <2>5. CASE ReadReturns(c)
    BY <2>5 DEF TypeOK, ReadReturns, hubVars, chanVars
  <2>6. CASE ConnBreaks(c)
    BY <2>6 DEF TypeOK, ConnBreaks, hubVars, chanVars
  <2>7. CASE WriteReturns(c)
    BY <2>7 DEF TypeOK, WriteReturns, hubVars, chanVars
  <2> QED
    BY <1>9, <2>1, <2>2, <2>3, <2>4, <2>5, <2>6, <2>7
<1>10. ASSUME NEW c \in Clients, handleMessage(c)
       PROVE  TypeOK'
  <2>1. Offer(send[c], Pong) \in Seq(Message) /\ Len(Offer(send[c], Pong)) <= BufferSize
    BY PongIsMessage, OfferResult DEF TypeOK
  <2>2. send' = [send EXCEPT ![c] = Offer(send[c], Pong)]
    BY <1>10 DEF handleMessage
  <2>3. send' \in [Clients -> Seq(Message)] /\ \A d \in Clients : Len(send'[d]) <= BufferSize
    BY <2>1, <2>2 DEF TypeOK
  <2>4. panicked' \in BOOLEAN
    BY <1>10 DEF handleMessage
  <2> QED
    BY <1>10, <2>3, <2>4 DEF TypeOK, handleMessage, hubVars, pumpVars
<1>11. ASSUME NEW c \in Clients, WriteFrame(c)
       PROVE  TypeOK'
  <2>1. Events(send[c]) \in Seq(Message)
    BY WithoutLeaves DEF Events, TypeOK
  <2>2. written[c] \o Events(send[c]) \in Seq(Message)
    BY <2>1 DEF TypeOK
  <2>3. written' = [written EXCEPT ![c] = written[c] \o Events(send[c])]
        /\ send' = [send EXCEPT ![c] = <<>>]
    BY <1>11 DEF WriteFrame
  <2>4. written' \in [Clients -> Seq(Message)]
    BY <2>2, <2>3 DEF TypeOK
  <2>5. send' \in [Clients -> Seq(Message)] /\ \A d \in Clients : Len(send'[d]) <= BufferSize
    BY <2>3, HubAssumption DEF TypeOK
  <2> QED
    BY <1>11, <2>4, <2>5 DEF TypeOK, WriteFrame, hubVars, pumpVars
<1>12. ASSUME NEW c \in Clients, WriteFails(c)
       PROVE  TypeOK'
  <2>1. send[c] # <<>> => Tail(send[c]) \in Seq(Message) /\ Len(Tail(send[c])) <= BufferSize
    BY HubAssumption DEF TypeOK
  <2>2. send' \in [Clients -> Seq(Message)] /\ \A d \in Clients : Len(send'[d]) <= BufferSize
    <3>1. CASE UNCHANGED send
      BY <3>1 DEF TypeOK
    <3>2. CASE send[c] # <<>> /\ send' = [send EXCEPT ![c] = Tail(send[c])]
      BY <2>1, <3>2 DEF TypeOK
    <3>3. CASE send[c] # <<>> /\ send' = [send EXCEPT ![c] = <<>>]
      BY <3>3, HubAssumption DEF TypeOK
    <3> QED
      BY <1>12, <3>1, <3>2, <3>3 DEF WriteFails
  <2> QED
    BY <1>12, <2>2 DEF TypeOK, WriteFails, hubVars
<1>13. CASE UNCHANGED vars
  BY <1>13 DEF vars, TypeOK
<1> QED
  BY <1>1, <1>2, <1>3, <1>4, <1>5, <1>6, <1>7, <1>8, <1>9, <1>10, <1>11, <1>12, <1>13
     DEF Next, Process, WritePump

\* Only registerClient and unregisterClient touch h.clients and the index.
LEMMA NextIndex ==
    ASSUME ControlInv, [Next]_vars
    PROVE  IndexConsistent'
<1> USE DEF ControlInv, HubConsistent
<1>1. CASE registerClient
  <2>1. run.client \in Clients
    BY <1>1 DEF registerClient, RunControl
  <2> QED
    BY <1>1, <2>1 DEF registerClient, IndexConsistent, TypeOK
<1>2. CASE unregisterClient
  <2>1. CASE run.client \in clients
    <3>1. /\ clients' = clients \ {run.client}
          /\ userClients' = [u \in Users |-> IF u = UserOf[run.client]
                                             THEN userClients[u] \ {run.client}
                                             ELSE userClients[u]]
      BY <1>2, <2>1 DEF unregisterClient
    <3> QED
      BY <3>1 DEF IndexConsistent, TypeOK
  <2>2. CASE run.client \notin clients
    BY <1>2, <2>2 DEF unregisterClient, IndexConsistent
  <2> QED
    BY <2>1, <2>2
<1>3. CASE UNCHANGED <<clients, userClients>>
  BY <1>3 DEF IndexConsistent
<1> QED
  BY <1>1, <1>2, <1>3
     DEF Next, Process, WritePump, vars, hubVars, Enqueue, Publish, ReceiveBroadcast,
         broadcastMessage, ReceiveRegister, ReceiveUnregister, ServeWs, Start,
         handleMessage, ReadRejects, ReadFails, ReadReturns, WriteFrame, WriteFails,
         WriteReturns, ConnBreaks

\* The steps that can panic close or send on a channel that is open.
LEMMA NextNoPanic ==
    ASSUME ControlInv, [Next]_vars
    PROVE  NoChannelPanic'
<1> USE DEF ControlInv, HubConsistent
<1>1. CASE unregisterClient
  <2>1. run.client \in Clients
    BY <1>1 DEF unregisterClient, RunControl
  <2>2. run.client \in clients => ~closed[run.client]
    BY <2>1 DEF ClientControl
  <2> QED
    BY <1>1, <2>2 DEF unregisterClient, NoChannelPanic
<1>2. CASE broadcastMessage
  <2> DEFINE m == run.msg
             recipients == IF m.to = "everyone" THEN clients ELSE userClients[m.to]
  <2>1. recipients \subseteq clients
    <3>1. m.to \in Users \cup {"everyone"}
      BY DEF TypeOK, RunState, Message, Targets
    <3> QED
      BY <3>1 DEF IndexConsistent
  <2>2. \A c \in clients : ~closed[c]
    BY DEF TypeOK, ClientControl
  <2>3. panicked' = (panicked \/ \E c \in recipients : closed[c])
    BY <1>2 DEF broadcastMessage
  <2> QED
    BY <2>1, <2>2, <2>3 DEF NoChannelPanic
<1>3. ASSUME NEW c \in Clients, handleMessage(c)
      PROVE  NoChannelPanic'
  <2>1. ~closed[c]
    BY <1>3 DEF ClientControl, handleMessage
  <2> QED
    BY <1>3, <2>1 DEF handleMessage, NoChannelPanic
<1>4. CASE UNCHANGED panicked
  BY <1>4 DEF NoChannelPanic
<1> QED
  BY <1>1, <1>2, <1>3, <1>4
     DEF Next, Process, WritePump, vars, chanVars, Enqueue, Publish, ReceiveBroadcast,
         registerClient, ReceiveRegister, ReceiveUnregister, ServeWs, Start,
         ReadRejects, ReadFails, ReadReturns, WriteFrame, WriteFails,
         WriteReturns, ConnBreaks

\* The goroutines of a console over a step.
LEMMA NextClients ==
    ASSUME ControlInv, [Next]_vars
    PROVE  RunControl' /\ \A c \in Clients : ClientControl(c)'
<1> USE DEF ControlInv, HubConsistent
<1> DEFINE Goal == RunControl' /\ \A c \in Clients : ClientControl(c)'
<1> SUFFICES Goal
  OBVIOUS
<1>0. None \notin Clients
  BY HubAssumption
<1>1. CASE registerClient
  <2>1. run.client \in Clients /\ ~closed[run.client]
    BY <1>1 DEF registerClient, RunControl, ClientControl
  <2> QED
    BY <1>0, <1>1, <2>1, RunStates
       DEF registerClient, RunControl, ClientControl, pumpVars, chanVars
<1>2. CASE unregisterClient
  <2>1. run.client \in Clients /\ read[run.client] \in {"close", "done"}
    BY <1>2 DEF unregisterClient, RunControl, ClientControl
  <2>2. CASE run.client \in clients
    <3>1. closed' = [closed EXCEPT ![run.client] = TRUE] /\ clients' = clients \ {run.client}
      BY <1>2, <2>2 DEF unregisterClient
    <3>2. \A c \in Clients : c # run.client => closed'[c] = closed[c]
      BY <3>1 DEF TypeOK
    <3> QED
      BY <1>0, <1>2, <2>1, <3>1, <3>2, RunStates
         DEF unregisterClient, RunControl, ClientControl, pumpVars
  <2>3. CASE run.client \notin clients
    BY <1>0, <1>2, <2>3, RunStates DEF unregisterClient, RunControl, ClientControl, pumpVars
  <2> QED
    BY <2>2, <2>3
<1>3. CASE broadcastMessage
  BY <1>0, <1>3, RunStates DEF broadcastMessage, RunControl, ClientControl, pumpVars
<1>4. CASE ReceiveBroadcast
  <2>1. run'.op = "broadcast" /\ run'.client = None
    BY <1>4 DEF ReceiveBroadcast, Holding
  <2> QED
    BY <1>0, <1>4, <2>1 DEF ReceiveBroadcast, RunControl, ClientControl, pumpVars, chanVars
<1>5. ASSUME NEW c \in Clients, ReceiveRegister(c)
      PROVE  Goal
  <2>1. run'.op = "register" /\ run'.client = c
    BY <1>5 DEF ReceiveRegister, Holding
  <2>2. read[c] = "off" /\ ~closed[c] /\ c \notin clients
    BY <1>5 DEF ReceiveRegister, ClientControl
  <2>3. serve'[c] = "start" /\ \A d \in Clients : d # c => serve'[d] = serve[d]
    BY <1>5 DEF ReceiveRegister, TypeOK
  <2> QED
    BY <1>5, <2>1, <2>2, <2>3 DEF ReceiveRegister, RunControl, ClientControl, chanVars
<1>6. ASSUME NEW c \in Clients, ReceiveUnregister(c)
      PROVE  Goal
  <2>1. run'.op = "unregister" /\ run'.client = c
    BY <1>6 DEF ReceiveUnregister, Holding
  <2>2. read'[c] = "close" /\ \A d \in Clients : d # c => read'[d] = read[d]
    BY <1>6 DEF ReceiveUnregister, TypeOK
  <2>3. serve[c] \notin {"new", "register", "start"}
    BY <1>6 DEF ReceiveUnregister, ClientControl
  <2> QED
    BY <1>6, <2>1, <2>2, <2>3 DEF ReceiveUnregister, RunControl, ClientControl, chanVars
<1>7. ASSUME NEW c \in Clients, ServeWs(c) \/ Start(c) \/ ReadRejects(c) \/ ReadFails(c)
                                \/ ReadReturns(c)
      PROVE  Goal
  <2>1. UNCHANGED <<clients, run, closed>>
    BY <1>7 DEF ServeWs, Start, ReadRejects, ReadFails, ReadReturns, hubVars, chanVars
  <2>2. \A d \in Clients : d # c => serve'[d] = serve[d] /\ read'[d] = read[d]
    BY <1>7 DEF ServeWs, Start, ReadRejects, ReadFails, ReadReturns, TypeOK
  <2>3. ClientControl(c)'
    <3>1. CASE ServeWs(c)
      BY <2>1, <3>1 DEF ServeWs, TypeOK, ClientControl
    <3>2. CASE Start(c)
      BY <2>1, <3>2 DEF Start, TypeOK, ClientControl
    <3>3. CASE ReadRejects(c)
      BY <2>1, <3>3 DEF ReadRejects, TypeOK, ClientControl
    <3>4. CASE ReadFails(c)
      BY <2>1, <3>4 DEF ReadFails, TypeOK, ClientControl
    <3>5. CASE ReadReturns(c)
      BY <2>1, <3>5 DEF ReadReturns, TypeOK, ClientControl
    <3> QED
      BY <1>7, <3>1, <3>2, <3>3, <3>4, <3>5
  <2> QED
    BY <2>1, <2>2, <2>3 DEF RunControl, ClientControl
<1>8. CASE UNCHANGED <<clients, run, serve, read, closed>>
  BY <1>8 DEF RunControl, ClientControl
<1>9. ASSUME NEW c \in Clients, handleMessage(c) \/ WritePump(c) \/ ConnBreaks(c)
      PROVE  UNCHANGED <<clients, run, serve, read, closed>>
  BY <1>9 DEF handleMessage, WritePump, WriteFrame, WriteFails, WriteReturns, ConnBreaks,
              hubVars, pumpVars, chanVars
<1>10. ASSUME NEW p \in Publishers, Enqueue(p) \/ \E t \in Targets : Publish(p, t)
       PROVE  UNCHANGED <<clients, run, serve, read, closed>>
  BY <1>10 DEF Enqueue, Publish, hubVars, pumpVars, chanVars
<1>11. UNCHANGED vars => UNCHANGED <<clients, run, serve, read, closed>>
  BY DEF vars
<1> HIDE DEF Goal
<1> QED
  BY <1>1, <1>2, <1>3, <1>4, <1>5, <1>6, <1>7, <1>8, <1>9, <1>10, <1>11 DEF Next, Process

LEMMA NextControl == ControlInv /\ [Next]_vars => ControlInv'
BY NextTypes, NextIndex, NextNoPanic, NextClients DEF ControlInv, HubConsistent

----------------------------------------------------------------------------
(* What is done to a console's buffer keeps its order. *)

LEMMA DeliveredMore ==
    ASSUME NEW c \in Clients, NEW w \in Seq(Message), NEW s \in Seq(Message), NEW E, NEW F,
           Delivered(c, w, s, E), E \subseteq F
    PROVE  Delivered(c, w, s, F)
BY DEF Delivered

\* A message later than all those of E is queued or dropped.
LEMMA DeliveredOffer ==
    ASSUME NEW c \in Clients, NEW w \in Seq(Message), NEW s \in Seq(Message),
           Len(s) <= BufferSize, NEW E, NEW m \in Message,
           Delivered(c, w, s, E), 0 < m.n, Addressed(c, m), m \in E,
           \A j \in 1 .. Len(w) : w[j].n < m.n,
           \A j \in 1 .. Len(s) : s[j] # Pong => s[j].n < m.n
    PROVE  Delivered(c, w, Offer(s, m), E)
<1> DEFINE t == Offer(s, m)
<1>1. /\ \A j \in 1 .. Len(t) : j \in 1 .. Len(s) \/ (j = Len(s) + 1 /\ t[j] = m)
      /\ \A j \in 1 .. Len(s) : t[j] = s[j]
  BY OfferResult
<1>2. Len(s) \in Nat
  OBVIOUS
<1> HIDE DEF t
<1>3. \A j \in 1 .. Len(t) :
          t[j] # Pong => 0 < t[j].n /\ Addressed(c, t[j]) /\ t[j] \in E
  BY <1>1 DEF Delivered
<1>4. \A j, k \in 1 .. Len(t) :
          j < k /\ t[j] # Pong /\ t[k] # Pong => t[j].n < t[k].n
  BY <1>1, <1>2 DEF Delivered
<1>5. \A j \in 1 .. Len(w), k \in 1 .. Len(t) : t[k] # Pong => w[j].n < t[k].n
  BY <1>1 DEF Delivered
<1> QED
  BY <1>3, <1>4, <1>5 DEF Delivered, t

\* The answer to a ping is queued or dropped.
LEMMA DeliveredPong ==
    ASSUME NEW c \in Clients, NEW w \in Seq(Message), NEW s \in Seq(Message),
           Len(s) <= BufferSize, NEW E, Delivered(c, w, s, E)
    PROVE  Delivered(c, w, Offer(s, Pong), E)
<1> DEFINE t == Offer(s, Pong)
<1>1. /\ \A j \in 1 .. Len(t) : j \in 1 .. Len(s) \/ t[j] = Pong
      /\ \A j \in 1 .. Len(s) : t[j] = s[j]
  BY OfferResult, PongIsMessage
<1> HIDE DEF t
<1> QED
  BY <1>1 DEF Delivered, t

LEMMA DeliveredTail ==
    ASSUME NEW c \in Clients, NEW w \in Seq(Message), NEW s \in Seq(Message), s # <<>>,
           NEW E, Delivered(c, w, s, E)
    PROVE  Delivered(c, w, Tail(s), E)
<1> DEFINE t == Tail(s)
<1>1. \A j \in 1 .. Len(t) : j + 1 \in 1 .. Len(s) /\ t[j] = s[j + 1]
  OBVIOUS
<1>2. Len(t) \in Nat
  OBVIOUS
<1> HIDE DEF t
<1>3. \A j \in 1 .. Len(t) :
          t[j] # Pong => 0 < t[j].n /\ Addressed(c, t[j]) /\ t[j] \in E
  BY <1>1 DEF Delivered
<1>4. \A j, k \in 1 .. Len(t) :
          j < k /\ t[j] # Pong /\ t[k] # Pong => t[j].n < t[k].n
  <2> TAKE j, k \in 1 .. Len(t)
  <2>1. j + 1 \in 1 .. Len(s) /\ k + 1 \in 1 .. Len(s) /\ (j < k => j + 1 < k + 1)
    BY <1>1, <1>2
  <2> QED
    BY <1>1, <2>1 DEF Delivered
<1>5. \A j \in 1 .. Len(w), k \in 1 .. Len(t) : t[k] # Pong => w[j].n < t[k].n
  BY <1>1 DEF Delivered
<1> QED
  BY <1>3, <1>4, <1>5 DEF Delivered, t

LEMMA DeliveredNothing ==
    ASSUME NEW c \in Clients, NEW w \in Seq(Message), NEW s \in Seq(Message),
           NEW E, Delivered(c, w, s, E)
    PROVE  Delivered(c, w, <<>>, E)
<1>1. 1 .. Len(<<>>) = {}
  OBVIOUS
<1> QED
  BY <1>1 DEF Delivered

\* A frame takes the events of the buffer, in their order, and leaves nothing.
LEMMA DeliveredFrame ==
    ASSUME NEW c \in Clients, NEW w \in Seq(Message), NEW s \in Seq(Message),
           NEW E, Delivered(c, w, s, E)
    PROVE  w \o Events(s) \in Seq(Message) /\ Delivered(c, w \o Events(s), <<>>, E)
<1> DEFINE e == Events(s)
           v == w \o e
<1>1. e \in Seq(Message) /\ Leaves(s, {Pong}, Len(s), e)
  BY WithoutLeaves DEF Events
<1> HIDE DEF e
<1>2. /\ v \in Seq(Message) /\ Len(v) = Len(w) + Len(e)
      /\ Len(w) \in Nat /\ Len(e) \in Nat
      /\ \A j \in 1 .. Len(w) : v[j] = w[j]
      /\ \A j \in 1 .. Len(v) : j \notin 1 .. Len(w) =>
             j - Len(w) \in 1 .. Len(e) /\ v[j] = e[j - Len(w)]
  BY <1>1
<1> HIDE DEF v
<1>3. \A a \in 1 .. Len(e) : \E j \in 1 .. Len(s) : s[j] = e[a] /\ s[j] # Pong
  BY <1>1 DEF Leaves
<1>4. \A a \in 1 .. Len(e) : 0 < e[a].n /\ Addressed(c, e[a]) /\ e[a] \in E
  BY <1>3 DEF Delivered
<1>5. \A a, b \in 1 .. Len(e) : a < b => e[a].n < e[b].n
  <2> TAKE a, b \in 1 .. Len(e)
  <2> HAVE a < b
  <2>1. PICK j, k \in 1 .. Len(s) : j < k /\ s[j] = e[a] /\ s[k] = e[b]
    BY <1>1 DEF Leaves
  <2>2. s[j] # Pong /\ s[k] # Pong
    BY <1>1, <2>1 DEF Leaves
  <2> QED
    BY <2>1, <2>2 DEF Delivered
<1>6. \A j \in 1 .. Len(w), a \in 1 .. Len(e) : w[j].n < e[a].n
  BY <1>3 DEF Delivered
<1>7. \A j \in 1 .. Len(v) : 0 < v[j].n /\ Addressed(c, v[j]) /\ v[j] \in E
  BY <1>2, <1>4 DEF Delivered
<1>8. \A j, k \in 1 .. Len(v) : j < k => v[j].n < v[k].n
  <2> TAKE j, k \in 1 .. Len(v)
  <2> HAVE j < k
  <2>1. CASE k \in 1 .. Len(w)
    <3>1. j \in 1 .. Len(w)
      BY <1>2, <2>1
    <3> QED
      BY <1>2, <2>1, <3>1 DEF Delivered
  <2>2. CASE k \notin 1 .. Len(w) /\ j \in 1 .. Len(w)
    BY <1>2, <1>6, <2>2
  <2>3. CASE k \notin 1 .. Len(w) /\ j \notin 1 .. Len(w)
    <3>1. j - Len(w) < k - Len(w)
      BY <1>2
    <3> QED
      BY <1>2, <1>5, <2>3, <3>1
  <2> QED
    BY <2>1, <2>2, <2>3
<1>9. 1 .. Len(<<>>) = {}
  OBVIOUS
<1> QED
  BY <1>2, <1>7, <1>8, <1>9 DEF Delivered, v, e

----------------------------------------------------------------------------
(* The order invariant. *)

LEMMA InitOrder == Init => QueueOrder /\ \A c \in Clients : ClientOrder(c)
<1> SUFFICES ASSUME Init PROVE QueueOrder /\ \A c \in Clients : ClientOrder(c)
  OBVIOUS
<1>1. 1 .. Len(<<>>) = {}
  OBVIOUS
<1>2. QueueOrder
  BY <1>1, RunStates DEF Init, QueueOrder
<1>3. \A c \in Clients : ClientOrder(c)
  BY <1>1 DEF Init, ClientOrder, Delivered
<1> QED
  BY <1>2, <1>3

\* A step publishes, or hands the head of the queue to Run, or changes neither the
\* queue nor what Run is delivering, except that it ends the delivery.
HubKept ==
    /\ UNCHANGED <<broadcast, published>>
    /\ run' = run \/ run'.op # "broadcast"

LEMMA HubSteps ==
    ASSUME [Next]_vars
    PROVE  \/ \E p \in Publishers : Enqueue(p)
           \/ ReceiveBroadcast
           \/ HubKept
<1>1. CASE Process
  BY <1>1, RunStates DEF Process, registerClient, unregisterClient, broadcastMessage, HubKept
<1>2. ASSUME NEW c \in Clients, ReceiveRegister(c) \/ ReceiveUnregister(c)
      PROVE  HubKept
  BY <1>2 DEF ReceiveRegister, ReceiveUnregister, Holding, HubKept
<1>3. ASSUME NEW c \in Clients,
             \/ ServeWs(c) \/ Start(c) \/ handleMessage(c) \/ ReadRejects(c) \/ ReadFails(c)
             \/ ReadReturns(c) \/ WritePump(c) \/ ConnBreaks(c)
      PROVE  HubKept
  BY <1>3 DEF ServeWs, Start, handleMessage, ReadRejects, ReadFails, ReadReturns, WritePump,
              WriteFrame, WriteFails, WriteReturns, ConnBreaks, hubVars, HubKept
<1>4. ASSUME NEW p \in Publishers, NEW t \in Targets, Publish(p, t)
      PROVE  HubKept
  BY <1>4 DEF Publish, hubVars, HubKept
<1>5. UNCHANGED vars => HubKept
  BY DEF vars, HubKept
<1> QED
  BY <1>1, <1>2, <1>3, <1>4, <1>5 DEF Next

LEMMA EnqueueResult ==
    ASSUME TypeOK, NEW p \in Publishers, Enqueue(p)
    PROVE  /\ Len(broadcast') = Len(broadcast) + 1 /\ Len(broadcast) \in Nat
           /\ published' = published + 1 /\ published \in Nat
           /\ \A i \in 1 .. Len(broadcast) : broadcast'[i] = broadcast[i]
           /\ broadcast'[Len(broadcast) + 1].n = published + 1
           /\ run' = run
<1>1. pub[p] \in Targets /\ published + 1 \in Nat
  BY DEF TypeOK, Enqueue
<1> DEFINE m == [n |-> published + 1, to |-> pub[p]]
<1>2. m \in Message /\ m.n = published + 1
  BY <1>1 DEF Message
<1> HIDE DEF m
<1>3. broadcast' = Append(broadcast, m)
  BY DEF Enqueue, m
<1> QED
  BY <1>2, <1>3 DEF TypeOK, Enqueue

LEMMA ReceiveResult ==
    ASSUME TypeOK, ReceiveBroadcast
    PROVE  /\ Len(broadcast') = Len(broadcast) - 1 /\ Len(broadcast) \in Nat \ {0}
           /\ \A i \in 1 .. Len(broadcast') :
                  i + 1 \in 1 .. Len(broadcast) /\ broadcast'[i] = broadcast[i + 1]
           /\ run'.msg = broadcast[1]
           /\ published' = published
BY DEF TypeOK, ReceiveBroadcast, Holding

LEMMA NextQueue ==
    ASSUME HubInv, [Next]_vars
    PROVE  QueueOrder'
<1> USE DEF HubInv, ControlInv, HubConsistent
<1>0. \A i \in 1 .. Len(broadcast) : broadcast[i].n \in Nat
  <2>1. \A i \in 1 .. Len(broadcast) : broadcast[i] \in Message
    BY DEF TypeOK
  <2> QED
    BY <2>1 DEF Message
<1>1. ASSUME NEW p \in Publishers, Enqueue(p)
      PROVE  QueueOrder'
  <2>1. \A i \in 1 .. Len(broadcast') : i \in 1 .. Len(broadcast) \/ i = Len(broadcast) + 1
    BY <1>1, EnqueueResult
  <2>2. run.msg.n \in Nat
    BY DEF TypeOK, RunState, Message
  <2>3. \A i \in 1 .. Len(broadcast') : 0 < broadcast'[i].n /\ broadcast'[i].n <= published'
    BY <1>0, <1>1, <2>1, EnqueueResult DEF QueueOrder
  <2>4. ASSUME NEW i \in 1 .. Len(broadcast'), NEW j \in 1 .. Len(broadcast'), i < j
        PROVE  broadcast'[i].n < broadcast'[j].n
    <3>1. i \in 1 .. Len(broadcast)
      BY <1>1, <2>4, EnqueueResult
    <3>2. CASE j \in 1 .. Len(broadcast)
      BY <1>1, <2>4, <3>1, <3>2, EnqueueResult DEF QueueOrder
    <3>3. CASE j = Len(broadcast) + 1
      <4>1. broadcast'[i] = broadcast[i] /\ broadcast'[j].n = published + 1
        BY <1>1, <3>1, <3>3, EnqueueResult
      <4>2. broadcast[i].n <= published /\ broadcast[i].n \in Nat /\ published \in Nat
        BY <1>0, <1>1, <3>1, EnqueueResult DEF QueueOrder
      <4> QED
        BY <4>1, <4>2
    <3> QED
      BY <2>1, <3>2, <3>3
  <2>5. run'.op = "broadcast" =>
          /\ 0 < run'.msg.n /\ run'.msg.n <= published'
          /\ \A i \in 1 .. Len(broadcast') : run'.msg.n < broadcast'[i].n
    BY <1>1, <2>1, <2>2, EnqueueResult DEF QueueOrder
  <2> QED
    BY <2>3, <2>4, <2>5 DEF QueueOrder
<1>2. CASE ReceiveBroadcast
  <2>1. 1 \in 1 .. Len(broadcast) /\ Len(broadcast') \in Nat
    BY <1>2, ReceiveResult
  <2>2. \A i \in 1 .. Len(broadcast') : 0 < broadcast'[i].n /\ broadcast'[i].n <= published'
    BY <1>2, ReceiveResult DEF QueueOrder
  <2>3. \A i, j \in 1 .. Len(broadcast') : i < j => broadcast'[i].n < broadcast'[j].n
    <3> TAKE i, j \in 1 .. Len(broadcast')
    <3>1. i < j => i + 1 < j + 1
      BY <2>1
    <3> QED
      BY <1>2, <3>1, ReceiveResult DEF QueueOrder
  <2>4. \A i \in 1 .. Len(broadcast') : broadcast[1].n < broadcast'[i].n
    <3> TAKE i \in 1 .. Len(broadcast')
    <3>1. 1 < i + 1
      BY <2>1
    <3> QED
      BY <1>2, <2>1, <3>1, ReceiveResult DEF QueueOrder
  <2>5. 0 < run'.msg.n /\ run'.msg.n <= published'
    BY <1>2, <2>1, ReceiveResult DEF QueueOrder
  <2>6. \A i \in 1 .. Len(broadcast') : run'.msg.n < broadcast'[i].n
    BY <1>2, <2>4, ReceiveResult
  <2> QED
    BY <2>2, <2>3, <2>5, <2>6 DEF QueueOrder
<1>3. CASE HubKept
  BY <1>3 DEF HubKept, QueueOrder
<1> QED
  BY <1>1, <1>2, <1>3, HubSteps

\* What is past remains past.
LEMMA PastGrows ==
    ASSUME HubInv, [Next]_vars
    PROVE  Past \subseteq Past'
<1> USE DEF HubInv, ControlInv, HubConsistent
<1> SUFFICES ASSUME NEW m \in Past PROVE m \in Past'
  OBVIOUS
<1>0. /\ m \in Message /\ m.n \in Nat /\ m.n <= published
      /\ run.op = "broadcast" => m.n < run.msg.n
      /\ \A i \in 1 .. Len(broadcast) : m.n < broadcast[i].n
  BY DEF Past, Message
<1>1. ASSUME NEW p \in Publishers, Enqueue(p)
      PROVE  m \in Past'
  <2>1. \A i \in 1 .. Len(broadcast') : i \in 1 .. Len(broadcast) \/ i = Len(broadcast) + 1
    BY <1>1, EnqueueResult
  <2>2. m.n <= published' /\ (run'.op = "broadcast" => m.n < run'.msg.n)
    BY <1>0, <1>1, EnqueueResult
  <2>3. \A i \in 1 .. Len(broadcast') : m.n < broadcast'[i].n
    BY <1>0, <1>1, <2>1, EnqueueResult
  <2> QED
    BY <1>0, <2>2, <2>3 DEF Past
<1>2. CASE ReceiveBroadcast
  <2>1. 1 \in 1 .. Len(broadcast)
    BY <1>2, ReceiveResult
  <2>2. m.n <= published' /\ m.n < run'.msg.n
    BY <1>0, <1>2, <2>1, ReceiveResult
  <2>3. \A i \in 1 .. Len(broadcast') : m.n < broadcast'[i].n
    BY <1>0, <1>2, ReceiveResult
  <2> QED
    BY <1>0, <2>2, <2>3 DEF Past
<1>3. CASE HubKept
  BY <1>0, <1>3 DEF HubKept, Past
<1> QED
  BY <1>1, <1>2, <1>3, HubSteps

\* The message Run is delivering is past once it is delivered.
LEMMA BroadcastPast ==
    ASSUME HubInv, broadcastMessage
    PROVE  /\ run.msg \in Message /\ 0 < run.msg.n
           /\ \A m \in Past : m.n < run.msg.n
           /\ run.msg \in Past'
<1>1. run.msg \in Message /\ 0 < run.msg.n /\ run.msg.n <= published
      /\ \A i \in 1 .. Len(broadcast) : run.msg.n < broadcast[i].n
  BY DEF HubInv, ControlInv, HubConsistent, TypeOK, RunState, QueueOrder, broadcastMessage
<1>2. \A m \in Past : m.n < run.msg.n
  BY DEF Past, broadcastMessage
<1>3. run'.op # "broadcast" /\ UNCHANGED <<published, broadcast>>
  BY RunStates DEF broadcastMessage
<1> QED
  BY <1>1, <1>2, <1>3 DEF Past

LEMMA NextOrder ==
    ASSUME HubInv, [Next]_vars, NEW c \in Clients
    PROVE  ClientOrder(c)'
<1> USE DEF HubInv, ControlInv, HubConsistent
<1>0. /\ written[c] \in Seq(Message) /\ send[c] \in Seq(Message)
      /\ Len(send[c]) <= BufferSize
      /\ Delivered(c, written[c], send[c], Past')
  <2>1. written[c] \in Seq(Message) /\ send[c] \in Seq(Message) /\ Len(send[c]) <= BufferSize
    BY DEF TypeOK
  <2>2. Delivered(c, written[c], send[c], Past)
    BY DEF ClientOrder
  <2> QED
    BY <2>1, <2>2, PastGrows, DeliveredMore
<1> SUFFICES Delivered(c, written'[c], send'[c], Past')
  BY DEF ClientOrder
<1>1. CASE broadcastMessage
  <2> DEFINE m == run.msg
             recipients == IF m.to = "everyone" THEN clients ELSE userClients[m.to]
  <2>1. written'[c] = written[c]
        /\ send'[c] = IF c \in recipients THEN Offer(send[c], m) ELSE send[c]
    BY <1>1 DEF broadcastMessage
  <2>2. CASE c \in recipients
    <3>1. Addressed(c, m)
      <4>1. m.to \in Users \cup {"everyone"}
        BY DEF TypeOK, RunState, Message, Targets
      <4> QED
        BY <2>2, <4>1 DEF IndexConsistent, Addressed
    <3>2. /\ \A j \in 1 .. Len(written[c]) : written[c][j].n < m.n
          /\ \A j \in 1 .. Len(send[c]) : send[c][j] # Pong => send[c][j].n < m.n
      BY <1>1, BroadcastPast DEF ClientOrder, Delivered
    <3>3. m \in Message /\ 0 < m.n /\ m \in Past'
      BY <1>1, BroadcastPast
    <3> HIDE DEF m
    <3> QED
      BY <1>0, <2>1, <2>2, <3>1, <3>2, <3>3, DeliveredOffer
  <2>3. CASE c \notin recipients
    BY <1>0, <2>1, <2>3
  <2> QED
    BY <2>2, <2>3
<1>2. ASSUME NEW d \in Clients, handleMessage(d)
      PROVE  Delivered(c, written'[c], send'[c], Past')
  <2>1. written'[c] = written[c]
        /\ send'[c] = IF c = d THEN Offer(send[c], Pong) ELSE send[c]
    BY <1>2 DEF handleMessage, TypeOK
  <2> QED
    BY <1>0, <2>1, DeliveredPong
<1>3. ASSUME NEW d \in Clients, WriteFrame(d)
      PROVE  Delivered(c, written'[c], send'[c], Past')
  <2>1. CASE c = d
    <3>1. written'[c] = written[c] \o Events(send[c]) /\ send'[c] = <<>>
      BY <1>3, <2>1 DEF WriteFrame, TypeOK
    <3> QED
      BY <1>0, <3>1, DeliveredFrame
  <2>2. CASE c # d
    <3>1. written'[c] = written[c] /\ send'[c] = send[c]
      BY <1>3, <2>2 DEF WriteFrame, TypeOK
    <3> QED
      BY <1>0, <3>1
  <2> QED
    BY <2>1, <2>2
<1>4. ASSUME NEW d \in Clients, WriteFails(d)
      PROVE  Delivered(c, written'[c], send'[c], Past')
  <2>1. /\ written'[c] = written[c]
        /\ \/ send'[c] = send[c]
           \/ send[c] # <<>> /\ send'[c] = Tail(send[c])
           \/ send'[c] = <<>>
    BY <1>4 DEF WriteFails, TypeOK
  <2> QED
    BY <1>0, <2>1, DeliveredTail, DeliveredNothing
<1>5. CASE UNCHANGED <<written, send>>
  BY <1>0, <1>5
<1>6. ASSUME NEW d \in Clients,
             \/ ReceiveRegister(d) \/ ReceiveUnregister(d) \/ ServeWs(d) \/ Start(d)
             \/ ReadRejects(d) \/ ReadFails(d) \/ ReadReturns(d) \/ WriteReturns(d)
             \/ ConnBreaks(d)
      PROVE  UNCHANGED <<written, send>>
  BY <1>6 DEF ReceiveRegister, ReceiveUnregister, ServeWs, Start, ReadRejects, ReadFails,
              ReadReturns, WriteReturns, ConnBreaks, chanVars
<1>7. ASSUME NEW p \in Publishers, Enqueue(p) \/ \E t \in Targets : Publish(p, t)
      PROVE  UNCHANGED <<written, send>>
  BY <1>7 DEF Enqueue, Publish, chanVars
<1>8. ReceiveBroadcast \/ registerClient \/ unregisterClient \/ UNCHANGED vars
      => UNCHANGED <<written, send>>
  BY DEF ReceiveBroadcast, registerClient, unregisterClient, chanVars, vars
<1> QED
  BY <1>1, <1>2, <1>3, <1>4, <1>5, <1>6, <1>7, <1>8 DEF Next, Process, WritePump

----------------------------------------------------------------------------
(* The theorems. *)

LEMMA HubInvariant == Spec => []HubInv
<1>1. Init => HubInv
  BY InitControl, InitOrder DEF HubInv
<1>2. HubInv /\ [Next]_vars => HubInv'
  BY NextControl, NextQueue, NextOrder DEF HubInv
<1> QED
  BY <1>1, <1>2, PTL DEF Spec

\* No send on a closed channel and no second close, whatever the order in which
\* ServeWs, Run and the pumps of any number of consoles run (registerClient,
\* unregisterClient, broadcastMessage, handleMessage).
THEOREM NeverPanics == Spec => []NoChannelPanic
<1>1. HubInv => NoChannelPanic
  BY DEF HubInv, ControlInv
<1> QED
  BY <1>1, HubInvariant, PTL

\* The hub's tables have their types, buffers and queues keep to their limits, and
\* h.userClients is exactly h.clients indexed by SID.
THEOREM IndexExact == Spec => []HubConsistent
<1>1. HubInv => HubConsistent
  BY DEF HubInv, ControlInv
<1> QED
  BY <1>1, HubInvariant, PTL

\* A console gets what is addressed to it, in the order of publication and once,
\* whatever a full buffer drops and a failing connection loses (broadcastMessage,
\* writePump).
THEOREM DeliversExactly == Spec => []DeliveryExact
<1>1. ASSUME HubInv PROVE DeliveryExact
  <2>1. ASSUME NEW c \in Clients
        PROVE  LET seen == written[c] \o Events(send[c])
               IN  /\ \A j, k \in DOMAIN seen : j < k => seen[j].n < seen[k].n
                   /\ \A k \in DOMAIN seen : Addressed(c, seen[k])
    <3> DEFINE seen == written[c] \o Events(send[c])
    <3>1. seen \in Seq(Message) /\ Delivered(c, seen, <<>>, Past)
      <4>1. /\ written[c] \in Seq(Message) /\ send[c] \in Seq(Message)
            /\ Delivered(c, written[c], send[c], Past)
        BY <1>1 DEF HubInv, ControlInv, HubConsistent, TypeOK, ClientOrder
      <4> QED
        BY <4>1, DeliveredFrame
    <3> HIDE DEF seen
    <3>2. DOMAIN seen = 1 .. Len(seen)
      BY <3>1
    <3>3. /\ \A j, k \in DOMAIN seen : j < k => seen[j].n < seen[k].n
          /\ \A k \in DOMAIN seen : Addressed(c, seen[k])
      BY <3>1, <3>2 DEF Delivered
    <3> QED
      BY <3>3 DEF seen
  <2> QED
    BY <2>1 DEF DeliveryExact, OrderedDelivery, DirectedDelivery
<1> QED
  BY <1>1, HubInvariant, PTL

=============================================================================
