---------------------------- MODULE WebSocketHub ----------------------------
(***************************************************************************)
(* The WebSocket server of the operator (internal/websocket): reconcilers  *)
(* broadcast events, one goroutine fans them out to the subscribed         *)
(* clients, and every client has a goroutine that reads its requests and   *)
(* answers them and one that writes to its connection.  All of them meet   *)
(* in bounded channels: s.broadcast and, per client, c.send.               *)
(*                                                                         *)
(* clientsMu is held by the fan-out while it runs, so nobody registers or  *)
(* leaves meanwhile; subsMu makes the look at a subscription and the offer *)
(* that follows one step.                                                  *)
(***************************************************************************)
EXTENDS Naturals, Sequences

CONSTANTS Clients,        \* connections, each used once
          Topics,         \* what events are about
          Asks,           \* the requests each client may make, [type, topic]
          Leavers,        \* the clients whose peer may vanish
          SendChannelSize,
          BroadcastChanSize,
          MaxAsks,        \* bound: requests read from each client
          MaxEvents       \* bound: events broadcast

ASSUME SizesPositive == SendChannelSize \in Nat \ {0} /\ BroadcastChanSize \in Nat \ {0}
ASSUME BoundsNatural == MaxAsks \in [Clients -> Nat] /\ MaxEvents \in Nat
ASSUME AsksTyped ==
    Asks \in [Clients -> SUBSET ([type : {"subscribe", "unsubscribe"}, topic : Topics]
                                 \cup [type : {"request", "other"}, topic : {"listed", "unlisted"}])]

VARIABLES
    conn,           \* of each client: "none", "open", "gone" (the peer is), "closed" (by us)
    clients,        \* Server.clients
    subscriptions,  \* Client.subscriptions
    send,           \* Client.send
    reader,         \* readPump: "off", "reading", "answering", "leaving", "done"
    answer,         \* what an answering readPump is about to send
    writer,         \* writePump: "off", "running", "done"
    broadcast,      \* Server.broadcast
    fan,            \* handleBroadcast: the event at work and the clients still to be offered it
    hub,            \* "running", "stopping" (done is closed), "done" (handleBroadcast returned)
    count,          \* events broadcast so far
    asked, seen     \* history: the requests read from each client, and what it was sent of Recorded

perClient == <<conn, subscriptions, send, reader, answer, writer, asked, seen>>
server == <<clients, broadcast, fan, hub, count>>
vars == <<perClient, server>>

Message == [kind : {"event", "subscribed", "unsubscribed", "response", "error"},
            topic : Topics \cup {"none"}, ref : Nat]

Recorded == {"event", "unsubscribed"}

NoMessage == [kind |-> "none", topic |-> "none", ref |-> 0]
Idle == [msg |-> NoMessage, rest |-> {}]

Init ==
    /\ conn = [c \in Clients |-> "none"]
    /\ clients = {}
    /\ subscriptions = [c \in Clients |-> {}]
    /\ send = [c \in Clients |-> << >>]
    /\ reader = [c \in Clients |-> "off"]
    /\ answer = [c \in Clients |-> NoMessage]
    /\ writer = [c \in Clients |-> "off"]
    /\ broadcast = << >>
    /\ fan = Idle
    /\ hub = "running"
    /\ count = 0
    /\ asked = [c \in Clients |-> << >>]
    /\ seen = [c \in Clients |-> << >>]

-----------------------------------------------------------------------------
(***************************************************************************)
(* The server.                                                             *)
(***************************************************************************)
\* An upgraded connection; the lock waits for a fan-out to end.
handleWebSocket(c) ==
    /\ conn[c] = "none"
    /\ fan = Idle
    /\ conn' = [conn EXCEPT ![c] = "open"]
    /\ clients' = clients \cup {c}
    /\ reader' = [reader EXCEPT ![c] = "reading"]
    /\ writer' = [writer EXCEPT ![c] = "running"]
    /\ UNCHANGED <<subscriptions, send, answer, broadcast, fan, hub, count, asked, seen>>

\* A reconciler reports; it never waits, and a full channel costs it the event.
Broadcast(t) ==
    /\ count < MaxEvents
    /\ count' = count + 1
    /\ broadcast' = IF Len(broadcast) < BroadcastChanSize
                    THEN Append(broadcast, [kind |-> "event", topic |-> t, ref |-> count'])
                    ELSE broadcast
    /\ UNCHANGED <<perClient, clients, fan, hub>>

\* handleBroadcast receives an event, and locks the map of clients.
handleBroadcast ==
    /\ hub # "done"
    /\ fan = Idle
    /\ broadcast # << >>
    /\ broadcast' = Tail(broadcast)
    /\ fan' = IF clients = {} THEN Idle ELSE [msg |-> Head(broadcast), rest |-> clients]
    /\ UNCHANGED <<perClient, clients, hub, count>>

AfterOffer(c) == IF fan.rest = {c} THEN Idle ELSE [fan EXCEPT !.rest = @ \ {c}]

\* Mutant: the send blocks until the client has room.
Offer_Blocks(c) ==
    /\ c \in fan.rest
    /\ fan.msg.topic \in subscriptions[c] => Len(send[c]) < SendChannelSize
    /\ send' = IF fan.msg.topic \in subscriptions[c]
               THEN [send EXCEPT ![c] = Append(@, fan.msg)]
               ELSE send
    /\ fan' = AfterOffer(c)
    /\ UNCHANGED <<conn, subscriptions, reader, answer, writer, asked, seen,
                   clients, broadcast, hub, count>>

\* One client of the range loop: it is skipped when its buffer is full.
Offer(c) ==
    /\ c \in fan.rest
    /\ send' = IF fan.msg.topic \in subscriptions[c] /\ Len(send[c]) < SendChannelSize
               THEN [send EXCEPT ![c] = Append(@, fan.msg)]
               ELSE send
    /\ fan' = AfterOffer(c)
    /\ UNCHANGED <<conn, subscriptions, reader, answer, writer, asked, seen,
                   clients, broadcast, hub, count>>

\* The context of Start is cancelled.  Hijacked connections are left as they are.
Stop ==
    /\ hub = "running"
    /\ hub' = "stopping"
    /\ UNCHANGED <<perClient, clients, broadcast, fan, count>>

\* The select takes the done case, with or without events left in the channel.
StopBroadcast ==
    /\ hub = "stopping"
    /\ fan = Idle
    /\ hub' = "done"
    /\ UNCHANGED <<perClient, clients, broadcast, fan, count>>

-----------------------------------------------------------------------------
(***************************************************************************)
(* readPump.                                                               *)
(***************************************************************************)
Read(c, a) ==
    /\ reader[c] = "reading"
    /\ conn[c] \in {"open", "gone"}     \* a request may outlive its sender
    /\ Len(asked[c]) < MaxAsks[c]
    /\ asked' = [asked EXCEPT ![c] = Append(@, a)]

Answering(c, kind, topic) ==
    /\ reader' = [reader EXCEPT ![c] = "answering"]
    /\ answer' = [answer EXCEPT ![c] = [kind |-> kind, topic |-> topic,
                                        ref |-> IF kind = "error" THEN 0 ELSE Len(asked'[c])]]

handleSubscribe(c, a) ==
    /\ a.type = "subscribe"
    /\ subscriptions' = [subscriptions EXCEPT ![c] = @ \cup {a.topic}]
    /\ Answering(c, "subscribed", a.topic)

\* Mutant: the confirmation does not end the subscription.
handleUnsubscribe_KeepsTopic(c, a) ==
    /\ a.type = "unsubscribe"
    /\ Answering(c, "unsubscribed", a.topic)
    /\ UNCHANGED subscriptions

handleUnsubscribe(c, a) ==
    /\ a.type = "unsubscribe"
    /\ subscriptions' = [subscriptions EXCEPT ![c] = @ \ {a.topic}]
    /\ Answering(c, "unsubscribed", a.topic)

\* A list of objects or the cluster's summary; the payload may not parse, the list
\* may fail, and there may be no such object.
handleList(c) == \E kind \in {"response", "error"} : Answering(c, kind, "none")

\* An unlisted topic, like an unknown type, is an error.
handleRequest(c, a) ==
    /\ a.type \in {"request", "other"}
    /\ \/ a = [type |-> "request", topic |-> "listed"] /\ handleList(c)
       \/ a # [type |-> "request", topic |-> "listed"] /\ Answering(c, "error", "none")
    /\ UNCHANGED subscriptions

handleMessage(c, a) ==
    /\ Read(c, a)
    /\ handleSubscribe(c, a) \/ handleUnsubscribe(c, a) \/ handleRequest(c, a)
    /\ UNCHANGED <<conn, send, writer, seen, server>>

\* c.send <- response blocks while the channel is full.
Answer(c) ==
    /\ reader[c] = "answering"
    /\ Len(send[c]) < SendChannelSize
    /\ send' = [send EXCEPT ![c] = Append(@, answer[c])]
    /\ answer' = [answer EXCEPT ![c] = NoMessage]
    /\ reader' = [reader EXCEPT ![c] = "reading"]
    /\ UNCHANGED <<conn, subscriptions, writer, asked, seen, server>>

\* The connection broke or was closed, or no pong came for readTimeout.
ReadFails(c) ==
    /\ reader[c] = "reading"
    /\ conn[c] \in {"gone", "closed"}
    /\ reader' = [reader EXCEPT ![c] = "leaving"]
    /\ UNCHANGED <<conn, subscriptions, send, answer, writer, asked, seen, server>>

\* Mutant: only the connection is closed.
Leave_StaysRegistered(c) ==
    /\ reader[c] = "leaving"
    /\ fan = Idle
    /\ reader' = [reader EXCEPT ![c] = "done"]
    /\ conn' = [conn EXCEPT ![c] = "closed"]
    /\ UNCHANGED <<subscriptions, send, answer, writer, asked, seen, server>>

\* The deferred function of readPump: the only place where a client is removed.
Leave(c) ==
    /\ reader[c] = "leaving"
    /\ fan = Idle
    /\ clients' = clients \ {c}
    /\ reader' = [reader EXCEPT ![c] = "done"]
    /\ conn' = [conn EXCEPT ![c] = "closed"]
    /\ UNCHANGED <<subscriptions, send, answer, writer, asked, seen, broadcast, fan, hub, count>>

-----------------------------------------------------------------------------
(***************************************************************************)
(* writePump.  What is written to a peer that is gone is lost, until the   *)
(* write deadline fails it.                                                *)
(***************************************************************************)
WriteMessage(c) ==
    /\ writer[c] = "running"
    /\ send[c] # << >>
    /\ conn[c] \in {"open", "gone"}
    /\ send' = [send EXCEPT ![c] = Tail(@)]
    /\ seen' = IF conn[c] = "open" /\ Head(send[c]).kind \in Recorded
               THEN [seen EXCEPT ![c] = Append(@, Head(send[c]))] ELSE seen
    /\ UNCHANGED <<conn, subscriptions, reader, answer, writer, asked, server>>

\* A write or a ping fails, and the connection is closed.
WriteFails(c) ==
    /\ writer[c] = "running"
    /\ conn[c] \in {"gone", "closed"}
    /\ \/ send[c] # << >> /\ send' = [send EXCEPT ![c] = Tail(@)]
       \/ UNCHANGED send                                            \* the ping
    /\ writer' = [writer EXCEPT ![c] = "done"]
    /\ conn' = [conn EXCEPT ![c] = "closed"]
    /\ UNCHANGED <<subscriptions, reader, answer, asked, seen, server>>

-----------------------------------------------------------------------------
\* The CLI ends, or the network loses it.
PeerGone(c) ==
    /\ c \in Leavers
    /\ conn[c] = "open"
    /\ conn' = [conn EXCEPT ![c] = "gone"]
    /\ UNCHANGED <<subscriptions, send, reader, answer, writer, asked, seen, server>>

Pumps(c) == Answer(c) \/ ReadFails(c) \/ Leave(c) \/ WriteMessage(c) \/ WriteFails(c)

Next ==
    \/ \E t \in Topics : Broadcast(t)
    \/ handleBroadcast
    \/ Stop \/ StopBroadcast
    \/ \E c \in Clients : \/ handleWebSocket(c) \/ Offer(c) \/ PeerGone(c) \/ Pumps(c)
                          \/ \E a \in Asks[c] : handleMessage(c, a)

(***************************************************************************)
(* The goroutines run when they can.  Peers owe nothing: they need not     *)
(* connect, ask or leave, and a context need not be cancelled.             *)
(***************************************************************************)
Fairness ==
    /\ WF_vars(handleBroadcast)
    /\ WF_vars(StopBroadcast)
    /\ \A c \in Clients : /\ WF_vars(Offer(c))
                          /\ WF_vars(Answer(c))
                          /\ WF_vars(ReadFails(c) \/ Leave(c))
                          /\ WF_vars(WriteMessage(c) \/ WriteFails(c))

Spec == Init /\ [][Next]_vars /\ Fairness

-----------------------------------------------------------------------------
TypeOK ==
    /\ conn \in [Clients -> {"none", "open", "gone", "closed"}]
    /\ clients \in SUBSET Clients
    /\ subscriptions \in [Clients -> SUBSET Topics]
    /\ reader \in [Clients -> {"off", "reading", "answering", "leaving", "done"}]
    /\ answer \in [Clients -> Message \cup {NoMessage}]
    /\ writer \in [Clients -> {"off", "running", "done"}]
    /\ send \in [Clients -> Seq(Message)]
    /\ \A c \in Clients : Len(send[c]) <= SendChannelSize
    /\ broadcast \in Seq(Message) /\ Len(broadcast) <= BroadcastChanSize
    /\ fan \in [msg : Message \cup {NoMessage}, rest : SUBSET clients]
    /\ fan = Idle <=> fan.rest = {}
    /\ hub \in {"running", "stopping", "done"}
    /\ count \in 0 .. MaxEvents
    /\ asked \in [Clients -> Seq(UNION {Asks[c] : c \in Clients})]
    /\ seen \in [Clients -> Seq(Message)]

\* A subscription the client asks for after its request number k.
Resubscribed(c, t, k) ==
    \E n \in (k + 1) .. Len(asked[c]) : asked[c][n] = [type |-> "subscribe", topic |-> t]

(***************************************************************************)
(* What a client sees of a topic: the events in the order in which they    *)
(* were broadcast, each once, and none after the confirmation that it      *)
(* unsubscribed unless it asked again since.  It rests on one goroutine    *)
(* doing the fan-out, on subsMu, and on the confirmation taking the same   *)
(* channel as the events (handleBroadcast, handleUnsubscribe, writePump).  *)
(***************************************************************************)
ClientView ==
    \A c \in Clients : \A i, j \in DOMAIN seen[c] :
        i < j /\ seen[c][j].kind = "event" =>
            /\ seen[c][i].kind = "event" => seen[c][i].ref < seen[c][j].ref
            /\ seen[c][i].kind = "unsubscribed" /\ seen[c][i].topic = seen[c][j].topic
                 => Resubscribed(c, seen[c][j].topic, seen[c][i].ref)

(***************************************************************************)
(* No client can hold up the events of the others: whatever the clients    *)
(* do, what was accepted for broadcasting is fanned out, unless the server *)
(* stops (the non-blocking send of handleBroadcast).                       *)
(***************************************************************************)
BroadcastFlows ==
    (broadcast # << >> \/ fan # Idle) ~> (broadcast = << >> /\ fan = Idle) \/ hub = "done"

\* readPump waits for room that nobody will make.
Stuck(c) ==
    /\ reader[c] = "answering"
    /\ writer[c] = "done"
    /\ Len(send[c]) = SendChannelSize

(***************************************************************************)
(* When its peer is gone, a client is removed from the map and both its    *)
(* goroutines end - except in exactly one case, the blocking send of an    *)
(* answer into a channel that was full when writePump returned.            *)
(***************************************************************************)
GoneIsReleased ==
    \A c \in Clients :
        conn[c] \in {"gone", "closed"}
            ~> \/ c \notin clients /\ reader[c] = "done" /\ writer[c] = "done"
               \/ Stuck(c)
=============================================================================
