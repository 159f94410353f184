------------------------------ MODULE HubProofs ------------------------------
(***************************************************************************)
(* Proofs about WebSocketHub, for all clients, topics, requests, channel   *)
(* sizes and any number of events.                                         *)
(***************************************************************************)
EXTENDS WebSocketHub, TLAPS

-----------------------------------------------------------------------------
(***************************************************************************)
(* The inductive invariant.  What a client was sent and what waits for it  *)
(* in its channel are one line of messages; q are the requests it made.    *)
(***************************************************************************)

Again(q, t, k) == \E n \in (k + 1) .. Len(q) : q[n] = [type |-> "subscribe", topic |-> t]

\* x may come before y in the line of a client.
Before(q, x, y) ==
    y.kind = "event" =>
        /\ x.kind = "event" => x.ref < y.ref
        /\ x.kind = "unsubscribed" /\ x.topic = y.topic => Again(q, y.topic, x.ref)

InOrder(q, s) == \A i, j \in 1 .. Len(s) : i < j => Before(q, s[i], s[j])

\* s was sent and r waits.
View(q, s, r) ==
    /\ InOrder(q, s)
    /\ InOrder(q, r)
    /\ \A i \in 1 .. Len(s), j \in 1 .. Len(r) : Before(q, s[i], r[j])

ViewOK == \A c \in Clients : View(asked[c], seen[c], send[c])

Elems(s) == {s[i] : i \in 1 .. Len(s)}

Line(c) == Elems(seen[c]) \cup Elems(send[c])

\* Events wait in the order of their numbers, behind the one that is fanned out.
QueueOK ==
    /\ \A i \in 1 .. Len(broadcast) : broadcast[i].kind = "event" /\ broadcast[i].ref <= count
    /\ \A i, j \in 1 .. Len(broadcast) : i < j => broadcast[i].ref < broadcast[j].ref
    /\ fan.rest # {} => /\ fan.msg.kind = "event" /\ fan.msg.ref <= count
                        /\ \A i \in 1 .. Len(broadcast) : fan.msg.ref < broadcast[i].ref

\* No event in the line of a client is as new as one it will be offered.
IsFresh(c, x) ==
    x.kind = "event" =>
        /\ x.ref <= count
        /\ \A i \in 1 .. Len(broadcast) : x.ref < broadcast[i].ref
        /\ c \in fan.rest => x.ref < fan.msg.ref

FreshOK == \A c \in Clients : \A x \in Line(c) : IsFresh(c, x)

\* A confirmation that a client unsubscribed, on its way or delivered, is still right
\* unless the client asked again.
IsRight(c, x) ==
    x.kind = "unsubscribed" =>
        /\ x.ref <= Len(asked[c])
        /\ x.topic \in subscriptions[c] => Again(asked[c], x.topic, x.ref)

UnsubscribedOK == \A c \in Clients : \A x \in Line(c) \cup {answer[c]} : IsRight(c, x)

\* An answer is not an event.
AnswerOK ==
    \A c \in Clients : /\ answer[c].kind # "event"
                       /\ reader[c] = "answering" => answer[c] \in Message

IInv == TypeOK /\ QueueOK /\ ViewOK /\ FreshOK /\ UnsubscribedOK /\ AnswerOK

-----------------------------------------------------------------------------
(***************************************************************************)
(* Lemmas about lines of messages.                                         *)
(***************************************************************************)

\* What a queue holds after something was added at its end.
LEMMA AppendFacts ==
    ASSUME NEW S, NEW s \in Seq(S), NEW y \in S
    PROVE  /\ Append(s, y) \in Seq(S)
           /\ Len(Append(s, y)) = Len(s) + 1
           /\ Len(s) \in Nat
           /\ \A i \in 1 .. Len(s) : Append(s, y)[i] = s[i]
           /\ Append(s, y)[Len(s) + 1] = y
           /\ Elems(Append(s, y)) = Elems(s) \cup {y}
<1>1. /\ Append(s, y) \in Seq(S)
      /\ Len(Append(s, y)) = Len(s) + 1
      /\ Len(s) \in Nat
      /\ \A i \in 1 .. Len(s) : Append(s, y)[i] = s[i]
      /\ Append(s, y)[Len(s) + 1] = y
  OBVIOUS
<1>2. 1 .. (Len(s) + 1) = (1 .. Len(s)) \cup {Len(s) + 1}
  BY <1>1
<1>3. Elems(Append(s, y)) = Elems(s) \cup {y}
  BY <1>1, <1>2 DEF Elems
<1> QED
  BY <1>1, <1>3

\* What it holds after its head was taken.
LEMMA TailFacts ==
    ASSUME NEW S, NEW s \in Seq(S), s # << >>
    PROVE  /\ Tail(s) \in Seq(S)
           /\ Len(Tail(s)) = Len(s) - 1
           /\ Len(s) \in Nat /\ Len(s) > 0
           /\ \A i \in 1 .. Len(Tail(s)) : Tail(s)[i] = s[i + 1]
           /\ Head(s) = s[1]
           /\ Head(s) \in S
           /\ Head(s) \in Elems(s)
           /\ Elems(Tail(s)) \subseteq Elems(s)
<1>1. /\ Tail(s) \in Seq(S)
      /\ Len(Tail(s)) = Len(s) - 1
      /\ Len(s) \in Nat /\ Len(s) > 0
      /\ \A i \in 1 .. Len(Tail(s)) : Tail(s)[i] = s[i + 1]
      /\ Head(s) = s[1]
  OBVIOUS
<1>2. 1 \in 1 .. Len(s)
  BY <1>1
<1>3. Head(s) \in S /\ Head(s) \in Elems(s)
  BY <1>1, <1>2 DEF Elems
<1>4. \A i \in 1 .. Len(Tail(s)) : i + 1 \in 1 .. Len(s)
  BY <1>1
<1>5. Elems(Tail(s)) \subseteq Elems(s)
  BY <1>1, <1>4 DEF Elems
<1> QED
  BY <1>1, <1>3, <1>5

\* A message that may follow all others may be added at the end of the line.
LEMMA ViewAppend ==
    ASSUME NEW q, NEW s \in Seq(Message), NEW r \in Seq(Message), View(q, s, r),
           NEW y \in Message, \A x \in Elems(s) \cup Elems(r) : Before(q, x, y)
    PROVE  View(q, s, Append(r, y))
<1> DEFINE n == Len(r) + 1
           w == Append(r, y)
<1>1. /\ Len(w) = n /\ Len(r) \in Nat /\ w[n] = y
      /\ \A i \in 1 .. Len(r) : w[i] = r[i]
  BY AppendFacts
<1>2. \A i \in 1 .. n : i \in 1 .. Len(r) \/ i = n
  BY <1>1
<1>3. \A i \in 1 .. Len(r) : i < n /\ r[i] \in Elems(r)
  BY <1>1 DEF Elems
<1>4. \A i \in 1 .. Len(s) : s[i] \in Elems(s)
  BY DEF Elems
<1> HIDE DEF n, w
<1>5. InOrder(q, w)
  <2> SUFFICES ASSUME NEW i \in 1 .. n, NEW j \in 1 .. n, i < j
               PROVE  Before(q, w[i], w[j])
    BY <1>1 DEF InOrder
  <2>1. i \in 1 .. Len(r)
    BY <1>1, <1>2 DEF n
  <2>2. CASE j = n
    BY <1>1, <1>3, <2>1, <2>2
  <2>3. CASE j \in 1 .. Len(r)
    BY <1>1, <2>1, <2>3 DEF View, InOrder
  <2> QED
    BY <1>2, <2>2, <2>3
<1>6. ASSUME NEW i \in 1 .. Len(s), NEW j \in 1 .. n
      PROVE  Before(q, s[i], w[j])
  <2>1. CASE j = n
    BY <1>1, <1>4, <1>6, <2>1
  <2>2. CASE j \in 1 .. Len(r)
    BY <1>1, <1>6, <2>2 DEF View
  <2> QED
    BY <1>2, <2>1, <2>2
<1>7. View(q, s, w)
  BY <1>1, <1>5, <1>6 DEF View
<1> QED
  BY <1>7 DEF w

\* The head of the line may be lost.
LEMMA ViewTail ==
    ASSUME NEW q, NEW s \in Seq(Message), NEW r \in Seq(Message), View(q, s, r), r # << >>
    PROVE  View(q, s, Tail(r))
<1> DEFINE w == Tail(r)
<1>1. /\ Len(w) = Len(r) - 1 /\ Len(r) \in Nat
      /\ \A i \in 1 .. Len(w) : w[i] = r[i + 1]
  BY TailFacts
<1>2. \A i \in 1 .. Len(w) : i + 1 \in 1 .. Len(r)
  BY <1>1
<1>3. \A i, j \in 1 .. Len(w) : i < j => i + 1 < j + 1
  BY <1>1
<1> HIDE DEF w
<1>4. InOrder(q, w)
  BY <1>1, <1>2, <1>3 DEF View, InOrder
<1>5. View(q, s, w)
  BY <1>1, <1>2, <1>4 DEF View
<1> QED
  BY <1>5 DEF w

\* The head of the line may be sent.
LEMMA ViewSend ==
    ASSUME NEW q, NEW s \in Seq(Message), NEW r \in Seq(Message), View(q, s, r), r # << >>
    PROVE  View(q, Append(s, Head(r)), Tail(r))
<1> DEFINE w == Tail(r)
           y == r[1]
           v == Append(s, y)
           n == Len(s) + 1
<1>1. /\ Len(w) = Len(r) - 1 /\ Len(r) \in Nat /\ Len(r) > 0
      /\ \A i \in 1 .. Len(w) : w[i] = r[i + 1]
      /\ Head(r) = y /\ y \in Message
  BY TailFacts
<1>2. /\ Len(v) = n /\ Len(s) \in Nat /\ v[n] = y
      /\ \A i \in 1 .. Len(s) : v[i] = s[i]
  BY <1>1, AppendFacts
<1>3. View(q, s, w)
  BY ViewTail
<1>4. \A i \in 1 .. n : i \in 1 .. Len(s) \/ i = n
  BY <1>2
<1>5. 1 \in 1 .. Len(r) /\ \A j \in 1 .. Len(w) : j + 1 \in 1 .. Len(r) /\ 1 < j + 1
  BY <1>1
<1>6. \A i \in 1 .. Len(s) : Before(q, s[i], y)
  BY <1>5 DEF View
<1>7. \A j \in 1 .. Len(w) : Before(q, y, w[j])
  BY <1>1, <1>5 DEF View, InOrder
<1> HIDE DEF n, w, v, y
<1>8. InOrder(q, v)
  <2> SUFFICES ASSUME NEW i \in 1 .. n, NEW j \in 1 .. n, i < j
               PROVE  Before(q, v[i], v[j])
    BY <1>2 DEF InOrder
  <2>1. i \in 1 .. Len(s)
    BY <1>2, <1>4 DEF n
  <2>2. CASE j = n
    BY <1>2, <1>6, <2>1, <2>2
  <2>3. CASE j \in 1 .. Len(s)
    BY <1>2, <2>1, <2>3 DEF View, InOrder
  <2> QED
    BY <1>4, <2>2, <2>3
<1>9. ASSUME NEW i \in 1 .. n, NEW j \in 1 .. Len(w)
      PROVE  Before(q, v[i], w[j])
  <2>1. CASE i = n
    BY <1>2, <1>7, <1>9, <2>1
  <2>2. CASE i \in 1 .. Len(s)
    BY <1>2, <1>3, <1>9, <2>2 DEF View
  <2> QED
    BY <1>4, <2>1, <2>2
<1>10. View(q, v, w)
  BY <1>2, <1>3, <1>8, <1>9 DEF View
<1> QED
  BY <1>1, <1>10 DEF w, v

\* A further request puts no line out of order.
LEMMA ViewAsked ==
    ASSUME NEW S, NEW q \in Seq(S), NEW a \in S,
           NEW s \in Seq(Message), NEW r \in Seq(Message), View(q, s, r)
    PROVE  View(Append(q, a), s, r)
<1> DEFINE p == Append(q, a)
<1>1. Len(p) = Len(q) + 1 /\ Len(q) \in Nat /\ \A i \in 1 .. Len(q) : p[i] = q[i]
  BY AppendFacts
<1> HIDE DEF p
<1>2. ASSUME NEW t, NEW k \in Nat, Again(q, t, k) PROVE Again(p, t, k)
  <2>1. PICK n \in (k + 1) .. Len(q) : q[n] = [type |-> "subscribe", topic |-> t]
    BY <1>2 DEF Again
  <2>2. n \in 1 .. Len(q) /\ n \in (k + 1) .. Len(p)
    BY <1>1, <2>1
  <2> QED
    BY <1>1, <2>1, <2>2 DEF Again
<1>3. ASSUME NEW x \in Message, NEW y \in Message, Before(q, x, y) PROVE Before(p, x, y)
  <2>1. x.ref \in Nat
    BY <1>3 DEF Message
  <2> QED
    BY <1>2, <1>3, <2>1 DEF Before
<1>4. InOrder(p, s) /\ InOrder(p, r)
  BY <1>3 DEF View, InOrder
<1>5. \A i \in 1 .. Len(s), j \in 1 .. Len(r) : Before(p, s[i], r[j])
  BY <1>3 DEF View
<1>6. View(p, s, r)
  BY <1>4, <1>5 DEF View
<1> QED
  BY <1>6 DEF p

-----------------------------------------------------------------------------
(***************************************************************************)
(* Types.                                                                  *)
(***************************************************************************)

\* What a client may ask for.
AllAsks == UNION {Asks[c] : c \in Clients}

\* At first nothing is there.
LEMMA InitOK == Init => IInv
<1> SUFFICES ASSUME Init PROVE IInv
  OBVIOUS
<1>1. NoMessage.kind = "none"
  BY DEF NoMessage
<1>2. Idle \in [msg : Message \cup {NoMessage}, rest : SUBSET {}] /\ Idle.rest = {}
  BY DEF Idle
<1>3. SendChannelSize \in Nat /\ BroadcastChanSize \in Nat /\ MaxEvents \in Nat
  BY SizesPositive, BoundsNatural
<1> HIDE DEF Idle, NoMessage
<1>4. << >> \in Seq(Message) /\ Len(<< >>) = 0 /\ << >> \in Seq(AllAsks)
  OBVIOUS
<1>5. TypeOK
  BY <1>2, <1>3, <1>4 DEF Init, TypeOK, AllAsks
<1>6. \A c \in Clients : Elems(seen[c]) = {} /\ Elems(send[c]) = {}
  <2>1. Elems(<< >>) = {}
    <3>1. 1 .. Len(<< >>) = {}
      BY <1>4
    <3> QED
      BY <3>1 DEF Elems
  <2> QED
    BY <2>1 DEF Init
<1>7. QueueOK
  BY <1>2, <1>4 DEF Init, QueueOK
<1>8. ViewOK
  <2>1. ASSUME NEW q PROVE View(q, << >>, << >>)
    <3>1. 1 .. Len(<< >>) = {}
      BY <1>4
    <3> QED
      BY <3>1 DEF View, InOrder
  <2> QED
    BY <2>1 DEF Init, ViewOK
<1>9. FreshOK
  BY <1>6 DEF FreshOK, Line
<1>10. UnsubscribedOK
  BY <1>1, <1>6 DEF Init, UnsubscribedOK, Line, IsRight
<1>11. AnswerOK
  BY <1>1 DEF Init, AnswerOK
<1> QED
  BY <1>5, <1>7, <1>8, <1>9, <1>10, <1>11 DEF IInv

\* A client that is offered an event is done with it; the last one ends the fan-out.
LEMMA AfterOfferFacts ==
    ASSUME TypeOK, NEW c \in fan.rest
    PROVE  /\ AfterOffer(c) \in [msg : Message \cup {NoMessage}, rest : SUBSET clients]
           /\ AfterOffer(c) = Idle <=> AfterOffer(c).rest = {}
           /\ AfterOffer(c).rest = fan.rest \ {c}
           /\ AfterOffer(c).rest # {} => AfterOffer(c).msg = fan.msg
<1>1. fan \in [msg : Message \cup {NoMessage}, rest : SUBSET clients]
  BY DEF TypeOK
<1>2. Idle \in [msg : Message \cup {NoMessage}, rest : SUBSET clients] /\ Idle.rest = {}
  BY DEF Idle
<1>3. CASE fan.rest = {c}
  BY <1>2, <1>3 DEF AfterOffer
<1>4. CASE fan.rest # {c}
  <2>1. AfterOffer(c) = [fan EXCEPT !.rest = fan.rest \ {c}]
    BY <1>4 DEF AfterOffer
  <2> HIDE DEF AfterOffer, Message, NoMessage
  <2>2. /\ AfterOffer(c) \in [msg : Message \cup {NoMessage}, rest : SUBSET clients]
        /\ AfterOffer(c).rest = fan.rest \ {c}
        /\ AfterOffer(c).msg = fan.msg
    BY <1>1, <2>1
  <2>3. fan.rest \ {c} # {}
    BY <1>4
  <2> QED
    BY <1>2, <2>2, <2>3
<1> QED
  BY <1>3, <1>4

\* While an event is fanned out, it is a message.
LEMMA FanFacts == ASSUME IInv, fan.rest # {} PROVE fan.msg \in Message
<1>1. fan.msg.kind = "event" /\ fan.msg \in Message \cup {NoMessage}
  BY DEF IInv, TypeOK, QueueOK
<1> QED
  BY <1>1 DEF NoMessage

\* An answer is a message, about one of the topics or about none.
LEMMA HandleFacts ==
    ASSUME TypeOK, NEW c \in Clients, NEW a \in Asks[c], handleMessage(c, a)
    PROVE  /\ asked' = [asked EXCEPT ![c] = Append(asked[c], a)]
           /\ a \in AllAsks
           /\ reader' = [reader EXCEPT ![c] = "answering"]
           /\ \E m \in Message :
                  /\ answer' = [answer EXCEPT ![c] = m]
                  /\ \/ /\ a = [type |-> "subscribe", topic |-> a.topic]
                        /\ a.topic \in Topics
                        /\ m.kind = "subscribed"
                        /\ subscriptions' = [subscriptions EXCEPT ![c] = subscriptions[c] \cup {a.topic}]
                     \/ /\ m.kind = "unsubscribed" /\ m.topic = a.topic
                        /\ a.topic \in Topics
                        /\ m.ref = Len(asked[c]) + 1
                        /\ subscriptions' = [subscriptions EXCEPT ![c] = subscriptions[c] \ {a.topic}]
                     \/ /\ m.kind \in {"response", "error"}
                        /\ subscriptions' = subscriptions
<1>1. asked' = [asked EXCEPT ![c] = Append(asked[c], a)]
  BY DEF handleMessage, Read
<1>2. a \in AllAsks
  BY DEF AllAsks
<1>3. asked[c] \in Seq(AllAsks)
  BY DEF TypeOK, AllAsks
<1>4. asked'[c] = Append(asked[c], a)
  BY <1>1 DEF TypeOK
<1>5. Len(asked'[c]) = Len(asked[c]) + 1 /\ Len(asked[c]) \in Nat
  BY <1>2, <1>3, <1>4, AppendFacts
<1>6. \/ a \in [type : {"subscribe", "unsubscribe"}, topic : Topics]
      \/ a \in [type : {"request", "other"}, topic : {"listed", "unlisted"}]
  BY AsksTyped
<1> DEFINE m(kind, topic) ==
        [kind |-> kind, topic |-> topic, ref |-> IF kind = "error" THEN 0 ELSE Len(asked'[c])]
<1>7. ASSUME NEW kind \in {"subscribed", "unsubscribed", "response", "error"},
             NEW topic \in Topics \cup {"none"}
      PROVE  /\ m(kind, topic) \in Message
             /\ m(kind, topic).kind = kind /\ m(kind, topic).topic = topic
             /\ kind # "error" => m(kind, topic).ref = Len(asked[c]) + 1
  BY <1>5, <1>7 DEF Message
<1>8. \A kind, topic : Answering(c, kind, topic) =>
          /\ reader' = [reader EXCEPT ![c] = "answering"]
          /\ answer' = [answer EXCEPT ![c] = m(kind, topic)]
  BY DEF Answering
<1> HIDE DEF m
<1>9. CASE handleSubscribe(c, a)
  <2>1. a.type = "subscribe" /\ Answering(c, "subscribed", a.topic)
        /\ subscriptions' = [subscriptions EXCEPT ![c] = subscriptions[c] \cup {a.topic}]
    BY <1>9 DEF handleSubscribe
  <2>2. a = [type |-> "subscribe", topic |-> a.topic] /\ a.topic \in Topics
    BY <1>6, <2>1
  <2>3. m("subscribed", a.topic) \in Message /\ m("subscribed", a.topic).kind = "subscribed"
    BY <1>7, <2>2
  <2> QED
    BY <1>1, <1>2, <1>8, <2>1, <2>2, <2>3
<1>10. CASE handleUnsubscribe(c, a)
  <2>1. a.type = "unsubscribe" /\ Answering(c, "unsubscribed", a.topic)
        /\ subscriptions' = [subscriptions EXCEPT ![c] = subscriptions[c] \ {a.topic}]
    BY <1>10 DEF handleUnsubscribe
  <2>2. a.topic \in Topics
    BY <1>6, <2>1
  <2> DEFINE x == m("unsubscribed", a.topic)
  <2>3. /\ x \in Message /\ x.kind = "unsubscribed" /\ x.topic = a.topic
        /\ x.ref = Len(asked[c]) + 1
    BY <1>7, <2>2
  <2>4. reader' = [reader EXCEPT ![c] = "answering"] /\ answer' = [answer EXCEPT ![c] = x]
    BY <1>8, <2>1
  <2> HIDE DEF x
  <2> QED
    BY <1>1, <1>2, <2>1, <2>2, <2>3, <2>4
<1>11. CASE handleRequest(c, a)
  <2>1. PICK kind \in {"response", "error"} : Answering(c, kind, "none")
    BY <1>11 DEF handleRequest, handleList
  <2>2. subscriptions' = subscriptions
    BY <1>11 DEF handleRequest
  <2>3. m(kind, "none") \in Message /\ m(kind, "none").kind \in {"response", "error"}
    BY <1>7, <2>1
  <2> QED
    BY <1>1, <1>2, <1>8, <2>1, <2>2, <2>3
<1> QED
  BY <1>9, <1>10, <1>11 DEF handleMessage

\* Connections, goroutines and the state of the server have their types.
LEMMA TypeStep == ASSUME IInv, [Next]_vars PROVE TypeOK'
<1> USE DEF IInv
<1>1. /\ SendChannelSize \in Nat \ {0} /\ BroadcastChanSize \in Nat \ {0}
      /\ MaxEvents \in Nat
  BY SizesPositive, BoundsNatural
<1>2. ASSUME NEW t \in Topics, Broadcast(t) PROVE TypeOK'
  <2> DEFINE e == [kind |-> "event", topic |-> t, ref |-> count']
  <2>1. count' \in 0 .. MaxEvents
    BY <1>1, <1>2 DEF Broadcast, TypeOK
  <2>2. e \in Message
    BY <1>1, <2>1 DEF Message
  <2>3. broadcast' = IF Len(broadcast) < BroadcastChanSize THEN Append(broadcast, e) ELSE broadcast
    BY <1>2 DEF Broadcast
  <2>4. UNCHANGED <<perClient, clients, fan, hub>>
    BY <1>2 DEF Broadcast
  <2> HIDE DEF e
  <2>5. broadcast' \in Seq(Message) /\ Len(broadcast') <= BroadcastChanSize
    BY <1>1, <2>2, <2>3 DEF TypeOK
  <2> QED
    BY <2>1, <2>4, <2>5 DEF TypeOK, perClient
<1>3. CASE handleBroadcast
  <2>1. /\ Head(broadcast) \in Message /\ Tail(broadcast) \in Seq(Message)
        /\ Len(Tail(broadcast)) = Len(broadcast) - 1 /\ Len(broadcast) \in Nat
    BY <1>3, TailFacts DEF handleBroadcast, TypeOK
  <2>2. broadcast' \in Seq(Message) /\ Len(broadcast') <= BroadcastChanSize
    BY <1>1, <1>3, <2>1 DEF handleBroadcast, TypeOK
  <2>3. Idle \in [msg : Message \cup {NoMessage}, rest : SUBSET clients] /\ Idle.rest = {}
    BY DEF Idle
  <2>4. /\ fan' \in [msg : Message \cup {NoMessage}, rest : SUBSET clients]
        /\ fan' = Idle <=> fan'.rest = {}
    BY <1>3, <2>1, <2>3 DEF handleBroadcast
  <2>5. UNCHANGED <<perClient, clients, hub, count>>
    BY <1>3 DEF handleBroadcast
  <2> QED
    BY <2>2, <2>4, <2>5 DEF TypeOK, perClient
<1>4. CASE Stop \/ StopBroadcast \/ UNCHANGED vars
  BY <1>4 DEF Stop, StopBroadcast, vars, perClient, server, TypeOK
<1>5. ASSUME NEW c \in Clients, Offer(c) PROVE TypeOK'
  <2>1. /\ fan' \in [msg : Message \cup {NoMessage}, rest : SUBSET clients]
        /\ fan' = Idle <=> fan'.rest = {}
    BY <1>5, AfterOfferFacts DEF Offer
  <2>2. fan.msg \in Message
    BY <1>5, FanFacts DEF Offer
  <2>3. /\ send' \in [Clients -> Seq(Message)]
        /\ \A d \in Clients : Len(send'[d]) <= SendChannelSize
    <3>1. CASE send' = send
      BY <3>1 DEF TypeOK
    <3>2. CASE send' # send
      <4>1. send' = [send EXCEPT ![c] = Append(send[c], fan.msg)] /\ Len(send[c]) < SendChannelSize
        BY <1>5, <3>2 DEF Offer
      <4>2. /\ Append(send[c], fan.msg) \in Seq(Message)
            /\ Len(Append(send[c], fan.msg)) = Len(send[c]) + 1 /\ Len(send[c]) \in Nat
        BY <2>2, AppendFacts DEF TypeOK
      <4> QED
        BY <1>1, <4>1, <4>2 DEF TypeOK
    <3> QED
      BY <3>1, <3>2
  <2>4. UNCHANGED <<conn, subscriptions, reader, answer, writer, asked, seen, clients, broadcast,
                    hub, count>>
    BY <1>5 DEF Offer
  <2> QED
    BY <2>1, <2>3, <2>4 DEF TypeOK
<1>6. ASSUME NEW c \in Clients, handleWebSocket(c) PROVE TypeOK'
  <2>1. fan' = fan /\ fan = Idle /\ clients' = clients \cup {c}
    BY <1>6 DEF handleWebSocket
  <2>2. fan' \in [msg : Message \cup {NoMessage}, rest : SUBSET clients']
    BY <2>1 DEF Idle
  <2>3. UNCHANGED <<subscriptions, send, answer, broadcast, hub, count, asked, seen>>
    BY <1>6 DEF handleWebSocket
  <2>4. /\ conn' \in [Clients -> {"none", "open", "gone", "closed"}]
        /\ reader' \in [Clients -> {"off", "reading", "answering", "leaving", "done"}]
        /\ writer' \in [Clients -> {"off", "running", "done"}]
    BY <1>6 DEF handleWebSocket, TypeOK
  <2> QED
    BY <2>1, <2>2, <2>3, <2>4 DEF TypeOK
<1>7. ASSUME NEW c \in Clients, PeerGone(c) \/ ReadFails(c) PROVE TypeOK'
  <2>1. UNCHANGED <<subscriptions, send, answer, writer, asked, seen, server>>
    BY <1>7 DEF PeerGone, ReadFails
  <2>2. /\ conn' \in [Clients -> {"none", "open", "gone", "closed"}]
        /\ reader' \in [Clients -> {"off", "reading", "answering", "leaving", "done"}]
    BY <1>7 DEF PeerGone, ReadFails, TypeOK
  <2> QED
    BY <2>1, <2>2 DEF TypeOK, server
<1>8. ASSUME NEW c \in Clients, Leave(c) PROVE TypeOK'
  <2>1. fan' = fan /\ fan = Idle /\ clients' = clients \ {c}
    BY <1>8 DEF Leave
  <2>2. fan' \in [msg : Message \cup {NoMessage}, rest : SUBSET clients']
    BY <2>1 DEF Idle
  <2>3. UNCHANGED <<subscriptions, send, answer, writer, asked, seen, broadcast, hub, count>>
    BY <1>8 DEF Leave
  <2>4. /\ conn' \in [Clients -> {"none", "open", "gone", "closed"}]
        /\ reader' \in [Clients -> {"off", "reading", "answering", "leaving", "done"}]
    BY <1>8 DEF Leave, TypeOK
  <2> QED
    BY <2>1, <2>2, <2>3, <2>4 DEF TypeOK
<1>9. ASSUME NEW c \in Clients, Answer(c) PROVE TypeOK'
  <2>1. answer[c] \in Message
    BY <1>9 DEF Answer, AnswerOK
  <2>2. /\ Append(send[c], answer[c]) \in Seq(Message)
        /\ Len(Append(send[c], answer[c])) = Len(send[c]) + 1 /\ Len(send[c]) \in Nat
    BY <2>1, AppendFacts DEF TypeOK
  <2>3. /\ send' \in [Clients -> Seq(Message)]
        /\ \A d \in Clients : Len(send'[d]) <= SendChannelSize
    BY <1>1, <1>9, <2>2 DEF Answer, TypeOK
  <2>4. answer' \in [Clients -> Message \cup {NoMessage}]
    BY <1>9 DEF Answer, TypeOK
  <2>5. reader' \in [Clients -> {"off", "reading", "answering", "leaving", "done"}]
    BY <1>9 DEF Answer, TypeOK
  <2>6. UNCHANGED <<conn, subscriptions, writer, asked, seen, server>>
    BY <1>9 DEF Answer
  <2> QED
    BY <2>3, <2>4, <2>5, <2>6 DEF TypeOK, server
<1>10. ASSUME NEW c \in Clients, WriteMessage(c) \/ WriteFails(c) PROVE TypeOK'
  <2>1. send[c] # << >> => /\ Head(send[c]) \in Message /\ Tail(send[c]) \in Seq(Message)
                           /\ Len(Tail(send[c])) = Len(send[c]) - 1 /\ Len(send[c]) \in Nat
    BY TailFacts DEF TypeOK
  <2>2. send' = send \/ (send[c] # << >> /\ send' = [send EXCEPT ![c] = Tail(send[c])])
    BY <1>10 DEF WriteMessage, WriteFails
  <2>3. /\ send' \in [Clients -> Seq(Message)]
        /\ \A d \in Clients : Len(send'[d]) <= SendChannelSize
    <3>1. CASE send' = send
      BY <3>1 DEF TypeOK
    <3>2. CASE send[c] # << >> /\ send' = [send EXCEPT ![c] = Tail(send[c])]
      <4>1. Len(Tail(send[c])) <= SendChannelSize
        BY <1>1, <2>1, <3>2 DEF TypeOK
      <4> QED
        BY <2>1, <3>2, <4>1 DEF TypeOK
    <3> QED
      BY <2>2, <3>1, <3>2
  <2>4. seen' = seen \/ (send[c] # << >> /\ seen' = [seen EXCEPT ![c] = Append(seen[c], Head(send[c]))])
    BY <1>10 DEF WriteMessage, WriteFails
  <2>5. Head(send[c]) \in Message => Append(seen[c], Head(send[c])) \in Seq(Message)
    BY AppendFacts DEF TypeOK
  <2>6. seen' \in [Clients -> Seq(Message)]
    BY <2>1, <2>4, <2>5 DEF TypeOK
  <2>7. UNCHANGED <<subscriptions, reader, answer, asked, server>>
    BY <1>10 DEF WriteMessage, WriteFails
  <2>8. /\ conn' \in [Clients -> {"none", "open", "gone", "closed"}]
        /\ writer' \in [Clients -> {"off", "running", "done"}]
    BY <1>10 DEF WriteMessage, WriteFails, TypeOK
  <2> QED
    BY <2>3, <2>6, <2>7, <2>8 DEF TypeOK, server
<1>11. ASSUME NEW c \in Clients, NEW a \in Asks[c], handleMessage(c, a) PROVE TypeOK'
  <2>1. /\ asked' = [asked EXCEPT ![c] = Append(asked[c], a)]
        /\ a \in AllAsks
        /\ reader' = [reader EXCEPT ![c] = "answering"]
    BY <1>11, HandleFacts
  <2>2. PICK m \in Message : answer' = [answer EXCEPT ![c] = m]
    BY <1>11, HandleFacts
  <2>3. \/ /\ subscriptions' = [subscriptions EXCEPT ![c] = subscriptions[c] \cup {a.topic}]
           /\ a.topic \in Topics
        \/ subscriptions' = [subscriptions EXCEPT ![c] = subscriptions[c] \ {a.topic}]
        \/ subscriptions' = subscriptions
    BY <1>11, HandleFacts
  <2>4. subscriptions' \in [Clients -> SUBSET Topics]
    <3>1. subscriptions \in [Clients -> SUBSET Topics]
      BY DEF TypeOK
    <3> DEFINE s == subscriptions'[c]
    <3>2. s \in SUBSET Topics
      BY <2>3, <3>1
    <3>3. subscriptions' = [subscriptions EXCEPT ![c] = s]
      BY <2>3, <3>1
    <3> HIDE DEF s
    <3> QED
      BY <3>1, <3>2, <3>3
  <2>5. answer' \in [Clients -> Message \cup {NoMessage}]
    BY <2>2 DEF TypeOK
  <2>6. reader' \in [Clients -> {"off", "reading", "answering", "leaving", "done"}]
    BY <2>1 DEF TypeOK
  <2>7. Append(asked[c], a) \in Seq(AllAsks)
    BY <2>1, AppendFacts DEF TypeOK, AllAsks
  <2>8. asked' \in [Clients -> Seq(AllAsks)]
    BY <2>1, <2>7 DEF TypeOK, AllAsks
  <2>9. UNCHANGED <<conn, send, writer, seen, server>>
    BY <1>11 DEF handleMessage
  <2> QED
    BY <2>4, <2>5, <2>6, <2>8, <2>9 DEF TypeOK, server, AllAsks
<1> QED
  BY <1>2, <1>3, <1>4, <1>5, <1>6, <1>7, <1>8, <1>9, <1>10, <1>11 DEF Next, Pumps

-----------------------------------------------------------------------------
(***************************************************************************)
(* The steps, by what they do to the lines of the clients.                 *)
(***************************************************************************)

\* No line changes, and nobody asks or begins to answer.
Quiet ==
    /\ UNCHANGED <<subscriptions, send, answer, asked, seen>>
    /\ \A c \in Clients : reader'[c] = "answering" => reader[c] = "answering"

\* The head of the line of c is sent or lost.
Drained(c) ==
    /\ send[c] # << >>
    /\ send' = [send EXCEPT ![c] = Tail(send[c])]
    /\ seen' = seen \/ seen' = [seen EXCEPT ![c] = Append(seen[c], Head(send[c]))]
    /\ UNCHANGED <<subscriptions, answer, asked, reader, server>>

\* Every step is of one of five kinds.
LEMMA StepKinds ==
    ASSUME IInv, [Next]_vars
    PROVE  \/ Quiet
           \/ \E c \in Clients : Offer(c)
           \/ \E c \in Clients : Answer(c)
           \/ \E c \in Clients : Drained(c)
           \/ \E c \in Clients : \E a \in Asks[c] : handleMessage(c, a)
<1>0. reader \in [Clients -> {"off", "reading", "answering", "leaving", "done"}]
  BY DEF IInv, TypeOK
<1>1. CASE \/ \E t \in Topics : Broadcast(t)
           \/ handleBroadcast \/ Stop \/ StopBroadcast \/ UNCHANGED vars
  <2>1. UNCHANGED perClient
    BY <1>1 DEF Broadcast, handleBroadcast, Stop, StopBroadcast, vars
  <2> QED
    BY <2>1 DEF Quiet, perClient
<1>2. CASE \E c \in Clients : handleWebSocket(c) \/ PeerGone(c) \/ ReadFails(c) \/ Leave(c)
  <2>1. UNCHANGED <<subscriptions, send, answer, asked, seen>>
    BY <1>2 DEF handleWebSocket, PeerGone, ReadFails, Leave
  <2>2. \A c \in Clients : reader'[c] = "answering" => reader[c] = "answering"
    BY <1>0, <1>2 DEF handleWebSocket, PeerGone, ReadFails, Leave
  <2> QED
    BY <2>1, <2>2 DEF Quiet
<1>3. ASSUME NEW c \in Clients, WriteMessage(c) \/ WriteFails(c) PROVE Quiet \/ Drained(c)
  <2>1. CASE UNCHANGED <<send, seen>>
    BY <1>3, <2>1 DEF WriteMessage, WriteFails, Quiet
  <2>2. CASE ~UNCHANGED <<send, seen>>
    BY <1>3, <2>2 DEF WriteMessage, WriteFails, Drained
  <2> QED
    BY <2>1, <2>2
<1> QED
  BY <1>1, <1>2, <1>3 DEF Next, Pumps

\* What is new in the line of a client was offered to it, or answers it.
LEMMA LineStep ==
    ASSUME IInv, [Next]_vars, NEW c \in Clients, NEW x \in Line(c)'
    PROVE  \/ x \in Line(c)
           \/ Offer(c) /\ x = fan.msg /\ fan.msg.topic \in subscriptions[c]
           \/ Answer(c) /\ x = answer[c]
<1>1. send \in [Clients -> Seq(Message)] /\ seen \in [Clients -> Seq(Message)]
  BY DEF IInv, TypeOK
<1>2. x \in Elems(seen'[c]) \cup Elems(send'[c])
  BY DEF Line, Elems
<1>3. CASE UNCHANGED <<send, seen>>
  BY <1>2, <1>3 DEF Line
<1>4. ASSUME NEW d \in Clients, Offer(d), ~UNCHANGED <<send, seen>>
      PROVE  x \in Line(c) \/ (c = d /\ x = fan.msg /\ fan.msg.topic \in subscriptions[c])
  <2>1. /\ send' = [send EXCEPT ![d] = Append(send[d], fan.msg)]
        /\ fan.msg.topic \in subscriptions[d] /\ seen' = seen
    BY <1>4 DEF Offer
  <2>2. fan.msg \in Message
    BY <1>4, FanFacts DEF Offer
  <2>3. Elems(Append(send[d], fan.msg)) = Elems(send[d]) \cup {fan.msg}
    BY <1>1, <2>2, AppendFacts
  <2> QED
    BY <1>1, <1>2, <2>1, <2>3 DEF Line
<1>5. ASSUME NEW d \in Clients, Answer(d)
      PROVE  x \in Line(c) \/ (c = d /\ x = answer[c])
  <2>1. send' = [send EXCEPT ![d] = Append(send[d], answer[d])] /\ seen' = seen
    BY <1>5 DEF Answer
  <2>2. answer[d] \in Message
    BY <1>5 DEF Answer, IInv, AnswerOK
  <2>3. Elems(Append(send[d], answer[d])) = Elems(send[d]) \cup {answer[d]}
    BY <1>1, <2>2, AppendFacts
  <2> QED
    BY <1>1, <1>2, <2>1, <2>3 DEF Line
<1>6. ASSUME NEW d \in Clients, Drained(d) PROVE x \in Line(c)
  <2>1. /\ send[d] # << >> /\ send' = [send EXCEPT ![d] = Tail(send[d])]
        /\ seen' = seen \/ seen' = [seen EXCEPT ![d] = Append(seen[d], Head(send[d]))]
    BY <1>6 DEF Drained
  <2>2. /\ Elems(Tail(send[d])) \subseteq Elems(send[d])
        /\ Head(send[d]) \in Elems(send[d]) /\ Head(send[d]) \in Message
    BY <1>1, <2>1, TailFacts
  <2>3. Elems(Append(seen[d], Head(send[d]))) = Elems(seen[d]) \cup {Head(send[d])}
    BY <1>1, <2>2, AppendFacts
  <2>4. Elems(send'[c]) \subseteq Elems(send[c])
    BY <1>1, <2>1, <2>2
  <2>5. Elems(seen'[c]) \subseteq Elems(seen[c]) \cup Elems(send[c])
    BY <1>1, <2>1, <2>2, <2>3
  <2> QED
    BY <1>2, <2>4, <2>5 DEF Line
<1> QED
  BY <1>3, <1>4, <1>5, <1>6, StepKinds DEF Quiet, handleMessage

\* The elements of a line are messages.
LEMMA LineFacts == ASSUME IInv, NEW c \in Clients, NEW x \in Line(c) PROVE x \in Message
<1>1. seen[c] \in Seq(Message) /\ send[c] \in Seq(Message)
  BY DEF IInv, TypeOK
<1> QED
  BY <1>1 DEF Line, Elems

-----------------------------------------------------------------------------
(***************************************************************************)
(* Every step keeps the other parts of the invariant.                      *)
(***************************************************************************)

\* The steps that change the queue of events, the fan-out or the count.
LEMMA ServerKinds ==
    ASSUME [Next]_vars
    PROVE  \/ UNCHANGED <<broadcast, fan, count>>
           \/ \E t \in Topics : Broadcast(t)
           \/ handleBroadcast
           \/ \E c \in Clients : Offer(c)
BY DEF Next, Pumps, handleWebSocket, Stop, StopBroadcast, PeerGone, ReadFails, Leave, Answer,
   WriteMessage, WriteFails, handleMessage, vars, server

\* Events stay in order on their way to the fan-out.
LEMMA QueueStep == ASSUME IInv, [Next]_vars PROVE QueueOK'
<1>1. /\ broadcast \in Seq(Message) /\ count \in Nat
      /\ fan.rest # {} => fan.msg \in Message
  <2>1. broadcast \in Seq(Message) /\ count \in Nat
    BY BoundsNatural DEF IInv, TypeOK
  <2> QED
    BY <2>1, FanFacts
<1>2. /\ \A i \in 1 .. Len(broadcast) : broadcast[i].kind = "event" /\ broadcast[i].ref <= count
      /\ \A i, j \in 1 .. Len(broadcast) : i < j => broadcast[i].ref < broadcast[j].ref
      /\ fan.rest # {} => /\ fan.msg.kind = "event" /\ fan.msg.ref <= count
                          /\ \A i \in 1 .. Len(broadcast) : fan.msg.ref < broadcast[i].ref
  BY DEF IInv, QueueOK
<1>3. \A m \in Message : m.ref \in Nat
  BY DEF Message
<1>4. CASE UNCHANGED <<broadcast, fan, count>>
  BY <1>2, <1>4 DEF QueueOK
<1>5. ASSUME NEW t \in Topics, Broadcast(t) PROVE QueueOK'
  <2> DEFINE e == [kind |-> "event", topic |-> t, ref |-> count']
  <2>1. count' = count + 1 /\ fan' = fan
    BY <1>5 DEF Broadcast
  <2>2. e \in Message /\ e.kind = "event" /\ e.ref = count'
    BY <1>1, <2>1 DEF Message
  <2>3. broadcast' = Append(broadcast, e) \/ broadcast' = broadcast
    BY <1>5 DEF Broadcast
  <2> HIDE DEF e
  <2>4. \A i \in 1 .. Len(broadcast) : broadcast[i].ref \in Nat
    BY <1>1, <1>3
  <2>5. CASE broadcast' = broadcast
    BY <1>1, <1>2, <1>3, <2>1, <2>4, <2>5 DEF QueueOK
  <2>6. CASE broadcast' = Append(broadcast, e)
    <3>1. /\ Len(broadcast') = Len(broadcast) + 1 /\ Len(broadcast) \in Nat
          /\ \A i \in 1 .. Len(broadcast) : broadcast'[i] = broadcast[i]
          /\ broadcast'[Len(broadcast) + 1] = e
      BY <1>1, <2>2, <2>6, AppendFacts
    <3>2. \A i \in 1 .. Len(broadcast') : i \in 1 .. Len(broadcast) \/ i = Len(broadcast) + 1
      BY <3>1
    <3>3. \A i \in 1 .. Len(broadcast') : broadcast'[i].kind = "event" /\ broadcast'[i].ref <= count'
      BY <1>1, <1>2, <2>1, <2>2, <2>4, <3>1, <3>2
    <3>4. ASSUME NEW i \in 1 .. Len(broadcast'), NEW j \in 1 .. Len(broadcast'), i < j
          PROVE  broadcast'[i].ref < broadcast'[j].ref
      <4>1. i \in 1 .. Len(broadcast)
        BY <3>1, <3>4
      <4>2. CASE j \in 1 .. Len(broadcast)
        BY <1>2, <3>1, <3>4, <4>1, <4>2
      <4>3. CASE j = Len(broadcast) + 1
        BY <1>1, <1>2, <2>1, <2>2, <2>4, <3>1, <4>1, <4>3
      <4> QED
        BY <3>2, <3>4, <4>2, <4>3
    <3>5. ASSUME fan.rest # {}, NEW i \in 1 .. Len(broadcast')
          PROVE  fan.msg.ref < broadcast'[i].ref
      BY <1>1, <1>2, <1>3, <2>1, <2>2, <3>1, <3>2, <3>5
    <3>6. fan.rest # {} => fan.msg.ref <= count'
      BY <1>1, <1>2, <1>3, <2>1
    <3> QED
      BY <1>2, <2>1, <3>3, <3>4, <3>5, <3>6 DEF QueueOK
  <2> QED
    BY <2>3, <2>5, <2>6
<1>6. CASE handleBroadcast
  <2>1. /\ broadcast # << >> /\ broadcast' = Tail(broadcast) /\ count' = count
        /\ fan' = IF clients = {} THEN Idle ELSE [msg |-> Head(broadcast), rest |-> clients]
    BY <1>6 DEF handleBroadcast
  <2>2. /\ Len(broadcast') = Len(broadcast) - 1 /\ Len(broadcast) \in Nat /\ Len(broadcast) > 0
        /\ \A i \in 1 .. Len(broadcast') : broadcast'[i] = broadcast[i + 1]
        /\ Head(broadcast) = broadcast[1]
    BY <1>1, <2>1, TailFacts
  <2>3. /\ 1 \in 1 .. Len(broadcast)
        /\ \A i \in 1 .. Len(broadcast') : i + 1 \in 1 .. Len(broadcast) /\ 1 < i + 1
        /\ \A i, j \in 1 .. Len(broadcast') : i < j => i + 1 < j + 1
    BY <2>2
  <2>4. fan'.rest # {} => fan'.msg = broadcast[1]
    BY <2>1, <2>2 DEF Idle
  <2> QED
    BY <1>2, <2>1, <2>2, <2>3, <2>4 DEF QueueOK
<1>7. ASSUME NEW c \in Clients, Offer(c) PROVE QueueOK'
  <2>1. fan'.rest # {} => fan'.msg = fan.msg
    BY <1>7, AfterOfferFacts DEF Offer, IInv
  <2>2. broadcast' = broadcast /\ count' = count /\ fan.rest # {}
    BY <1>7 DEF Offer
  <2> QED
    BY <1>2, <2>1, <2>2 DEF QueueOK
<1> QED
  BY <1>4, <1>5, <1>6, <1>7, ServerKinds

\* An old event of a client's line stays older than all that it will be offered.
LEMMA FreshKept ==
    ASSUME IInv, [Next]_vars, NEW c \in Clients, NEW x \in Message, IsFresh(c, x)
    PROVE  IsFresh(c, x)'
<1> SUFFICES ASSUME x.kind = "event"
             PROVE  /\ x.ref <= count'
                    /\ \A i \in 1 .. Len(broadcast') : x.ref < broadcast'[i].ref
                    /\ c \in fan'.rest => x.ref < fan'.msg.ref
  BY DEF IsFresh
<1>1. /\ x.ref <= count
      /\ \A i \in 1 .. Len(broadcast) : x.ref < broadcast[i].ref
      /\ c \in fan.rest => x.ref < fan.msg.ref
  BY DEF IsFresh
<1>2. broadcast \in Seq(Message) /\ count \in Nat /\ x.ref \in Nat
  BY BoundsNatural DEF IInv, TypeOK, Message
<1>3. CASE UNCHANGED <<broadcast, fan, count>>
  BY <1>1, <1>3
<1>4. ASSUME NEW t \in Topics, Broadcast(t)
      PROVE  /\ x.ref <= count'
             /\ \A i \in 1 .. Len(broadcast') : x.ref < broadcast'[i].ref
             /\ c \in fan'.rest => x.ref < fan'.msg.ref
  <2> DEFINE e == [kind |-> "event", topic |-> t, ref |-> count']
  <2>1. count' = count + 1 /\ fan' = fan
    BY <1>4 DEF Broadcast
  <2>2. e \in Message /\ e.ref = count'
    BY <1>2, <2>1 DEF Message
  <2>3. broadcast' = Append(broadcast, e) \/ broadcast' = broadcast
    BY <1>4 DEF Broadcast
  <2> HIDE DEF e
  <2>4. CASE broadcast' = broadcast
    BY <1>1, <1>2, <2>1, <2>4
  <2>5. CASE broadcast' = Append(broadcast, e)
    <3>1. /\ Len(broadcast') = Len(broadcast) + 1 /\ Len(broadcast) \in Nat
          /\ \A i \in 1 .. Len(broadcast) : broadcast'[i] = broadcast[i]
          /\ broadcast'[Len(broadcast) + 1] = e
      BY <1>2, <2>2, <2>5, AppendFacts
    <3>2. \A i \in 1 .. Len(broadcast') : i \in 1 .. Len(broadcast) \/ i = Len(broadcast) + 1
      BY <3>1
    <3> QED
      BY <1>1, <1>2, <2>1, <2>2, <3>1, <3>2
  <2> QED
    BY <2>3, <2>4, <2>5
<1>5. CASE handleBroadcast
  <2>1. /\ broadcast # << >> /\ broadcast' = Tail(broadcast) /\ count' = count
        /\ fan' = IF clients = {} THEN Idle ELSE [msg |-> Head(broadcast), rest |-> clients]
    BY <1>5 DEF handleBroadcast
  <2>2. /\ Len(broadcast') = Len(broadcast) - 1 /\ Len(broadcast) \in Nat /\ Len(broadcast) > 0
        /\ \A i \in 1 .. Len(broadcast') : broadcast'[i] = broadcast[i + 1]
        /\ Head(broadcast) = broadcast[1]
    BY <1>2, <2>1, TailFacts
  <2>3. /\ 1 \in 1 .. Len(broadcast)
        /\ \A i \in 1 .. Len(broadcast') : i + 1 \in 1 .. Len(broadcast)
    BY <2>2
  <2>4. fan'.rest # {} => fan'.msg = broadcast[1]
    BY <2>1, <2>2 DEF Idle
  <2> QED
    BY <1>1, <2>1, <2>2, <2>3, <2>4
<1>6. ASSUME NEW d \in Clients, Offer(d)
      PROVE  /\ x.ref <= count'
             /\ \A i \in 1 .. Len(broadcast') : x.ref < broadcast'[i].ref
             /\ c \in fan'.rest => x.ref < fan'.msg.ref
  <2>1. fan'.rest = fan.rest \ {d} /\ (fan'.rest # {} => fan'.msg = fan.msg)
    BY <1>6, AfterOfferFacts DEF Offer, IInv
  <2>2. broadcast' = broadcast /\ count' = count
    BY <1>6 DEF Offer
  <2>3. c \in fan'.rest => c \in fan.rest /\ fan'.msg = fan.msg
    BY <2>1
  <2> QED
    BY <1>1, <2>2, <2>3
<1> QED
  BY <1>3, <1>4, <1>5, <1>6, ServerKinds

\* What is offered to a client leaves its line older than the rest.
LEMMA FreshStep == ASSUME IInv, [Next]_vars PROVE FreshOK'
<1> SUFFICES ASSUME NEW c \in Clients, NEW x \in Line(c)'
             PROVE  IsFresh(c, x)'
  BY DEF FreshOK
<1>1. CASE x \in Line(c)
  <2>1. x \in Message /\ IsFresh(c, x)
    BY <1>1, LineFacts DEF IInv, FreshOK
  <2> QED
    BY <2>1, FreshKept
<1>2. CASE Offer(c) /\ x = fan.msg
  <2>1. fan'.rest = fan.rest \ {c}
    BY <1>2, AfterOfferFacts DEF Offer, IInv
  <2>2. broadcast' = broadcast /\ count' = count /\ fan.rest # {}
    BY <1>2 DEF Offer
  <2>3. fan.msg.ref <= count /\ \A i \in 1 .. Len(broadcast) : fan.msg.ref < broadcast[i].ref
    BY <2>2 DEF IInv, QueueOK
  <2>4. c \notin fan'.rest
    BY <2>1
  <2>5. x.ref <= count' /\ \A i \in 1 .. Len(broadcast') : x.ref < broadcast'[i].ref
    BY <1>2, <2>2, <2>3
  <2> QED
    BY <2>4, <2>5 DEF IsFresh
<1>3. CASE Answer(c) /\ x = answer[c]
  <2>1. x.kind # "event"
    BY <1>3 DEF IInv, AnswerOK
  <2> QED
    BY <2>1 DEF IsFresh
<1> QED
  BY <1>1, <1>2, <1>3, LineStep

\* Answers are no events.
LEMMA AnswerStep == ASSUME IInv, [Next]_vars PROVE AnswerOK'
<1>1. /\ answer \in [Clients -> Message \cup {NoMessage}]
      /\ reader \in [Clients -> {"off", "reading", "answering", "leaving", "done"}]
      /\ \A c \in Clients : /\ answer[c].kind # "event"
                            /\ reader[c] = "answering" => answer[c] \in Message
  BY DEF IInv, TypeOK, AnswerOK
<1>2. CASE Quiet
  BY <1>1, <1>2 DEF Quiet, AnswerOK
<1>3. CASE \E c \in Clients : Offer(c) \/ Drained(c)
  <2>1. UNCHANGED <<answer, reader>>
    BY <1>3 DEF Offer, Drained
  <2> QED
    BY <1>1, <2>1 DEF AnswerOK
<1>4. ASSUME NEW c \in Clients, Answer(c) PROVE AnswerOK'
  <2>1. NoMessage.kind # "event"
    BY DEF NoMessage
  <2>2. answer' = [answer EXCEPT ![c] = NoMessage] /\ reader' = [reader EXCEPT ![c] = "reading"]
    BY <1>4 DEF Answer
  <2> QED
    BY <1>1, <2>1, <2>2 DEF AnswerOK
<1>5. ASSUME NEW c \in Clients, NEW a \in Asks[c], handleMessage(c, a) PROVE AnswerOK'
  <2>1. PICK m \in Message : answer' = [answer EXCEPT ![c] = m] /\ m.kind # "event"
    BY <1>5, HandleFacts DEF IInv
  <2>2. reader' = [reader EXCEPT ![c] = "answering"]
    BY <1>5, HandleFacts DEF IInv
  <2> QED
    BY <1>1, <2>1, <2>2 DEF AnswerOK
<1> QED
  BY <1>2, <1>3, <1>4, <1>5, StepKinds

\* A further request, on record.
LEMMA AgainKept ==
    ASSUME NEW S, NEW q \in Seq(S), NEW a \in S, NEW t, NEW k \in Nat, Again(q, t, k)
    PROVE  Again(Append(q, a), t, k)
<1> DEFINE p == Append(q, a)
<1>1. Len(p) = Len(q) + 1 /\ Len(q) \in Nat /\ \A i \in 1 .. Len(q) : p[i] = q[i]
  BY AppendFacts
<1> HIDE DEF p
<1>2. PICK n \in (k + 1) .. Len(q) : q[n] = [type |-> "subscribe", topic |-> t]
  BY DEF Again
<1>3. n \in 1 .. Len(q) /\ n \in (k + 1) .. Len(p)
  BY <1>1, <1>2
<1>4. Again(p, t, k)
  BY <1>1, <1>2, <1>3 DEF Again
<1> QED
  BY <1>4 DEF p

\* A subscription is news to every earlier confirmation.
LEMMA AgainNow ==
    ASSUME NEW S, NEW q \in Seq(S), NEW a \in S, NEW t, NEW k \in Nat,
           a = [type |-> "subscribe", topic |-> t], k <= Len(q)
    PROVE  Again(Append(q, a), t, k)
<1> DEFINE p == Append(q, a)
<1>1. Len(p) = Len(q) + 1 /\ Len(q) \in Nat /\ p[Len(q) + 1] = a
  BY AppendFacts
<1> HIDE DEF p
<1>2. Len(q) + 1 \in (k + 1) .. Len(p)
  BY <1>1
<1>3. Again(p, t, k)
  BY <1>1, <1>2 DEF Again
<1> QED
  BY <1>3 DEF p

\* Who neither asks nor is answered has the same requests and subscriptions.
LEMMA AskedFrame ==
    ASSUME IInv, [Next]_vars, NEW c \in Clients, ~\E a \in Asks[c] : handleMessage(c, a)
    PROVE  asked'[c] = asked[c] /\ subscriptions'[c] = subscriptions[c]
<1>1. CASE UNCHANGED <<asked, subscriptions>>
  BY <1>1
<1>2. ASSUME NEW d \in Clients, NEW a \in Asks[d], handleMessage(d, a)
      PROVE  asked'[c] = asked[c] /\ subscriptions'[c] = subscriptions[c]
  <2>1. d # c
    BY <1>2
  <2>2. asked' = [asked EXCEPT ![d] = Append(asked[d], a)]
    BY <1>2, HandleFacts DEF IInv
  <2>3. \/ subscriptions' = [subscriptions EXCEPT ![d] = subscriptions[d] \cup {a.topic}]
        \/ subscriptions' = [subscriptions EXCEPT ![d] = subscriptions[d] \ {a.topic}]
        \/ subscriptions' = subscriptions
    BY <1>2, HandleFacts DEF IInv
  <2> QED
    BY <2>1, <2>2, <2>3 DEF IInv, TypeOK
<1> QED
  BY <1>1, <1>2, StepKinds DEF Quiet, Offer, Answer, Drained

\* A request is put on record.
LEMMA AskedStep ==
    ASSUME IInv, NEW c \in Clients, NEW a \in Asks[c], handleMessage(c, a)
    PROVE  asked[c] \in Seq(AllAsks) /\ a \in AllAsks /\ asked'[c] = Append(asked[c], a)
<1>1. asked \in [Clients -> Seq(AllAsks)]
  BY DEF IInv, TypeOK, AllAsks
<1>2. asked' = [asked EXCEPT ![c] = Append(asked[c], a)] /\ a \in AllAsks
  BY HandleFacts DEF IInv
<1> QED
  BY <1>1, <1>2

\* A confirmation stays right.
LEMMA RightKept ==
    ASSUME IInv, [Next]_vars, NEW c \in Clients, NEW x \in Message \cup {NoMessage}, IsRight(c, x)
    PROVE  IsRight(c, x)'
<1> SUFFICES ASSUME x.kind = "unsubscribed"
             PROVE  /\ x.ref <= Len(asked'[c])
                    /\ x.topic \in subscriptions'[c] => Again(asked'[c], x.topic, x.ref)
  BY DEF IsRight, Again
<1>1. /\ x.ref <= Len(asked[c])
      /\ x.topic \in subscriptions[c] => Again(asked[c], x.topic, x.ref)
  BY DEF IsRight
<1>2. CASE ~\E a \in Asks[c] : handleMessage(c, a)
  <2>1. asked'[c] = asked[c] /\ subscriptions'[c] = subscriptions[c]
    BY <1>2, AskedFrame
  <2> QED
    BY <1>1, <2>1
<1>3. ASSUME NEW a \in Asks[c], handleMessage(c, a)
      PROVE  /\ x.ref <= Len(asked'[c])
             /\ x.topic \in subscriptions'[c] => Again(asked'[c], x.topic, x.ref)
  <2>1. x.ref \in Nat
    BY DEF Message, NoMessage
  <2>2. asked[c] \in Seq(AllAsks) /\ a \in AllAsks /\ asked'[c] = Append(asked[c], a)
    BY <1>3, AskedStep
  <2>3. Len(asked'[c]) = Len(asked[c]) + 1 /\ Len(asked[c]) \in Nat
    BY <2>2, AppendFacts
  <2>4. x.ref <= Len(asked'[c])
    BY <1>1, <2>1, <2>3
  <2>5. ASSUME x.topic \in subscriptions'[c] PROVE Again(asked'[c], x.topic, x.ref)
    <3>1. CASE x.topic \in subscriptions[c]
      <4>1. Again(asked[c], x.topic, x.ref)
        BY <1>1, <3>1
      <4>2. Again(Append(asked[c], a), x.topic, x.ref)
        BY <2>1, <2>2, <4>1, AgainKept
      <4> QED
        BY <2>2, <4>2
    <3>2. CASE x.topic \notin subscriptions[c]
      <4>1. subscriptions \in [Clients -> SUBSET Topics]
        BY DEF IInv, TypeOK
      <4>2. a = [type |-> "subscribe", topic |-> a.topic] /\ x.topic = a.topic
        <5>1. \/ /\ a = [type |-> "subscribe", topic |-> a.topic]
                 /\ subscriptions' = [subscriptions EXCEPT ![c] = subscriptions[c] \cup {a.topic}]
              \/ subscriptions' = [subscriptions EXCEPT ![c] = subscriptions[c] \ {a.topic}]
              \/ subscriptions' = subscriptions
          BY <1>3, HandleFacts DEF IInv
        <5> QED
          BY <2>5, <3>2, <4>1, <5>1
      <4>3. Again(Append(asked[c], a), a.topic, x.ref)
        BY <1>1, <2>1, <2>2, <4>2, AgainNow
      <4> QED
        BY <2>2, <4>2, <4>3
    <3> QED
      BY <3>1, <3>2
  <2> QED
    BY <2>4, <2>5
<1> QED
  BY <1>2, <1>3

\* A confirmation is right when it is made, and stays so.
LEMMA UnsubscribedStep == ASSUME IInv, [Next]_vars PROVE UnsubscribedOK'
<1>1. answer \in [Clients -> Message \cup {NoMessage}]
  BY DEF IInv, TypeOK
<1>2. ASSUME NEW c \in Clients, NEW x \in Line(c)' PROVE IsRight(c, x)'
  <2>1. CASE x \in Line(c)
    <3>1. x \in Message /\ IsRight(c, x)
      BY <1>2, <2>1, LineFacts DEF IInv, UnsubscribedOK
    <3> QED
      BY <1>2, <3>1, RightKept
  <2>2. CASE Offer(c) /\ x = fan.msg
    <3>1. x.kind = "event"
      BY <2>2 DEF IInv, QueueOK, Offer
    <3> QED
      BY <3>1 DEF IsRight
  <2>3. CASE Answer(c) /\ x = answer[c]
    <3>1. x \in Message \cup {NoMessage} /\ IsRight(c, x)
      BY <1>1, <1>2, <2>3 DEF IInv, UnsubscribedOK
    <3> QED
      BY <1>2, <3>1, RightKept
  <2> QED
    BY <1>2, <2>1, <2>2, <2>3, LineStep
<1>3. ASSUME NEW c \in Clients, NEW x, x = answer'[c] PROVE IsRight(c, x)'
  <2>1. CASE x = answer[c]
    <3>1. x \in Message \cup {NoMessage} /\ IsRight(c, x)
      BY <1>1, <1>3, <2>1 DEF IInv, UnsubscribedOK
    <3> QED
      BY <1>3, <3>1, RightKept
  <2>2. CASE Answer(c)
    <3>1. x = NoMessage
      BY <1>1, <1>3, <2>2 DEF Answer
    <3>2. x.kind # "unsubscribed"
      BY <3>1 DEF NoMessage
    <3> QED
      BY <3>2 DEF IsRight
  <2>3. ASSUME NEW a \in Asks[c], handleMessage(c, a) PROVE IsRight(c, x)'
    <3>1. asked[c] \in Seq(AllAsks) /\ a \in AllAsks /\ asked'[c] = Append(asked[c], a)
      BY <2>3, AskedStep
    <3>2. Len(asked'[c]) = Len(asked[c]) + 1 /\ Len(asked[c]) \in Nat
      BY <3>1, AppendFacts
    <3>3. x.kind = "unsubscribed" =>
              /\ x.ref = Len(asked[c]) + 1 /\ x.topic = a.topic
              /\ subscriptions' = [subscriptions EXCEPT ![c] = subscriptions[c] \ {a.topic}]
      <4>1. PICK m \in Message :
                /\ answer' = [answer EXCEPT ![c] = m]
                /\ m.kind = "unsubscribed" =>
                      /\ m.ref = Len(asked[c]) + 1 /\ m.topic = a.topic
                      /\ subscriptions' = [subscriptions EXCEPT ![c] = subscriptions[c] \ {a.topic}]
        BY <2>3, HandleFacts DEF IInv
      <4>2. x = m
        BY <1>1, <1>3, <4>1
      <4> QED
        BY <4>1, <4>2
    <3>4. x.kind = "unsubscribed" => x.topic \notin subscriptions'[c] /\ x.ref <= Len(asked'[c])
      BY <3>2, <3>3 DEF IInv, TypeOK
    <3> QED
      BY <3>4 DEF IsRight
  <2>4. \/ answer'[c] = answer[c] \/ Answer(c) \/ \E a \in Asks[c] : handleMessage(c, a)
    <3>1. CASE UNCHANGED answer
      BY <3>1
    <3>2. ASSUME NEW d \in Clients, Answer(d) PROVE answer'[c] = answer[c] \/ Answer(c)
      <4>1. answer' = [answer EXCEPT ![d] = NoMessage]
        BY <3>2 DEF Answer
      <4> QED
        BY <1>1, <3>2, <4>1
    <3>3. ASSUME NEW d \in Clients, NEW a \in Asks[d], handleMessage(d, a)
          PROVE  answer'[c] = answer[c] \/ \E b \in Asks[c] : handleMessage(c, b)
      <4>1. PICK m \in Message : answer' = [answer EXCEPT ![d] = m]
        BY <3>3, HandleFacts DEF IInv
      <4> QED
        BY <1>1, <3>3, <4>1
    <3> QED
      BY <3>1, <3>2, <3>3, StepKinds DEF Quiet, Offer, Drained
  <2> QED
    BY <1>3, <2>1, <2>2, <2>3, <2>4
<1> QED
  BY <1>2, <1>3 DEF UnsubscribedOK

\* A line stays in order: events join it as the newest, when the client is subscribed.
LEMMA ViewStep == ASSUME IInv, [Next]_vars PROVE ViewOK'
<1> SUFFICES ASSUME NEW c \in Clients
             PROVE  View(asked'[c], seen'[c], send'[c])
  BY DEF ViewOK, View, InOrder, Before, Again
<1>1. /\ seen[c] \in Seq(Message) /\ send[c] \in Seq(Message)
      /\ send \in [Clients -> Seq(Message)] /\ seen \in [Clients -> Seq(Message)]
      /\ asked \in [Clients -> Seq(AllAsks)]
  BY DEF IInv, TypeOK, AllAsks
<1>2. View(asked[c], seen[c], send[c])
  BY DEF IInv, ViewOK
<1>3. CASE asked'[c] = asked[c] /\ seen'[c] = seen[c] /\ send'[c] = send[c]
  BY <1>2, <1>3
<1>4. ASSUME NEW d \in Clients, Offer(d)
      PROVE  View(asked'[c], seen'[c], send'[c])
  <2>1. asked' = asked /\ seen' = seen
    BY <1>4 DEF Offer
  <2>2. CASE send'[c] = send[c]
    BY <1>2, <2>1, <2>2
  <2>3. CASE send'[c] # send[c]
    <3>1. /\ send'[c] = Append(send[c], fan.msg) /\ c \in fan.rest
          /\ fan.msg.topic \in subscriptions[c]
      BY <1>1, <1>4, <2>3 DEF Offer
    <3>2. fan.msg \in Message
      BY <3>1, FanFacts
    <3>3. ASSUME NEW x \in Line(c) PROVE Before(asked[c], x, fan.msg)
      <4>1. x.kind = "event" => x.ref < fan.msg.ref
        BY <3>1, <3>3 DEF IInv, FreshOK, IsFresh
      <4>2. x.kind = "unsubscribed" /\ x.topic \in subscriptions[c] => Again(asked[c], x.topic, x.ref)
        BY <3>3 DEF IInv, UnsubscribedOK, IsRight
      <4> QED
        BY <3>1, <4>1, <4>2 DEF Before
    <3>4. \A x \in Elems(seen[c]) \cup Elems(send[c]) : Before(asked[c], x, fan.msg)
      BY <3>3 DEF Line
    <3>5. View(asked[c], seen[c], Append(send[c], fan.msg))
      BY <1>1, <1>2, <3>2, <3>4, ViewAppend
    <3> QED
      BY <2>1, <3>1, <3>5
  <2> QED
    BY <2>2, <2>3
<1>5. ASSUME NEW d \in Clients, Answer(d)
      PROVE  View(asked'[c], seen'[c], send'[c])
  <2>1. asked' = asked /\ seen' = seen /\ send' = [send EXCEPT ![d] = Append(send[d], answer[d])]
    BY <1>5 DEF Answer
  <2>2. CASE c # d
    BY <1>1, <1>2, <2>1, <2>2
  <2>3. CASE c = d
    <3>1. answer[c] \in Message /\ answer[c].kind # "event"
      BY <1>5, <2>3 DEF Answer, IInv, AnswerOK
    <3>2. \A x \in Elems(seen[c]) \cup Elems(send[c]) : Before(asked[c], x, answer[c])
      BY <3>1 DEF Before
    <3>3. View(asked[c], seen[c], Append(send[c], answer[c]))
      BY <1>1, <1>2, <3>1, <3>2, ViewAppend
    <3> QED
      BY <1>1, <2>1, <2>3, <3>3
  <2> QED
    BY <2>2, <2>3
<1>6. ASSUME NEW d \in Clients, Drained(d)
      PROVE  View(asked'[c], seen'[c], send'[c])
  <2>1. /\ asked' = asked /\ send[d] # << >>
        /\ send' = [send EXCEPT ![d] = Tail(send[d])]
        /\ seen' = seen \/ seen' = [seen EXCEPT ![d] = Append(seen[d], Head(send[d]))]
    BY <1>6 DEF Drained
  <2>2. CASE c # d
    BY <1>1, <1>2, <2>1, <2>2
  <2>3. CASE c = d
    <3>1. View(asked[c], seen[c], Tail(send[c]))
      BY <1>1, <1>2, <2>1, <2>3, ViewTail
    <3>2. View(asked[c], Append(seen[c], Head(send[c])), Tail(send[c]))
      BY <1>1, <1>2, <2>1, <2>3, ViewSend
    <3> QED
      BY <1>1, <2>1, <2>3, <3>1, <3>2
  <2> QED
    BY <2>2, <2>3
<1>7. ASSUME NEW d \in Clients, NEW a \in Asks[d], handleMessage(d, a)
      PROVE  View(asked'[c], seen'[c], send'[c])
  <2>1. /\ asked' = [asked EXCEPT ![d] = Append(asked[d], a)] /\ a \in AllAsks
        /\ seen' = seen /\ send' = send
    BY <1>7, HandleFacts DEF IInv, handleMessage
  <2>2. CASE c # d
    BY <1>1, <1>2, <2>1, <2>2
  <2>3. CASE c = d
    <3>1. View(Append(asked[c], a), seen[c], send[c])
      BY <1>1, <1>2, <2>1, ViewAsked
    <3> QED
      BY <1>1, <2>1, <2>3, <3>1
  <2> QED
    BY <2>2, <2>3
<1> QED
  BY <1>3, <1>4, <1>5, <1>6, <1>7, StepKinds DEF Quiet

-----------------------------------------------------------------------------
(***************************************************************************)
(* The theorems.                                                           *)
(***************************************************************************)

(***************************************************************************)
(* The invariant holds in every reachable state of the server and its      *)
(* clients.                                                                *)
(***************************************************************************)
THEOREM Invariance == Spec => []IInv
<1>1. IInv /\ [Next]_vars => IInv'
  BY TypeStep, QueueStep, ViewStep, FreshStep, UnsubscribedStep, AnswerStep DEF IInv
<1> QED
  BY <1>1, InitOK, PTL DEF Spec

(***************************************************************************)
(* The state has its types, and neither a client's channel nor the one of  *)
(* the broadcasts ever holds more than its size (SendChannelSize,          *)
(* BroadcastChanSize).                                                     *)
(***************************************************************************)
THEOREM TypeCorrect == Spec => []TypeOK
<1>1. IInv => TypeOK
  BY DEF IInv
<1> QED
  BY <1>1, Invariance, PTL

(***************************************************************************)
(* Every client sees events in the order of their broadcast, each once,    *)
(* and none after the confirmation that it unsubscribed unless it asked    *)
(* again, for any clients, topics and channel sizes (handleBroadcast,      *)
(* handleUnsubscribe, writePump).                                          *)
(***************************************************************************)
THEOREM ViewHolds == Spec => []ClientView
<1>1. ASSUME IInv PROVE ClientView
  <2> SUFFICES ASSUME NEW c \in Clients, NEW i \in DOMAIN seen[c], NEW j \in DOMAIN seen[c],
                      i < j, seen[c][j].kind = "event"
               PROVE  /\ seen[c][i].kind = "event" => seen[c][i].ref < seen[c][j].ref
                      /\ seen[c][i].kind = "unsubscribed" /\ seen[c][i].topic = seen[c][j].topic
                           => Resubscribed(c, seen[c][j].topic, seen[c][i].ref)
    BY DEF ClientView
  <2>1. seen[c] \in Seq(Message)
    BY <1>1 DEF IInv, TypeOK
  <2>2. Before(asked[c], seen[c][i], seen[c][j])
    BY <1>1, <2>1 DEF IInv, ViewOK, View, InOrder
  <2> QED
    BY <2>2 DEF Before, Again, Resubscribed
<1> QED
  BY <1>1, Invariance, PTL
=============================================================================
