-------------------------- MODULE SSEBrokerProofs --------------------------
(***************************************************************************)
(* Proofs about SSEBroker, for any number of publishers and streams and    *)
(* any buffer capacity.                                                    *)
(***************************************************************************)
EXTENDS SSEBroker, SequenceTheorems, FiniteSetTheorems, TLAPS

\* A publisher inside the range loop holds the read lock.
ReadersHold == \A p \in Publishers : ppc[p] \in {"looping", "sending"} => p \in readers

\* The channel a publisher has picked is still registered when it sends.
TargetRegistered == \A p \in Publishers : ppc[p] = "sending" => target[p] \in clients

\* A channel is registered only while its stream listens or is about to leave,
\* and closed only when the stream is done.
Lifecycle ==
  \A s \in Streams :
    /\ s \in clients => spc[s] \in {"streaming", "writing", "leaving", "unsubscribing"}
    /\ s \in closed  => spc[s] = "done"

\* A publisher that is at work has an event to send.
AtWork == \A p \in Publishers : ppc[p] # "idle" => EventOf(p) \in Event

Inv == TypeOK /\ ReadersHold /\ TargetRegistered /\ Lifecycle /\ AtWork /\ NoSendOnClosed

LEMMA InitInv == Init => Inv
  BY BrokerAssumption
  DEF Init, Inv, TypeOK, ReadersHold, TargetRegistered, Lifecycle, AtWork, NoSendOnClosed,
      PublisherLocations, StreamLocations

-----------------------------------------------------------------------------
LEMMA PublishInv ==
  ASSUME Inv, NEW p \in Publishers, Publish(p)
  PROVE  Inv'
<1> USE DEF Inv, Publish, RLock, streaming
<1>1. TypeOK'
  <2>1. sent[p] + 1 \in Nat
    BY DEF TypeOK
  <2>2. sent' \in [Publishers -> Nat]
    BY <2>1 DEF TypeOK
  <2>3. ppc' \in [Publishers -> PublisherLocations] /\ readers' \subseteq Publishers
    BY DEF TypeOK, PublisherLocations
  <2>. QED  BY <2>2, <2>3 DEF TypeOK
<1>2. ReadersHold' /\ TargetRegistered' /\ NoSendOnClosed'
  BY DEF TypeOK, ReadersHold, TargetRegistered, NoSendOnClosed
<1>3. Lifecycle'
  BY DEF Lifecycle
<1>4. AtWork'
  BY DEF AtWork, TypeOK, EventOf
<1>. QED  BY <1>1, <1>2, <1>3, <1>4

LEMMA PickInv ==
  ASSUME Inv, NEW p \in Publishers, Pick(p)
  PROVE  Inv'
<1> USE DEF Inv, Pick, streaming, lock
<1>1. TypeOK'
  BY DEF TypeOK, PublisherLocations
<1>2. ReadersHold' /\ TargetRegistered' /\ NoSendOnClosed' /\ AtWork'
  BY DEF TypeOK, ReadersHold, TargetRegistered, NoSendOnClosed, AtWork, EventOf
<1>3. Lifecycle'
  BY DEF Lifecycle
<1>. QED  BY <1>1, <1>2, <1>3

\* A delivery keeps the channels typed and within their buffers.
LEMMA DeliverType ==
  ASSUME TypeOK, NEW s \in Streams, NEW e \in Event, Deliver(e, s)
  PROVE  /\ channel' \in [Streams -> Seq(Event)]
         /\ \A x \in Streams : Len(channel'[x]) <= Capacity
         /\ dropped' \in [Streams -> SUBSET Event]
<1>1. CASE Len(channel[s]) < Capacity
  <2>1. channel' = [channel EXCEPT ![s] = Append(@, e)] /\ dropped' = dropped
    BY <1>1 DEF Deliver
  <2>2. channel[s] \in Seq(Event)
    BY DEF TypeOK
  <2>3. Append(channel[s], e) \in Seq(Event) /\ Len(Append(channel[s], e)) = Len(channel[s]) + 1
    BY <2>2, AppendProperties
  <2>4. Len(channel[s]) + 1 <= Capacity
    BY <1>1, <2>2, LenProperties, BrokerAssumption
  <2>. QED  BY <2>1, <2>3, <2>4 DEF TypeOK
<1>2. CASE ~(Len(channel[s]) < Capacity)
  <2>1. dropped' = [dropped EXCEPT ![s] = @ \cup {e}] /\ channel' = channel
    BY <1>2 DEF Deliver
  <2>. QED  BY <2>1 DEF TypeOK
<1>. QED  BY <1>1, <1>2

LEMMA SendInv ==
  ASSUME Inv, NEW p \in Publishers, Send(p)
  PROVE  Inv'
<1> USE DEF Inv, Send, streaming, lock
<1>1. target[p] \in clients /\ target[p] \in Streams /\ target[p] \notin closed
  BY DEF TargetRegistered, TypeOK, Lifecycle
<1>2. EventOf(p) \in Event
  BY DEF AtWork
<1>3. Deliver(EventOf(p), target[p])
  BY <1>1
<1>4. TypeOK'
  <2>1. /\ channel' \in [Streams -> Seq(Event)]
        /\ \A s \in Streams : Len(channel'[s]) <= Capacity
        /\ dropped' \in [Streams -> SUBSET Event]
    BY <1>1, <1>2, <1>3, DeliverType
  <2>. QED  BY <1>1, <2>1 DEF TypeOK, PublisherLocations
<1>5. ReadersHold' /\ TargetRegistered' /\ NoSendOnClosed' /\ AtWork'
  BY <1>1 DEF TypeOK, ReadersHold, TargetRegistered, NoSendOnClosed, AtWork, EventOf
<1>6. Lifecycle'
  BY DEF Lifecycle
<1>. QED  BY <1>4, <1>5, <1>6

LEMMA RUnlockInv ==
  ASSUME Inv, NEW p \in Publishers, RUnlock(p)
  PROVE  Inv'
<1> USE DEF Inv, RUnlock, streaming
<1>1. TypeOK'
  BY DEF TypeOK, PublisherLocations
<1>2. ReadersHold' /\ TargetRegistered' /\ NoSendOnClosed' /\ AtWork'
  BY DEF TypeOK, ReadersHold, TargetRegistered, NoSendOnClosed, AtWork, EventOf
<1>3. Lifecycle'
  BY DEF Lifecycle
<1>. QED  BY <1>1, <1>2, <1>3

\* The steps of a stream that do not touch the map of clients.
LEMMA QuietStreamStepInv ==
  ASSUME Inv, NEW s \in Streams,
         \/ Subscribe(s) \/ Written(s) \/ Disconnect(s)
         \/ Leave(s) \/ Unsubscribe(s) \/ Close(s)
  PROVE  Inv'
<1> USE DEF Inv, Subscribe, Written, Disconnect, Leave, Unsubscribe, Close,
            Lock, StreamTo, publishing, lock
<1>1. TypeOK'
  BY DEF TypeOK, StreamLocations
<1>2. ReadersHold' /\ TargetRegistered' /\ NoSendOnClosed' /\ AtWork'
  BY DEF ReadersHold, TargetRegistered, NoSendOnClosed, AtWork, EventOf
<1>3. Lifecycle'
  BY DEF Lifecycle, TypeOK
<1>. QED  BY <1>1, <1>2, <1>3

LEMMA ReceiveInv ==
  ASSUME Inv, NEW s \in Streams, Receive(s)
  PROVE  Inv'
<1> USE DEF Inv, Receive, StreamTo, publishing, lock
<1>1. /\ Head(channel[s]) \in Event /\ Tail(channel[s]) \in Seq(Event)
      /\ Len(Tail(channel[s])) = Len(channel[s]) - 1
  BY HeadTailProperties DEF TypeOK
<1>2. TypeOK'
  <2>1. Append(delivered[s], Head(channel[s])) \in Seq(Event)
    BY <1>1, AppendProperties DEF TypeOK
  <2>2. \A x \in Streams : Len(channel[x]) \in Nat
    BY LenProperties DEF TypeOK
  <2>3. \A x \in Streams : Len(channel'[x]) <= Capacity
    BY <1>1, <2>2, BrokerAssumption DEF TypeOK
  <2>. QED  BY <1>1, <2>1, <2>3 DEF TypeOK, StreamLocations
<1>3. ReadersHold' /\ TargetRegistered' /\ NoSendOnClosed' /\ AtWork'
  BY DEF ReadersHold, TargetRegistered, NoSendOnClosed, AtWork, EventOf
<1>4. Lifecycle'
  BY DEF Lifecycle, TypeOK
<1>. QED  BY <1>2, <1>3, <1>4

\* A writer changes the map when no publisher is inside its loop, so that no
\* channel that has been picked is removed.
LEMMA WriterStepInv ==
  ASSUME Inv, NEW s \in Streams, Register(s) \/ Deregister(s)
  PROVE  Inv'
<1> USE DEF Inv, Register, Deregister, Unlock, StreamTo
<1>1. \A p \in Publishers : ppc[p] \notin {"looping", "sending"}
  BY DEF ReadersHold
<1>2. TypeOK'
  <2>1. ppc' \in [Publishers -> PublisherLocations] /\ readers' \subseteq Publishers
    BY DEF TypeOK, PublisherLocations
  <2>2. spc' \in [Streams -> StreamLocations] /\ clients' \subseteq Streams
    BY DEF TypeOK, StreamLocations
  <2>. QED  BY <2>1, <2>2 DEF TypeOK
<1>3. ReadersHold' /\ TargetRegistered' /\ NoSendOnClosed' /\ AtWork'
  BY <1>1 DEF ReadersHold, TargetRegistered, NoSendOnClosed, AtWork, EventOf
<1>4. Lifecycle'
  BY DEF Lifecycle, TypeOK
<1>. QED  BY <1>2, <1>3, <1>4

LEMMA InvCorrect == Spec => []Inv
<1>1. Inv /\ [Next]_vars => Inv'
  <2> SUFFICES ASSUME Inv, [Next]_vars PROVE Inv'  OBVIOUS
  <2>1. CASE UNCHANGED vars
    BY <2>1 DEF vars, lock, publishing, streaming, Inv, TypeOK, ReadersHold,
       TargetRegistered, Lifecycle, AtWork, NoSendOnClosed, EventOf
  <2>. QED
    BY <2>1, PublishInv, PickInv, SendInv, RUnlockInv, QuietStreamStepInv, ReceiveInv,
       WriterStepInv
    DEF Next, PublisherStep, StreamStep
<1>. QED  BY InitInv, <1>1, PTL DEF Spec

\* The state of broker, publishers and streams is well typed.
THEOREM TypeCorrect == Spec => []TypeOK
<1>1. Inv => TypeOK  BY DEF Inv
<1>. QED  BY InvCorrect, <1>1, PTL

\* No publisher ever sends on a closed channel.
THEOREM NoSendOnClosedCorrect == Spec => []NoSendOnClosed
<1>1. Inv => NoSendOnClosed  BY DEF Inv
<1>. QED  BY InvCorrect, <1>1, PTL

-----------------------------------------------------------------------------
(***************************************************************************)
(* The order of what a stream gets: an event still to be sent to a stream  *)
(* is numbered higher than all that it has of its publisher.               *)
(***************************************************************************)
Got(s) == delivered[s] \o channel[s]

Ordered(q) ==
  \A i, j \in DOMAIN q : i < j /\ q[i].from = q[j].from => q[i].number < q[j].number

\* The event that the publisher is at work with has still to come to the stream.
Ahead(p, s) ==
  \/ ppc[p] = "waiting"
  \/ ppc[p] = "looping" /\ s \notin visited[p]
  \/ ppc[p] = "sending" /\ (s \notin visited[p] \/ s = target[p])

Below(q, s) ==
  \A p \in Publishers : \A i \in DOMAIN q : q[i].from = p =>
    q[i].number <= sent[p] /\ (Ahead(p, s) => q[i].number < sent[p])

TargetVisited == \A p \in Publishers : ppc[p] = "sending" => target[p] \in visited[p]

OrderInv ==
  TargetVisited /\ \A s \in Streams : Ordered(Got(s)) /\ Below(Got(s), s)

\* What is taken from the channel joins what was taken before.
LEMMA TakeKeepsGot ==
  ASSUME NEW S, NEW d \in Seq(S), NEW c \in Seq(S), c # <<>>
  PROVE  Append(d, Head(c)) \o Tail(c) = d \o c
<1> DEFINE l == Append(d, Head(c)) \o Tail(c)
           r == d \o c
<1>1. Head(c) \in S /\ Tail(c) \in Seq(S) /\ Len(c) \in Nat /\ Len(c) > 0
  BY HeadTailProperties, LenProperties, EmptySeq
<1>2. l \in Seq(S) /\ r \in Seq(S)
  BY <1>1, AppendProperties, ConcatProperties
<1>3. Len(l) = Len(r)
  BY <1>1, AppendProperties, ConcatProperties, HeadTailProperties
<1>4. \A i \in 1..Len(l) : l[i] = r[i]
  BY <1>1, AppendProperties, ConcatProperties, HeadTailProperties
<1>. QED  BY <1>2, <1>3, <1>4, SeqEqual

\* What is added to the channel is added to what its stream gets.
LEMMA ConcatAppend ==
  ASSUME NEW d \in Seq(Event), NEW c \in Seq(Event), NEW e \in Event
  PROVE  d \o Append(c, e) = Append(d \o c, e)
<1>1. <<e>> \in Seq(Event)
  OBVIOUS
<1>. QED  BY <1>1, AppendIsConcat, ConcatAssociative, ConcatProperties

LEMMA GotType ==
  ASSUME TypeOK, NEW s \in Streams
  PROVE  /\ Got(s) \in Seq(Event)
         /\ \A i \in DOMAIN Got(s) : Got(s)[i].from \in Publishers /\ Got(s)[i].number \in Nat \ {0}
<1>1. Got(s) \in Seq(Event)
  BY ConcatProperties DEF TypeOK, Got
<1>2. \A i \in DOMAIN Got(s) : Got(s)[i] \in Event
  BY <1>1
<1>. QED  BY <1>1, <1>2, BrokerAssumption

\* Steps after which the streams have what they had, and no publisher has more
\* to send to a stream than before, unless it has a new number.
LEMMA OrderKept ==
  ASSUME Inv, OrderInv, TargetVisited',
         \A s \in Streams : Got(s)' = Got(s),
         \A p \in Publishers :
           \/ sent'[p] = sent[p] /\ \A s \in Streams : Ahead(p, s)' => Ahead(p, s)
           \/ sent'[p] = sent[p] + 1
  PROVE  OrderInv'
<1> SUFFICES ASSUME NEW s \in Streams  PROVE Ordered(Got(s))' /\ Below(Got(s), s)'
  BY DEF OrderInv
<1>1. PICK q : q = Got(s)
  OBVIOUS
<1>2. Got(s)' = q /\ Ordered(q) /\ Below(q, s)
  BY <1>1 DEF OrderInv
<1>3. \A i \in DOMAIN q : q[i].number \in Nat
  BY <1>1, GotType, BrokerAssumption DEF Inv
<1>4. \A p \in Publishers : sent[p] \in Nat
  BY BrokerAssumption DEF Inv, TypeOK
<1>5. Ordered(Got(s))'
  BY <1>2 DEF Ordered
<1>6. Below(q, s)'
  BY <1>2, <1>3, <1>4 DEF Below
<1>. QED  BY <1>2, <1>5, <1>6 DEF Below

LEMMA PublishOrder ==
  ASSUME Inv, OrderInv, NEW p \in Publishers, Publish(p)
  PROVE  OrderInv'
<1> USE DEF Publish, RLock, streaming
<1>1. TargetVisited'
  BY DEF TargetVisited, OrderInv, Inv, TypeOK
<1>2. \A s \in Streams : Got(s)' = Got(s)
  BY DEF Got
<1>3. \A x \in Publishers :
        \/ sent'[x] = sent[x] /\ \A s \in Streams : Ahead(x, s)' => Ahead(x, s)
        \/ sent'[x] = sent[x] + 1
  BY DEF Ahead, Inv, TypeOK
<1>. QED  BY <1>1, <1>2, <1>3, OrderKept

LEMMA PickOrder ==
  ASSUME Inv, OrderInv, NEW p \in Publishers, Pick(p)
  PROVE  OrderInv'
<1> USE DEF Pick, streaming, lock
<1>1. TargetVisited'
  BY DEF TargetVisited, OrderInv, Inv, TypeOK
<1>2. \A s \in Streams : Got(s)' = Got(s)
  BY DEF Got
<1>3. \A x \in Publishers : sent'[x] = sent[x] /\ \A s \in Streams : Ahead(x, s)' => Ahead(x, s)
  BY DEF Ahead, Inv, TypeOK
<1>. QED  BY <1>1, <1>2, <1>3, OrderKept

\* The event delivered is numbered higher than all the stream has of its
\* publisher, which has it behind now.
LEMMA SendOrder ==
  ASSUME Inv, OrderInv, NEW p \in Publishers, Send(p)
  PROVE  OrderInv'
<1> USE DEF streaming, lock
<1>1. PICK t \in Streams : t = target[p]
  BY DEF Inv, Send, TargetRegistered, TypeOK
<1>2. PICK e : e = EventOf(p)
  OBVIOUS
<1>3. ppc[p] = "sending" /\ t \notin closed /\ t \in visited[p]
  BY <1>1 DEF Inv, Send, TargetRegistered, Lifecycle, OrderInv, TargetVisited
<1>4. e \in Event /\ e.from = p /\ e.number = sent[p]
  BY <1>2 DEF EventOf, Inv, AtWork, Send
<1>5. /\ Deliver(e, t) /\ ppc' = [ppc EXCEPT ![p] = "looping"]
      /\ target' = [target EXCEPT ![p] = Nobody]
      /\ sent' = sent /\ visited' = visited /\ delivered' = delivered
  BY <1>1, <1>2, <1>3 DEF Send
<1>6. TargetVisited'
  BY <1>5 DEF TargetVisited, OrderInv, Inv, TypeOK
<1>7. \A x \in Publishers, s \in Streams : Ahead(x, s)' => Ahead(x, s)
  BY <1>3, <1>5 DEF Ahead, Inv, TypeOK
<1>8. ~Ahead(p, t)' /\ Ahead(p, t)
  BY <1>1, <1>3, <1>5 DEF Ahead, Inv, TypeOK
<1>9. CASE channel' = channel
  <2>1. \A s \in Streams : Got(s)' = Got(s)
    BY <1>5, <1>9 DEF Got
  <2>. QED  BY <1>5, <1>6, <1>7, <2>1, OrderKept
<1>10. CASE channel' = [channel EXCEPT ![t] = Append(@, e)]
  <2> SUFFICES ASSUME NEW s \in Streams  PROVE Ordered(Got(s))' /\ Below(Got(s), s)'
    BY <1>6 DEF OrderInv
  <2>1. PICK q : q = Got(s)
    OBVIOUS
  <2>2. Ordered(q) /\ Below(q, s)
    BY <2>1 DEF OrderInv
  <2>3. q \in Seq(Event) /\ \A i \in DOMAIN q : q[i].from \in Publishers /\ q[i].number \in Nat
    BY <2>1, GotType, BrokerAssumption DEF Inv
  <2>4. \A x \in Publishers : sent[x] \in Nat
    BY BrokerAssumption DEF Inv, TypeOK
  <2>5. Below(q, s)'
    BY <1>5, <1>7, <2>2 DEF Below
  <2>6. CASE s # t
    <3>1. Got(s)' = q
      BY <1>5, <1>10, <2>1, <2>6 DEF Got, Inv, TypeOK
    <3>. QED  BY <2>2, <2>5, <3>1 DEF Ordered, Below
  <2>7. CASE s = t
    <3>1. PICK r : r = Append(q, e)
      OBVIOUS
    <3>2. Got(s)' = r
      <4>1. Got(s)' = delivered[s] \o Append(channel[s], e)
        BY <1>5, <1>10, <2>7 DEF Got, Inv, TypeOK
      <4>2. delivered[s] \in Seq(Event) /\ channel[s] \in Seq(Event)
        BY DEF Inv, TypeOK
      <4>3. delivered[s] \o Append(channel[s], e) = Append(delivered[s] \o channel[s], e)
        <5>1. e \in Event
          BY <1>4
        <5>. QED  BY <4>2, <5>1, ConcatAppend
      <4>. QED  BY <2>1, <3>1, <4>1, <4>3 DEF Got
    <3>3. \A i \in DOMAIN q : q[i].from = p => q[i].number < sent[p]
      BY <1>8, <2>2, <2>7 DEF Below
    <3>4. /\ Len(q) \in Nat /\ DOMAIN q = 1..Len(q) /\ DOMAIN r = 1..Len(q) + 1
          /\ r[Len(q) + 1] = e /\ \A i \in 1..Len(q) : r[i] = q[i]
      BY <1>4, <2>3, <3>1, AppendProperties, LenProperties
    <3>5. Ordered(r)
      BY <1>4, <2>2, <2>3, <3>3, <3>4 DEF Ordered
    <3>6. Ordered(Got(s))'
      BY <3>2, <3>5 DEF Ordered
    <3>7. Below(r, s)'
      <4> SUFFICES ASSUME NEW x \in Publishers, NEW i \in DOMAIN r, r[i].from = x
                   PROVE  r[i].number <= sent'[x] /\ (Ahead(x, s)' => r[i].number < sent'[x])
        BY DEF Below
      <4>1. CASE i \in 1..Len(q)
        BY <2>5, <3>4, <4>1 DEF Below
      <4>2. CASE i = Len(q) + 1
        <5>1. x = p /\ r[i].number = sent[p]
          BY <1>4, <3>4, <4>2
        <5>. QED  BY <1>5, <1>8, <2>4, <2>7, <5>1
      <4>. QED  BY <3>4, <4>1, <4>2
    <3>. QED  BY <3>2, <3>6, <3>7 DEF Below
  <2>. QED  BY <2>6, <2>7
<1>. QED  BY <1>5, <1>9, <1>10 DEF Deliver

LEMMA RUnlockOrder ==
  ASSUME Inv, OrderInv, NEW p \in Publishers, RUnlock(p)
  PROVE  OrderInv'
<1> USE DEF RUnlock, streaming
<1>1. TargetVisited'
  BY DEF TargetVisited, OrderInv, Inv, TypeOK
<1>2. \A s \in Streams : Got(s)' = Got(s)
  BY DEF Got
<1>3. \A x \in Publishers : sent'[x] = sent[x] /\ \A s \in Streams : Ahead(x, s)' => Ahead(x, s)
  BY DEF Ahead, Inv, TypeOK
<1>. QED  BY <1>1, <1>2, <1>3, OrderKept

LEMMA StreamOrder ==
  ASSUME Inv, OrderInv, NEW s \in Streams,
         StreamStep(s) \/ Written(s) \/ Disconnect(s)
  PROVE  OrderInv'
<1> USE DEF StreamStep, Subscribe, Register, Written, Disconnect, Leave, Unsubscribe,
            Deregister, Close, Lock, Unlock, publishing, lock
<1>1. /\ sent' = sent /\ visited' = visited /\ target' = target
      /\ delivered' = delivered /\ channel' = channel
      /\ \A p \in Publishers : ppc'[p] = ppc[p] \/ (ppc[p] = "waiting" /\ ppc'[p] = "looping")
  BY DEF Inv, TypeOK
<1>2. TargetVisited'
  BY <1>1 DEF TargetVisited, OrderInv
<1>3. \A x \in Streams : Got(x)' = Got(x)
  BY <1>1 DEF Got
<1>4. \A p \in Publishers : sent'[p] = sent[p] /\ \A x \in Streams : Ahead(p, x)' => Ahead(p, x)
  BY <1>1 DEF Ahead
<1>. QED  BY <1>2, <1>3, <1>4, OrderKept

LEMMA ReceiveKeepsGot ==
  ASSUME Inv, NEW s \in Streams, Receive(s)
  PROVE  \A x \in Streams : Got(x)' = Got(x)
<1> USE DEF Receive, publishing, lock
<1> SUFFICES ASSUME NEW x \in Streams  PROVE Got(x)' = Got(x)
  OBVIOUS
<1>1. delivered[x] \in Seq(Event) /\ channel[x] \in Seq(Event)
  BY DEF Inv, TypeOK
<1>2. CASE x # s
  BY <1>2 DEF Got, Inv, TypeOK
<1>3. CASE x = s
  <2>1. Got(x)' = Append(delivered[x], Head(channel[x])) \o Tail(channel[x])
    BY <1>3 DEF Got, Inv, TypeOK
  <2>. QED  BY <1>1, <1>3, <2>1, TakeKeepsGot DEF Got
<1>. QED  BY <1>2, <1>3

LEMMA ReceiveOrder ==
  ASSUME Inv, OrderInv, NEW s \in Streams, Receive(s)
  PROVE  OrderInv'
<1> USE DEF Receive, publishing, lock
<1>1. TargetVisited'
  BY DEF TargetVisited, OrderInv
<1>2. \A x \in Streams : Got(x)' = Got(x)
  BY ReceiveKeepsGot
<1>3. \A p \in Publishers : sent'[p] = sent[p] /\ \A x \in Streams : Ahead(p, x)' => Ahead(p, x)
  BY DEF Ahead
<1>. QED  BY <1>1, <1>2, <1>3, OrderKept

LEMMA OrderInvCorrect == Spec => []OrderInv
<1>1. Init => OrderInv
  BY EmptySeq, ConcatProperties DEF Init, OrderInv, TargetVisited, Ordered, Below, Got
<1>2. Inv /\ OrderInv /\ [Next]_vars => OrderInv'
  <2> SUFFICES ASSUME Inv, OrderInv, [Next]_vars PROVE OrderInv'  OBVIOUS
  <2>1. CASE UNCHANGED vars
    <3> USE <2>1 DEF vars, publishing, streaming, lock
    <3>1. TargetVisited' /\ \A s \in Streams : Got(s)' = Got(s)
      BY DEF TargetVisited, OrderInv, Got
    <3>2. \A p \in Publishers : sent'[p] = sent[p] /\ \A s \in Streams : Ahead(p, s)' => Ahead(p, s)
      BY DEF Ahead
    <3>. QED  BY <3>1, <3>2, OrderKept
  <2>. QED
    BY <2>1, PublishOrder, PickOrder, SendOrder, RUnlockOrder, StreamOrder, ReceiveOrder
    DEF Next, PublisherStep
<1>. QED  BY InvCorrect, <1>1, <1>2, PTL DEF Spec

\* Each stream gets each publisher's events in the order of its publishes and
\* none of them twice, whatever is dropped in between.
THEOREM InOrderCorrect == Spec => []InOrder
<1>1. OrderInv => InOrder
  BY DEF OrderInv, InOrder, Ordered, Got
<1>. QED  BY OrderInvCorrect, <1>1, PTL

-----------------------------------------------------------------------------
(***************************************************************************)
(* Who has been served: of the channels that a publisher's loop has done   *)
(* with, each has taken its event or was full.                             *)
(***************************************************************************)
Has(s, e) == (\E i \in DOMAIN Got(s) : Got(s)[i] = e) \/ e \in dropped[s]

Served ==
  \A p \in Publishers :
    /\ ppc[p] = "waiting" => visited[p] = {}
    /\ ppc[p] = "looping" => \A s \in clients \cap visited[p] : Has(s, EventOf(p))
    /\ ppc[p] = "sending" =>
         \A s \in clients \cap visited[p] : s # target[p] => Has(s, EventOf(p))

\* Steps after which every stream has what it had keep Served, if no publisher
\* gets further and no channel is added to the map that a loop has passed.
LEMMA ServedKept ==
  ASSUME Inv, Served, UNCHANGED <<sent, visited, target>>,
         \A s \in Streams : Got(s)' = Got(s) /\ dropped'[s] = dropped[s],
         \A p \in Publishers :
           \/ ppc'[p] = ppc[p] /\ (ppc[p] \in {"looping", "sending"} => clients' = clients)
           \/ ppc[p] = "waiting" /\ ppc'[p] = "looping"
           \/ ppc'[p] = "idle"
  PROVE  Served'
<1>1. \A s \in Streams, e \in Event : Has(s, e)' <=> Has(s, e)
  BY DEF Has
<1>2. \A p \in Publishers : ppc[p] \in {"looping", "sending"} => EventOf(p) \in Event
  BY DEF Inv, AtWork
<1>3. \A p \in Publishers : EventOf(p)' = EventOf(p)
  BY DEF EventOf
<1>4. clients \subseteq Streams
  BY DEF Inv, TypeOK
<1> SUFFICES ASSUME NEW p \in Publishers
             PROVE  /\ ppc'[p] = "waiting" => visited'[p] = {}
                    /\ ppc'[p] = "looping" =>
                         \A s \in clients' \cap visited'[p] : Has(s, EventOf(p))'
                    /\ ppc'[p] = "sending" =>
                         \A s \in clients' \cap visited'[p] : s # target'[p] => Has(s, EventOf(p))'
  BY DEF Served
<1>5. CASE ppc[p] = "waiting" /\ ppc'[p] = "looping"
  BY <1>5 DEF Served
<1>6. CASE ppc'[p] = "idle"
  BY <1>6
<1>7. CASE ppc'[p] = ppc[p] /\ (ppc[p] \in {"looping", "sending"} => clients' = clients)
  <2>1. \A s \in clients : ppc[p] \in {"looping", "sending"} =>
          (Has(s, EventOf(p))' <=> Has(s, EventOf(p)))
    <3> SUFFICES ASSUME NEW s \in clients, ppc[p] \in {"looping", "sending"}
                 PROVE  Has(s, EventOf(p))' <=> Has(s, EventOf(p))
      OBVIOUS
    <3>1. PICK e \in Event : e = EventOf(p)
      BY <1>2
    <3> QED BY <1>1, <1>3, <1>4, <3>1 DEF Has
  <2> QED BY <1>7, <2>1 DEF Served
<1> QED BY <1>5, <1>6, <1>7

\* What a stream has of a publisher's event, where neither has moved.
LEMMA HasKept ==
  ASSUME UNCHANGED <<channel, delivered, dropped>>, NEW s \in Streams,
         NEW x \in Publishers, sent'[x] = sent[x]
  PROVE  Has(s, EventOf(x))' <=> Has(s, EventOf(x))
<1>1. EventOf(x)' = EventOf(x)
  BY DEF EventOf
<1>2. Got(s)' = Got(s) /\ dropped'[s] = dropped[s]
  BY DEF Got
<1> QED BY <1>1, <1>2 DEF Has

LEMMA PublishServed ==
  ASSUME Inv, Served, NEW p \in Publishers, Publish(p)
  PROVE  Served'
<1>1. /\ visited' = [visited EXCEPT ![p] = {}] /\ sent' = [sent EXCEPT ![p] = @ + 1]
      /\ UNCHANGED <<clients, channel, target, delivered, dropped>>
      /\ ppc' = [ppc EXCEPT ![p] = ppc'[p]] /\ ppc'[p] \in {"looping", "waiting"}
  BY DEF Publish, RLock, streaming, Inv, TypeOK
<1>2. \A x \in Publishers \ {p} :
        ppc'[x] = ppc[x] /\ visited'[x] = visited[x] /\ sent'[x] = sent[x]
  BY <1>1 DEF Inv, TypeOK
<1>3. visited'[p] = {}
  BY <1>1 DEF Inv, TypeOK
<1> SUFFICES ASSUME NEW x \in Publishers
             PROVE  /\ ppc'[x] = "waiting" => visited'[x] = {}
                    /\ ppc'[x] = "looping" =>
                         \A s \in clients' \cap visited'[x] : Has(s, EventOf(x))'
                    /\ ppc'[x] = "sending" =>
                         \A s \in clients' \cap visited'[x] : s # target'[x] => Has(s, EventOf(x))'
  BY DEF Served
<1>4. CASE x = p
  BY <1>1, <1>3, <1>4
<1>5. CASE x # p
  <2>1. \A s \in clients : Has(s, EventOf(x))' <=> Has(s, EventOf(x))
    BY <1>1, <1>2, <1>5, HasKept DEF Inv, TypeOK
  <2> QED BY <1>1, <1>2, <1>5, <2>1 DEF Served
<1> QED BY <1>4, <1>5

LEMMA PickServed ==
  ASSUME Inv, Served, NEW p \in Publishers, Pick(p)
  PROVE  Served'
<1>1. PICK t \in clients : /\ target' = [target EXCEPT ![p] = t]
                           /\ visited' = [visited EXCEPT ![p] = @ \cup {t}]
  BY DEF Pick
<1>2. /\ ppc[p] = "looping" /\ ppc' = [ppc EXCEPT ![p] = "sending"]
      /\ UNCHANGED <<clients, channel, sent, delivered, dropped>>
  BY DEF Pick, streaming
<1>3. \A x \in Publishers \ {p} :
        ppc'[x] = ppc[x] /\ visited'[x] = visited[x] /\ target'[x] = target[x]
  BY <1>1, <1>2 DEF Inv, TypeOK
<1>4. ppc'[p] = "sending" /\ visited'[p] = visited[p] \cup {t} /\ target'[p] = t
  BY <1>1, <1>2 DEF Inv, TypeOK
<1>5. \A x \in Publishers, s \in clients : Has(s, EventOf(x))' <=> Has(s, EventOf(x))
  BY <1>2, HasKept DEF Inv, TypeOK
<1> SUFFICES ASSUME NEW x \in Publishers
             PROVE  /\ ppc'[x] = "waiting" => visited'[x] = {}
                    /\ ppc'[x] = "looping" =>
                         \A s \in clients' \cap visited'[x] : Has(s, EventOf(x))'
                    /\ ppc'[x] = "sending" =>
                         \A s \in clients' \cap visited'[x] : s # target'[x] => Has(s, EventOf(x))'
  BY DEF Served
<1>6. CASE x = p
  BY <1>2, <1>4, <1>6, <1>5 DEF Served
<1>7. CASE x # p
  <2>1. \A s \in clients : Has(s, EventOf(x))' <=> Has(s, EventOf(x))
    BY <1>5, HasKept DEF Inv, TypeOK
  <2> QED BY <1>2, <1>3, <1>7, <2>1 DEF Served
<1> QED BY <1>6, <1>7

\* The channel in work has taken the event, or was full.
LEMMA SendServed ==
  ASSUME Inv, Served, NEW p \in Publishers, Send(p)
  PROVE  Served'
<1>1. PICK t \in Streams : t = target[p]
  BY DEF Inv, Send, TargetRegistered, TypeOK
<1>2. PICK e \in Event : e = EventOf(p)
  BY DEF EventOf, Inv, AtWork, Send
<1>3. /\ Deliver(e, t) /\ ppc[p] = "sending" /\ ppc' = [ppc EXCEPT ![p] = "looping"]
      /\ target' = [target EXCEPT ![p] = Nobody]
      /\ UNCHANGED <<clients, sent, visited, delivered>>
  BY <1>1, <1>2 DEF Send, Inv, TargetRegistered, Lifecycle, streaming
<1>4. \A s \in Streams : Got(s) \in Seq(Event) /\ delivered[s] \in Seq(Event) /\ channel[s] \in Seq(Event)
  BY GotType DEF Inv, TypeOK
<1>5. /\ \A s \in Streams : \A x \in Event : Has(s, x) => Has(s, x)'
      /\ Has(t, e)'
  <2>1. CASE channel' = channel /\ dropped' = [dropped EXCEPT ![t] = @ \cup {e}]
    <3>1. /\ \A s \in Streams : dropped[s] \subseteq dropped'[s]
          /\ e \in dropped'[t]
      BY <2>1 DEF Inv, TypeOK
    <3> QED BY <1>3, <2>1, <3>1 DEF Has, Got
  <2>2. CASE channel' = [channel EXCEPT ![t] = Append(@, e)] /\ dropped' = dropped
    <3>1. \A s \in Streams \ {t} : Got(s)' = Got(s)
      BY <1>3, <2>2 DEF Got, Inv, TypeOK
    <3>2. Got(t)' = Append(Got(t), e)
      <4>1. Got(t)' = delivered[t] \o Append(channel[t], e)
        BY <1>3, <2>2 DEF Got, Inv, TypeOK
      <4> QED BY <1>4, <4>1, ConcatAppend DEF Got
    <3>3. \A q \in Seq(Event) :
            /\ \A i \in DOMAIN q : i \in DOMAIN Append(q, e) /\ Append(q, e)[i] = q[i]
            /\ Len(q) + 1 \in DOMAIN Append(q, e) /\ Append(q, e)[Len(q) + 1] = e
      BY AppendProperties, LenProperties
    <3>4. \A s \in Streams \ {t} : \A x \in Event : Has(s, x) => Has(s, x)'
      BY <2>2, <3>1 DEF Has
    <3>5. \A x \in Event : Has(t, x) => Has(t, x)'
      BY <1>4, <2>2, <3>2, <3>3 DEF Has
    <3>6. Has(t, e)'
      BY <1>4, <3>2, <3>3 DEF Has
    <3> QED BY <3>4, <3>5, <3>6
  <2> QED BY <1>3, <2>1, <2>2 DEF Deliver
<1>6. \A x \in Publishers \ {p} : ppc'[x] = ppc[x] /\ target'[x] = target[x]
  BY <1>3 DEF Inv, TypeOK
<1>7. \A x \in Publishers : ppc[x] \in {"looping", "sending"} => EventOf(x) \in Event
  BY DEF Inv, AtWork
<1>8. \A x \in Publishers : EventOf(x)' = EventOf(x)
  BY <1>3 DEF EventOf
<1>9. clients \subseteq Streams /\ ppc'[p] = "looping"
  BY <1>3 DEF Inv, TypeOK
<1>10. ASSUME NEW x \in Publishers, NEW s \in Streams, EventOf(x) \in Event, Has(s, EventOf(x))
       PROVE  Has(s, EventOf(x))'
  <2>1. PICK y \in Event : y = EventOf(x)
    BY <1>10
  <2> QED BY <1>5, <1>8, <1>10, <2>1 DEF Has
<1>11. Has(t, EventOf(p))'
  BY <1>2, <1>5, <1>8 DEF Has
<1> QED BY <1>1, <1>3, <1>6, <1>7, <1>9, <1>10, <1>11 DEF Served

\* The other steps give and take nothing; a writer enters the map when no loop
\* is on its way.
LEMMA OthersServed ==
  ASSUME Inv, Served,
         \/ \E p \in Publishers : RUnlock(p)
         \/ \E s \in Streams : StreamStep(s) \/ Written(s) \/ Disconnect(s) \/ Receive(s)
         \/ UNCHANGED vars
  PROVE  Served'
<1>1. ASSUME NEW p \in Publishers, RUnlock(p) PROVE Served'
  BY <1>1, ServedKept DEF RUnlock, streaming, Got, Inv, TypeOK
<1>2. ASSUME NEW s \in Streams, Register(s) \/ Deregister(s) PROVE Served'
  <2>1. \A p \in Publishers : ppc[p] \notin {"looping", "sending"}
    BY <1>2 DEF Register, Deregister, Inv, ReadersHold
  <2> QED BY <1>2, <2>1, ServedKept DEF Register, Deregister, Unlock, Got, Inv, TypeOK
<1>3. ASSUME NEW s \in Streams,
             \/ Subscribe(s) \/ Leave(s) \/ Unsubscribe(s) \/ Close(s)
             \/ Written(s) \/ Disconnect(s)
      PROVE  Served'
  BY <1>3, ServedKept DEF Subscribe, Leave, Unsubscribe, Close, Written, Disconnect, Lock,
                          publishing, lock, Got
<1>4. ASSUME NEW s \in Streams, Receive(s) PROVE Served'
  <2>1. UNCHANGED <<sent, visited, target, ppc, clients, dropped>>
    BY <1>4 DEF Receive, publishing
  <2>2. \A x \in Streams : Got(x)' = Got(x)
    BY <1>4, ReceiveKeepsGot
  <2> QED BY <2>1, <2>2, ServedKept
<1>5. CASE UNCHANGED vars
  BY <1>5, ServedKept DEF vars, publishing, streaming, lock, Got
<1> QED BY <1>1, <1>2, <1>3, <1>4, <1>5 DEF StreamStep

LEMMA ServedCorrect == Spec => []Served
<1>1. Init => Served
  BY DEF Init, Served
<1>2. Inv /\ Served /\ [Next]_vars => Served'
  BY PublishServed, PickServed, SendServed, OthersServed DEF Next, PublisherStep
<1> QED BY InvCorrect, <1>1, <1>2, PTL DEF Spec

\* Whenever a Publish returns, every channel that is registered then has taken
\* its event or was full when its turn came, whoever came and went meanwhile.
THEOREM EverySubscriberServedCorrect == Spec => EverySubscriberServed
<1>1. ASSUME Inv, Served, [Next]_vars, NEW p \in Publishers, ppc[p] # "idle", ppc'[p] = "idle",
             NEW s \in clients
      PROVE  EventOf(p) \in Range(delivered[s] \o channel[s]) \/ EventOf(p) \in dropped[s]
  <2>1. RUnlock(p)
    BY <1>1 DEF Next, vars, publishing, lock, streaming, PublisherStep, StreamStep, Publish, RLock,
                Pick, Send, RUnlock, Subscribe, Register, Leave, Unsubscribe, Deregister, Close,
                Receive, Written, Disconnect, Lock, Unlock, Inv, TypeOK
  <2>2. Has(s, EventOf(p))
    BY <1>1, <2>1 DEF RUnlock, Served
  <2> QED BY <2>2 DEF Has, Got, Range
<1>2. Inv /\ Served /\ [Next]_vars =>
        [\A p \in Publishers : ppc[p] # "idle" /\ ppc'[p] = "idle" =>
           \A s \in clients : \/ EventOf(p) \in Range(delivered[s] \o channel[s])
                              \/ EventOf(p) \in dropped[s]]_vars
  BY <1>1
<1> QED BY InvCorrect, ServedCorrect, <1>2, PTL DEF Spec, EverySubscriberServed

-----------------------------------------------------------------------------
(***************************************************************************)
(* The broker implements the topic.                                        *)
(***************************************************************************)
\* A publisher has a target only while it sends, and a stream that has not been
\* registered has nothing in its channel.
Private ==
  /\ \A p \in Publishers : ppc[p] # "sending" => target[p] = Nobody
  /\ \A s \in Streams : spc[s] \in {"connecting", "subscribing"} => channel[s] = <<>>

TopicInv == Inv /\ TargetVisited /\ Served /\ Private

LEMMA PrivateCorrect == Spec => []Private
<1>1. Init => Private
  BY DEF Init, Private
<1>2. ASSUME Inv, Private, [Next]_vars
      PROVE  Private'
  <2>1. ASSUME NEW p \in Publishers, Publish(p) \/ Pick(p) \/ RUnlock(p)
        PROVE  Private'
    BY <1>2, <2>1 DEF Publish, RLock, Pick, RUnlock, streaming, Private, Inv, TypeOK
  <2>2. ASSUME NEW p \in Publishers, Send(p)
        PROVE  Private'
    <3>1. target[p] \in Streams /\ spc[target[p]] \notin {"connecting", "subscribing"}
      BY <1>2, <2>2 DEF Send, Inv, TypeOK, TargetRegistered, Lifecycle
    <3>2. \A s \in Streams : s # target[p] => channel'[s] = channel[s]
      BY <1>2, <2>2, <3>1 DEF Send, Deliver, Inv, TypeOK
    <3>. QED  BY <1>2, <2>2, <3>1, <3>2 DEF Send, streaming, Private, Inv, TypeOK
  <2>3. ASSUME NEW s \in Streams, StreamStep(s) \/ Written(s) \/ Disconnect(s)
        PROVE  Private'
    BY <1>2, <2>3 DEF StreamStep, Subscribe, Register, Written, Disconnect, Leave, Unsubscribe,
         Deregister, Close, Lock, Unlock, StreamTo, publishing, lock, Private, Inv, TypeOK
  <2>4. ASSUME NEW s \in Streams, Receive(s)
        PROVE  Private'
    BY <1>2, <2>4 DEF Receive, StreamTo, publishing, lock, Private, Inv, TypeOK
  <2>5. CASE UNCHANGED vars
    BY <1>2, <2>5 DEF vars, publishing, streaming, lock, Private
  <2>. QED  BY <1>2, <2>1, <2>2, <2>3, <2>4, <2>5 DEF Next, PublisherStep
<1>. QED  BY InvCorrect, <1>1, <1>2, PTL DEF Spec

LEMMA TopicInvCorrect == Spec => []TopicInv
<1>1. OrderInv => TargetVisited
  BY DEF OrderInv
<1>. QED  BY InvCorrect, OrderInvCorrect, ServedCorrect, PrivateCorrect, <1>1, PTL DEF TopicInv

\* Publishing begins.
LEMMA PublishTopic ==
  ASSUME TopicInv, NEW p \in Publishers, Publish(p)
  PROVE  Topic!Publish(p)
<1> USE DEF TopicInv, Inv
<1>1. ppc[p] = "idle" /\ ppc'[p] \in {"looping", "waiting"} /\ visited'[p] = {}
  BY DEF Publish, RLock, TypeOK
<1>2. \A x \in Publishers \ {p} :
        UNCHANGED <<ppc[x], visited[x], target[x], sent[x]>>
  BY DEF Publish, RLock, TypeOK
<1>3. PICK e \in Event : e = EventOf(p)'
  <2>1. EventOf(p)' = [from |-> p, number |-> sent[p] + 1]
    BY DEF Publish, TypeOK, EventOf
  <2>. QED  BY <2>1 DEF Publish
<1>4. Posting(p) = {} /\ Posting(p)' = {e} /\ ServedBy(p) = {} /\ ServedBy(p)' = {}
  BY <1>1, <1>3 DEF Posting, ServedBy
<1>5. \A x \in Publishers \ {p} : Posting(x)' = Posting(x) /\ ServedBy(x)' = ServedBy(x)
  BY <1>2 DEF Posting, ServedBy, EventOf
<1>6. \A s \in Streams : Queue(s)' = Queue(s)
  BY DEF Queue, Publish
<1>7. postings' = [postings EXCEPT ![p] = {e}] /\ postings[p] = {}
  BY <1>4, <1>5 DEF postings
<1>8. servings' = servings
  BY <1>4, <1>5 DEF servings
<1>9. queues' = queues
  BY <1>6 DEF queues
<1>. QED  BY <1>7, <1>8, <1>9 DEF Topic!Publish, Publish

\* The choice of the next channel is invisible.
LEMMA PickTopic ==
  ASSUME TopicInv, NEW p \in Publishers, Pick(p)
  PROVE  UNCHANGED <<clients, queues, postings, servings>>
<1> USE DEF TopicInv, Inv
<1>1. PICK t \in clients \ visited[p] :
        /\ target' = [target EXCEPT ![p] = t]
        /\ visited' = [visited EXCEPT ![p] = @ \cup {t}]
  BY DEF Pick
<1>2. ppc[p] = "looping" /\ ppc' = [ppc EXCEPT ![p] = "sending"] /\ UNCHANGED <<clients, channel, sent>>
  BY DEF Pick
<1>3. \A x \in Publishers \ {p} : UNCHANGED <<ppc[x], visited[x], target[x], sent[x]>>
  BY <1>1, <1>2 DEF TypeOK
<1>4. target[p] = Nobody /\ Nobody \notin visited[p]
  BY <1>2, BrokerAssumption DEF Private, TypeOK
<1>5. ppc'[p] = "sending" /\ visited'[p] = visited[p] \cup {t} /\ target'[p] = t
  BY <1>1, <1>2 DEF TypeOK
<1>6. EventOf(p)' = EventOf(p)
  BY <1>2 DEF EventOf
<1>7. Posting(p)' = Posting(p) /\ ServedBy(p)' = ServedBy(p)
  BY <1>1, <1>2, <1>4, <1>5, <1>6 DEF Posting, ServedBy
<1>8. \A x \in Publishers \ {p} : Posting(x)' = Posting(x) /\ ServedBy(x)' = ServedBy(x)
  BY <1>3 DEF Posting, ServedBy, EventOf
<1>9. postings' = postings /\ servings' = servings
  BY <1>7, <1>8 DEF postings, servings
<1>10. queues' = queues
  BY <1>2 DEF queues, Queue
<1>. QED  BY <1>2, <1>9, <1>10

\* The send to a channel offers the event to its stream.
LEMMA SendTopic ==
  ASSUME TopicInv, NEW p \in Publishers, Send(p)
  PROVE  \E s \in Streams : Topic!Serve(p, s)
<1> USE DEF TopicInv, Inv
<1>1. PICK t \in Streams : t = target[p]
  BY DEF Send, TargetRegistered, TypeOK
<1>2. PICK e : e = EventOf(p)
  OBVIOUS
<1>3. t \in clients /\ t \in visited[p] /\ t \notin closed /\ ppc[p] = "sending"
  BY <1>1 DEF Send, TargetRegistered, TargetVisited, Lifecycle
<1>4. /\ Deliver(e, t) /\ ppc' = [ppc EXCEPT ![p] = "looping"]
      /\ target' = [target EXCEPT ![p] = Nobody] /\ UNCHANGED <<clients, sent, visited>>
  BY <1>1, <1>2, <1>3 DEF Send
<1>5. \A x \in Publishers \ {p} : UNCHANGED <<ppc[x], visited[x], target[x], sent[x]>>
  BY <1>4 DEF TypeOK
<1>6. ppc'[p] = "looping" /\ target'[p] = Nobody /\ visited'[p] = visited[p] /\ Nobody \notin visited[p]
  BY <1>4, BrokerAssumption DEF TypeOK
<1>7. EventOf(p)' = EventOf(p)
  BY <1>4 DEF EventOf
<1>8. Posting(p) = {e} /\ Posting(p)' = {e}
  BY <1>2, <1>3, <1>6, <1>7 DEF Posting
<1>9. t \notin ServedBy(p) /\ ServedBy(p)' = ServedBy(p) \cup {t}
  BY <1>1, <1>3, <1>6, <1>8 DEF ServedBy
<1>10. \A x \in Publishers \ {p} : Posting(x)' = Posting(x) /\ ServedBy(x)' = ServedBy(x)
  BY <1>5 DEF Posting, ServedBy, EventOf
<1>11. postings' = postings /\ postings[p] = {e}
  BY <1>8, <1>10 DEF postings
<1>12. servings' = [servings EXCEPT ![p] = @ \cup {t}] /\ t \notin servings[p]
  BY <1>9, <1>10 DEF servings
<1>13. queues' = [queues EXCEPT ![t] = IF Len(@) < Capacity THEN Append(@, e) ELSE @]
  <2>1. queues[t] = channel[t] /\ queues \in [Streams -> {queues[s] : s \in Streams}]
    BY <1>3 DEF queues, Queue
  <2>2. channel' = [channel EXCEPT ![t] = IF Len(channel[t]) < Capacity THEN Append(@, e) ELSE @]
    BY <1>4 DEF Deliver, TypeOK
  <2>3. \A s \in Streams \ {t} : Queue(s)' = Queue(s)
    BY <1>4, <2>2 DEF Queue, TypeOK
  <2>4. Queue(t)' = IF Len(channel[t]) < Capacity THEN Append(channel[t], e) ELSE channel[t]
    BY <1>3, <1>4, <2>2 DEF Queue, TypeOK
  <2>. QED  BY <2>1, <2>3, <2>4 DEF queues
<1>. QED  BY <1>3, <1>4, <1>11, <1>12, <1>13 DEF Topic!Serve

\* The end of the loop ends the publish.
LEMMA RUnlockTopic ==
  ASSUME TopicInv, NEW p \in Publishers, RUnlock(p)
  PROVE  Topic!Return(p)
<1> USE DEF TopicInv, Inv
<1>1. /\ ppc[p] = "looping" /\ ppc' = [ppc EXCEPT ![p] = "idle"] /\ clients \subseteq visited[p]
      /\ UNCHANGED <<clients, channel, sent, visited, target>>
  BY DEF RUnlock
<1>2. target[p] = Nobody /\ Nobody \notin visited[p] /\ ppc'[p] = "idle"
  BY <1>1, BrokerAssumption DEF Private, TypeOK
<1>3. Posting(p) # {} /\ Posting(p)' = {} /\ ServedBy(p) = visited[p] /\ ServedBy(p)' = {}
  BY <1>1, <1>2 DEF Posting, ServedBy
<1>4. \A x \in Publishers \ {p} : Posting(x)' = Posting(x) /\ ServedBy(x)' = ServedBy(x)
  BY <1>1 DEF Posting, ServedBy, EventOf, TypeOK
<1>5. postings' = [postings EXCEPT ![p] = {}] /\ postings[p] # {}
  BY <1>3, <1>4 DEF postings
<1>6. servings' = [servings EXCEPT ![p] = {}] /\ clients \subseteq servings[p]
  BY <1>1, <1>3, <1>4 DEF servings
<1>7. queues' = queues
  BY <1>1 DEF queues, Queue
<1>. QED  BY <1>1, <1>5, <1>6, <1>7 DEF Topic!Return

\* While a writer is in the map no loop is on its way: the topic is settled,
\* and the publishers let in by the writer's Unlock have served nobody yet.
LEMMA UnlockTopic ==
  ASSUME TopicInv, readers = {}, Unlock, UNCHANGED <<sent, visited, target>>
  PROVE  Topic!Settled /\ UNCHANGED <<postings, servings>>
<1> USE DEF TopicInv, Inv
<1>1. \A p \in Publishers : ppc[p] \in {"idle", "waiting"}
  BY DEF ReadersHold, NoSendOnClosed, TypeOK, PublisherLocations
<1>2. \A p \in Publishers : ppc[p] = "waiting" => visited[p] = {} /\ ppc'[p] = "looping"
  BY DEF Served, Unlock
<1>3. \A p \in Publishers : ppc[p] = "idle" => ppc'[p] = "idle"
  BY DEF Unlock
<1>4. \A p \in Publishers : EventOf(p)' = EventOf(p)
  BY DEF EventOf
<1>5. \A p \in Publishers :
        Posting(p)' = Posting(p) /\ ServedBy(p) = {} /\ ServedBy(p)' = {}
  BY <1>1, <1>2, <1>3, <1>4 DEF Posting, ServedBy
<1>. QED  BY <1>5 DEF Topic!Settled, postings, servings

LEMMA RegisterTopic ==
  ASSUME TopicInv, NEW s \in Streams, Register(s)
  PROVE  Topic!Join(s)
<1> USE DEF TopicInv, Inv
<1>1. s \notin clients /\ channel[s] = <<>>
  BY DEF Register, Lifecycle, Private
<1>2. Topic!Settled /\ UNCHANGED <<postings, servings>>
  BY UnlockTopic DEF Register
<1>3. \A x \in Streams : Queue(x)' = Queue(x)
  BY <1>1 DEF Register, Queue
<1>4. queues' = queues
  BY <1>3 DEF queues
<1>. QED  BY <1>1, <1>2, <1>4 DEF Topic!Join, Register

LEMMA DeregisterTopic ==
  ASSUME TopicInv, NEW s \in Streams, Deregister(s)
  PROVE  Topic!Leave(s) \/ UNCHANGED <<clients, queues, postings, servings>>
<1> USE DEF TopicInv, Inv
<1>1. Topic!Settled /\ UNCHANGED <<postings, servings>>
  BY UnlockTopic DEF Deregister
<1>2. clients' = clients \ {s} /\ channel' = channel
  BY DEF Deregister
<1>3. CASE s \in clients
  <2>1. Queue(s)' = <<>> /\ \A x \in Streams \ {s} : Queue(x)' = Queue(x)
    BY <1>2 DEF Queue
  <2>2. queues' = [queues EXCEPT ![s] = <<>>]
    BY <2>1 DEF queues
  <2>. QED  BY <1>1, <1>2, <1>3, <2>2 DEF Topic!Leave
<1>4. CASE s \notin clients
  <2>1. clients' = clients
    BY <1>2, <1>4
  <2>2. queues' = queues
    BY <1>2, <2>1 DEF queues, Queue
  <2>. QED  BY <1>1, <2>1, <2>2
<1>. QED  BY <1>3, <1>4

LEMMA ReceiveTopic ==
  ASSUME TopicInv, NEW s \in Streams, Receive(s)
  PROVE  Topic!Take(s) \/ UNCHANGED <<clients, queues, postings, servings>>
<1> USE DEF TopicInv, Inv
<1>1. /\ channel[s] # <<>> /\ channel' = [channel EXCEPT ![s] = Tail(@)]
      /\ UNCHANGED <<clients, ppc, sent, visited, target>>
  BY DEF Receive, publishing
<1>2. UNCHANGED <<postings, servings>>
  BY <1>1 DEF postings, servings, Posting, ServedBy, EventOf
<1>3. \A x \in Streams \ {s} : Queue(x)' = Queue(x)
  BY <1>1 DEF Queue, TypeOK
<1>4. CASE s \in clients
  <2>1. Queue(s) = channel[s] /\ Queue(s)' = Tail(channel[s])
    BY <1>1, <1>4 DEF Queue, TypeOK
  <2>2. queues[s] = channel[s] /\ queues' = [queues EXCEPT ![s] = Tail(@)]
    BY <1>3, <2>1 DEF queues
  <2>. QED  BY <1>1, <1>2, <2>2 DEF Topic!Take
<1>5. CASE s \notin clients
  <2>1. Queue(s)' = Queue(s)
    BY <1>1, <1>5 DEF Queue
  <2>2. queues' = queues
    BY <1>3, <2>1 DEF queues
  <2>. QED  BY <1>1, <1>2, <2>2
<1>. QED  BY <1>4, <1>5

\* The other steps of a stream are its own.
LEMMA OthersTopic ==
  ASSUME \/ \E s \in Streams : \/ Subscribe(s) \/ Written(s) \/ Disconnect(s)
                               \/ Leave(s) \/ Unsubscribe(s) \/ Close(s)
         \/ UNCHANGED vars
  PROVE  UNCHANGED <<clients, queues, postings, servings>>
<1>1. UNCHANGED <<clients, channel, ppc, sent, visited, target>>
  BY DEF Subscribe, Written, Disconnect, Leave, Unsubscribe, Close, publishing, vars
<1>. QED  BY <1>1 DEF queues, Queue, postings, Posting, servings, ServedBy, EventOf

\* The broker implements the topic: mutex, map and channels together offer each
\* event once to each stream registered, and to nobody in between.
THEOREM ImplementsTopicCorrect == Spec => ImplementsTopic
<1>1. Init => Topic!Init
  BY DEF Init, Topic!Init, queues, Queue, postings, Posting, servings, ServedBy
<1>2. TopicInv /\ [Next]_vars => [Topic!Next]_(Topic!vars)
  <2> SUFFICES ASSUME TopicInv, [Next]_vars
               PROVE  Topic!Next \/ UNCHANGED <<clients, queues, postings, servings>>
    BY DEF Topic!vars
  <2>. QED
    BY PublishTopic, PickTopic, SendTopic, RUnlockTopic, RegisterTopic, DeregisterTopic,
       ReceiveTopic, OthersTopic
    DEF Next, PublisherStep, StreamStep, Topic!Next
<1>. QED  BY TopicInvCorrect, <1>1, <1>2, PTL DEF Spec, ImplementsTopic, Topic!Spec

-----------------------------------------------------------------------------
(***************************************************************************)
(* Why nobody is held up: the loop of a publisher is as long as the map is *)
(* large, and who waits for the write lock waits only for the loops that   *)
(* are on their way.                                                       *)
(***************************************************************************)
InLoop(p) == ppc[p] \in {"looping", "sending"}

\* The steps that the loop has still to take.
LoopLeft(p) == 2 * Cardinality(clients \ visited[p]) + (IF ppc[p] = "sending" THEN 1 ELSE 0)

\* Each step of a loop is one step less, and nobody makes it longer.
LoopGetsOn ==
  [][\A p \in Publishers : InLoop(p) =>
       /\ Pick(p) \/ Send(p) => LoopLeft(p)' < LoopLeft(p)
       /\ LoopLeft(p)' <= LoopLeft(p)
       /\ clients' = clients /\ ppc'[p] \in {"looping", "sending", "idle"}]_vars

\* Whoever has asked for the write lock sees the readers go, and none come.
WriterGetsOn ==
  [][writer # Nobody /\ writer' = writer => readers' \subseteq readers]_vars

LEMMA OnlyWritersChangeMap ==
  ASSUME [Next]_vars
  PROVE  clients' = clients \/ \E s \in Streams : Register(s) \/ Deregister(s)
<1>1. ASSUME NEW p \in Publishers, PublisherStep(p) PROVE clients' = clients
  BY <1>1 DEF PublisherStep, Publish, Pick, Send, RUnlock
<1>2. ASSUME NEW s \in Streams, StreamStep(s) \/ Receive(s) \/ Written(s) \/ Disconnect(s)
      PROVE  clients' = clients \/ Register(s) \/ Deregister(s)
  BY <1>2 DEF StreamStep, Subscribe, Leave, Unsubscribe, Close, Receive, Written, Disconnect
<1>3. CASE UNCHANGED vars
  BY <1>3 DEF vars
<1> QED BY <1>1, <1>2, <1>3 DEF Next

FiniteMap == IsFiniteSet(clients)

LEMMA FiniteClients == Spec => []FiniteMap
<1>1. Init => FiniteMap
  BY FS_EmptySet DEF Init, FiniteMap
<1>2. ASSUME FiniteMap, [Next]_vars
      PROVE  FiniteMap'
  <2>1. CASE clients' = clients
    BY <1>2, <2>1 DEF FiniteMap
  <2>2. ASSUME NEW s \in Streams, Register(s) \/ Deregister(s)
        PROVE  FiniteMap'
    <3>1. IsFiniteSet(clients')
      BY <1>2, <2>2, FS_AddElement, FS_RemoveElement DEF Register, Deregister, FiniteMap
    <3> QED BY <3>1 DEF FiniteMap
  <2> QED BY <1>2, <2>1, <2>2, OnlyWritersChangeMap
<1>3. FiniteMap /\ [Next]_vars => FiniteMap'
  BY <1>2
<1> QED BY <1>1, <1>3, PTL DEF Spec

\* While a loop is on its way nobody changes the map.
LEMMA LoopKeepsMap ==
  ASSUME Inv, [Next]_vars, NEW p \in Publishers, InLoop(p)
  PROVE  clients' = clients
<1>1. \A s \in Streams : ~Register(s) /\ ~Deregister(s)
  BY DEF InLoop, Inv, ReadersHold, Register, Deregister
<1> QED BY <1>1, OnlyWritersChangeMap

\* "Slow or full channels are skipped to avoid blocking the caller": a publish
\* takes two steps at most for each stream, whoever reads, comes and goes.
THEOREM LoopGetsOnCorrect == Spec => LoopGetsOn
<1>1. ASSUME Inv, FiniteMap, [Next]_vars, NEW p \in Publishers, InLoop(p)
      PROVE  /\ Pick(p) \/ Send(p) => LoopLeft(p)' < LoopLeft(p)
             /\ LoopLeft(p)' <= LoopLeft(p)
             /\ clients' = clients /\ ppc'[p] \in {"looping", "sending", "idle"}
  <2>1. clients' = clients
    BY <1>1, LoopKeepsMap
  <2>2. IsFiniteSet(clients \ visited[p]) /\ Cardinality(clients \ visited[p]) \in Nat
    BY <1>1, FS_Subset, FS_CardinalityType DEF FiniteMap
  <2>3. CASE Pick(p)
    <3>1. PICK t \in clients \ visited[p] : visited' = [visited EXCEPT ![p] = @ \cup {t}]
      BY <2>3 DEF Pick
    <3>2. clients' \ visited'[p] = (clients \ visited[p]) \ {t}
      BY <1>1, <2>1, <3>1 DEF Inv, TypeOK
    <3>3. Cardinality(clients' \ visited'[p]) = Cardinality(clients \ visited[p]) - 1
      BY <2>2, <3>1, <3>2, FS_RemoveElement
    <3>4. ppc[p] = "looping" /\ ppc'[p] = "sending"
      BY <1>1, <2>3 DEF Pick, Inv, TypeOK
    <3> QED BY <2>1, <2>2, <3>3, <3>4 DEF LoopLeft
  <2>4. CASE Send(p)
    <3>1. ppc[p] = "sending" /\ ppc'[p] = "looping" /\ visited' = visited
      BY <1>1, <2>4 DEF Send, Inv, TypeOK, TargetRegistered, Lifecycle
    <3> QED BY <2>1, <2>2, <3>1 DEF LoopLeft
  <2>5. CASE ~Pick(p) /\ ~Send(p)
    <3>1. visited'[p] = visited[p] /\ ppc'[p] \in {ppc[p], "idle"}
      <4>1. CASE \E x \in Publishers : Publish(x) \/ RUnlock(x)
        BY <1>1, <4>1 DEF InLoop, Publish, RLock, RUnlock, Inv, TypeOK
      <4>2. CASE \E x \in Publishers \ {p} : Pick(x) \/ Send(x)
        BY <1>1, <4>2 DEF Pick, Send, Inv, TypeOK
      <4>3. CASE \E s \in Streams : Register(s) \/ Deregister(s)
        BY <1>1, <4>3 DEF InLoop, Register, Deregister, Unlock, Inv, TypeOK
      <4>4. CASE UNCHANGED publishing
        BY <4>4 DEF publishing
      <4> QED
        BY <1>1, <2>5, <4>1, <4>2, <4>3, <4>4 DEF Next, PublisherStep, StreamStep, vars, publishing,
           Subscribe, Leave, Unsubscribe, Close, Receive, Written, Disconnect
    <3> QED BY <1>1, <2>1, <2>2, <2>5, <3>1 DEF LoopLeft, InLoop
  <2> QED BY <2>3, <2>4, <2>5
<1>2. Inv /\ FiniteMap /\ [Next]_vars =>
        [\A p \in Publishers : InLoop(p) =>
           /\ Pick(p) \/ Send(p) => LoopLeft(p)' < LoopLeft(p)
           /\ LoopLeft(p)' <= LoopLeft(p)
           /\ clients' = clients /\ ppc'[p] \in {"looping", "sending", "idle"}]_vars
  BY <1>1
<1> QED BY InvCorrect, FiniteClients, <1>2, PTL DEF Spec, LoopGetsOn

\* A stream that subscribes or has ended is not overtaken by publishers.
THEOREM WriterGetsOnCorrect == Spec => WriterGetsOn
<1>1. Inv /\ [Next]_vars => [writer # Nobody /\ writer' = writer => readers' \subseteq readers]_vars
  BY DEF Next, PublisherStep, StreamStep, vars, lock, Publish, RLock, Pick, Send, RUnlock,
     Subscribe, Register, Leave, Unsubscribe, Deregister, Close, Lock, Unlock,
     Receive, Written, Disconnect
<1> QED BY InvCorrect, <1>1, PTL DEF Spec, WriterGetsOn
=============================================================================
