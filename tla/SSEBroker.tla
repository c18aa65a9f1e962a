----------------------------- MODULE SSEBroker -----------------------------
(***************************************************************************)
(* The gateway's SSE broker (internal/sse/broker.go) with the goroutines   *)
(* that use it: the adjustStock handlers that Publish, and one             *)
(* streamEvents handler for each connected browser, which subscribes,      *)
(* forwards what it receives and unsubscribes when its client has gone.    *)
(*                                                                         *)
(* The mutex is Go's RWMutex: a writer announces itself, waits for the     *)
(* readers inside and keeps later ones out; its Unlock lets every reader   *)
(* in that waited meanwhile.                                               *)
(***************************************************************************)
EXTENDS Naturals, Sequences, Functions

CONSTANTS
  Publishers,  \* adjustStock handlers
  Streams,     \* streamEvents handlers, each with the channel it subscribes
  Capacity,    \* buffer of a channel (10 in Subscribe)
  Event,       \* bound of the model: the events, numbered by their publishers
  Leavers,     \* bound of the model: streams whose clients may disconnect
  Nobody       \* no stream

ASSUME BrokerAssumption ==
  /\ Capacity \in Nat \ {0}
  /\ Event \subseteq [from : Publishers, number : Nat \ {0}]
  /\ Nobody \notin Streams

VARIABLES
  clients,    \* the keys of Broker.clients
  channel,    \* the buffer of each stream's channel
  closed,     \* the channels that are closed
  readers,    \* publishers that hold the read lock
  writer,     \* the stream that holds the write lock or waits for the readers
  ppc,        \* where each publisher stands
  sent,       \* the number of the event each publisher sends, or sent last
  visited,    \* channels the publisher's range loop has done with
  target,     \* channel the publisher is about to send to
  spc,        \* where each stream stands
  gone,       \* streams whose client has disconnected
  delivered,  \* events each stream has taken from its channel
  dropped     \* events that found the channel full

lock == <<readers, writer>>
publishing == <<ppc, sent, visited, target>>
streaming == <<spc, gone, delivered>>
vars == <<clients, channel, closed, lock, publishing, streaming, dropped>>

PublisherLocations == {"idle", "waiting", "looping", "sending", "panicked"}
StreamLocations == {"connecting", "subscribing", "streaming", "writing", "leaving",
                    "unsubscribing", "closing", "done"}

TypeOK ==
  /\ clients \subseteq Streams
  /\ channel \in [Streams -> Seq(Event)] /\ \A s \in Streams : Len(channel[s]) <= Capacity
  /\ closed \subseteq Streams
  /\ readers \subseteq Publishers
  /\ writer \in Streams \cup {Nobody}
  /\ ppc \in [Publishers -> PublisherLocations]
  /\ sent \in [Publishers -> Nat]
  /\ visited \in [Publishers -> SUBSET Streams]
  /\ target \in [Publishers -> Streams \cup {Nobody}]
  /\ spc \in [Streams -> StreamLocations]
  /\ gone \subseteq Streams
  /\ delivered \in [Streams -> Seq(Event)]
  /\ dropped \in [Streams -> SUBSET Event]

Init ==
  /\ clients = {}
  /\ channel = [s \in Streams |-> <<>>]
  /\ closed = {}
  /\ readers = {} /\ writer = Nobody
  /\ ppc = [p \in Publishers |-> "idle"]
  /\ sent = [p \in Publishers |-> 0]
  /\ visited = [p \in Publishers |-> {}]
  /\ target = [p \in Publishers |-> Nobody]
  /\ spc = [s \in Streams |-> "connecting"]
  /\ gone = {}
  /\ delivered = [s \in Streams |-> <<>>]
  /\ dropped = [s \in Streams |-> {}]

-----------------------------------------------------------------------------
(***************************************************************************)
(* Publish                                                                 *)
(***************************************************************************)
EventOf(p) == [from |-> p, number |-> sent[p]]

\* b.mu.RLock(): a writer that has announced itself goes first.
RLock(p) ==
  IF writer = Nobody
  THEN ppc' = [ppc EXCEPT ![p] = "looping"] /\ readers' = readers \cup {p}
  ELSE ppc' = [ppc EXCEPT ![p] = "waiting"] /\ UNCHANGED readers

Publish(p) ==
  /\ ppc[p] = "idle"
  /\ [from |-> p, number |-> sent[p] + 1] \in Event
  /\ sent' = [sent EXCEPT ![p] = @ + 1]
  /\ visited' = [visited EXCEPT ![p] = {}]
  /\ RLock(p)
  /\ UNCHANGED <<clients, channel, closed, writer, target, streaming, dropped>>

\* for ch := range b.clients: the next key, in no particular order.  (Variant
\* for the checks: a loop that comes back to a key.)
PickAgain(p) ==
  /\ ppc[p] = "looping"
  /\ \E s \in clients :
       /\ target' = [target EXCEPT ![p] = s]
       /\ visited' = [visited EXCEPT ![p] = @ \cup {s}]
  /\ ppc' = [ppc EXCEPT ![p] = "sending"]
  /\ UNCHANGED <<clients, channel, closed, lock, sent, streaming, dropped>>

Pick(p) ==
  /\ ppc[p] = "looping"
  /\ \E s \in clients \ visited[p] :
       /\ target' = [target EXCEPT ![p] = s]
       /\ visited' = [visited EXCEPT ![p] = @ \cup {s}]
  /\ ppc' = [ppc EXCEPT ![p] = "sending"]
  /\ UNCHANGED <<clients, channel, closed, lock, sent, streaming, dropped>>

\* The non-blocking send: into the buffer if it has room, else the event is
\* dropped; a send on a closed channel panics.  (Variants for the checks: a
\* plain send, which waits for room, a buffer without bound, one that makes room
\* by throwing the oldest event away, and one that hands out the newest first.)
BlockingDeliver(e, s) ==
  /\ Len(channel[s]) < Capacity
  /\ channel' = [channel EXCEPT ![s] = Append(@, e)]
  /\ UNCHANGED dropped

UnboundedDeliver(e, s) ==
  /\ channel' = [channel EXCEPT ![s] = Append(@, e)]
  /\ UNCHANGED dropped

OverwritingDeliver(e, s) ==
  /\ channel' = [channel EXCEPT ![s] = IF Len(@) < Capacity THEN Append(@, e)
                                                            ELSE Append(Tail(@), e)]
  /\ UNCHANGED dropped

NewestFirstDeliver(e, s) ==
  IF Len(channel[s]) < Capacity
  THEN channel' = [channel EXCEPT ![s] = <<e>> \o @] /\ UNCHANGED dropped
  ELSE dropped' = [dropped EXCEPT ![s] = @ \cup {e}] /\ UNCHANGED channel

Deliver(e, s) ==
  IF Len(channel[s]) < Capacity
  THEN channel' = [channel EXCEPT ![s] = Append(@, e)] /\ UNCHANGED dropped
  ELSE dropped' = [dropped EXCEPT ![s] = @ \cup {e}] /\ UNCHANGED channel

Send(p) ==
  /\ ppc[p] = "sending"
  /\ IF target[p] \in closed
     THEN ppc' = [ppc EXCEPT ![p] = "panicked"] /\ UNCHANGED <<channel, dropped>>
     ELSE ppc' = [ppc EXCEPT ![p] = "looping"] /\ Deliver(EventOf(p), target[p])
  /\ target' = [target EXCEPT ![p] = Nobody]
  /\ UNCHANGED <<clients, closed, lock, sent, visited, streaming>>

\* The range loop is over: the deferred b.mu.RUnlock().
RUnlock(p) ==
  /\ ppc[p] = "looping"
  /\ clients \subseteq visited[p]
  /\ readers' = readers \ {p}
  /\ ppc' = [ppc EXCEPT ![p] = "idle"]
  /\ UNCHANGED <<clients, channel, closed, writer, sent, visited, target, streaming, dropped>>

-----------------------------------------------------------------------------
(***************************************************************************)
(* streamEvents, Subscribe and Unsubscribe                                 *)
(***************************************************************************)
StreamTo(s, l) == spc' = [spc EXCEPT ![s] = l]

\* b.mu.Lock(): writers exclude one another before they wait for the readers.
Lock(s) ==
  /\ writer = Nobody
  /\ writer' = s

\* b.mu.Unlock(): the publishers that waited for it hold the read lock now.
Unlock ==
  /\ writer' = Nobody
  /\ readers' = {p \in Publishers : ppc[p] = "waiting"}
  /\ ppc' = [p \in Publishers |-> IF ppc[p] = "waiting" THEN "looping" ELSE ppc[p]]

\* The response headers are flushed, the channel is made.
Subscribe(s) ==
  /\ spc[s] = "connecting"
  /\ Lock(s)
  /\ StreamTo(s, "subscribing")
  /\ UNCHANGED <<clients, channel, closed, readers, publishing, gone, delivered, dropped>>

Register(s) ==
  /\ spc[s] = "subscribing" /\ readers = {}
  /\ clients' = clients \cup {s}
  /\ Unlock
  /\ StreamTo(s, "streaming")
  /\ UNCHANGED <<channel, closed, sent, visited, target, gone, delivered, dropped>>

\* case event := <-ch, and the write of it to the response.
Receive(s) ==
  /\ spc[s] = "streaming"
  /\ channel[s] # <<>>
  /\ channel' = [channel EXCEPT ![s] = Tail(@)]
  /\ delivered' = [delivered EXCEPT ![s] = Append(@, Head(channel[s]))]
  /\ StreamTo(s, "writing")
  /\ UNCHANGED <<clients, closed, lock, publishing, gone, dropped>>

\* The write and the flush return, which a slow client may delay.
Written(s) ==
  /\ spc[s] = "writing"
  /\ StreamTo(s, "streaming")
  /\ UNCHANGED <<clients, channel, closed, lock, publishing, gone, delivered, dropped>>

\* The browser closes the stream: its request's context is done.
Disconnect(s) ==
  /\ s \in Leavers \ gone /\ spc[s] # "done"
  /\ gone' = gone \cup {s}
  /\ UNCHANGED <<clients, channel, closed, lock, publishing, spc, delivered, dropped>>

\* case <-ctx.Done(), which the select may take even when events are waiting.
Leave(s) ==
  /\ spc[s] = "streaming" /\ s \in gone
  /\ StreamTo(s, "leaving")
  /\ UNCHANGED <<clients, channel, closed, lock, publishing, gone, delivered, dropped>>

\* The deferred Unsubscribe.  (Variant for the checks: the channel is closed
\* first and removed afterwards.)
UnsubscribeClosing(s) ==
  /\ spc[s] = "leaving"
  /\ Lock(s)
  /\ closed' = closed \cup {s}
  /\ StreamTo(s, "unsubscribing")
  /\ UNCHANGED <<clients, channel, readers, publishing, gone, delivered, dropped>>

Unsubscribe(s) ==
  /\ spc[s] = "leaving"
  /\ Lock(s)
  /\ StreamTo(s, "unsubscribing")
  /\ UNCHANGED <<clients, channel, closed, readers, publishing, gone, delivered, dropped>>

Deregister(s) ==
  /\ spc[s] = "unsubscribing" /\ readers = {}
  /\ clients' = clients \ {s}
  /\ Unlock
  /\ StreamTo(s, "closing")
  /\ UNCHANGED <<channel, closed, sent, visited, target, gone, delivered, dropped>>

\* close(ch), after the lock has been given back.
Close(s) ==
  /\ spc[s] = "closing"
  /\ closed' = closed \cup {s}
  /\ StreamTo(s, "done")
  /\ UNCHANGED <<clients, channel, lock, publishing, gone, delivered, dropped>>

-----------------------------------------------------------------------------
PublisherStep(p) == Publish(p) \/ Pick(p) \/ Send(p) \/ RUnlock(p)

\* What the stream's goroutine does whatever its client does.
StreamStep(s) ==
  \/ Subscribe(s) \/ Register(s)
  \/ Leave(s) \/ Unsubscribe(s) \/ Deregister(s) \/ Close(s)

Next ==
  \/ \E p \in Publishers : PublisherStep(p)
  \/ \E s \in Streams : StreamStep(s) \/ Receive(s) \/ Written(s) \/ Disconnect(s)

Spec == Init /\ [][Next]_vars

\* The scheduler runs every goroutine that can run.  A client may read as slowly
\* as it likes: a write need not return unless the client has gone.  (That
\* sync.RWMutex starves no writer, and that the select, which chooses at random
\* among its ready cases, takes ctx.Done() in the end, is not needed: a stream
\* meets as many other writers and events as there are, and then nobody.)
Fairness ==
  /\ \A p \in Publishers : WF_vars(Pick(p) \/ Send(p) \/ RUnlock(p))
  /\ \A s \in Streams : WF_vars(StreamStep(s) \/ (s \in gone /\ Written(s)))

FairSpec == Spec /\ Fairness

-----------------------------------------------------------------------------
\* No publisher sends on a closed channel, which would bring the gateway down:
\* Unsubscribe closes the channel outside the lock, so what keeps a range loop
\* in progress from it is that the channel was removed under the lock before.
NoSendOnClosed == \A p \in Publishers : ppc[p] # "panicked"

\* What a stream has got and will get are each publisher's events in the order
\* of its publishes, none of them twice, with gaps only where one was dropped.
InOrder ==
  \A s \in Streams :
    LET got == delivered[s] \o channel[s] IN
    \A i, j \in DOMAIN got :
      i < j /\ got[i].from = got[j].from => got[i].number < got[j].number

\* When a Publish returns, every channel registered has taken its event or was
\* full when its turn came.
EverySubscriberServed ==
  [][\A p \in Publishers : ppc[p] # "idle" /\ ppc'[p] = "idle" =>
       \A s \in clients : \/ EventOf(p) \in Range(delivered[s] \o channel[s])
                          \/ EventOf(p) \in dropped[s]]_vars

\* "Slow or full channels are skipped to avoid blocking the caller"
\* (broker.go:57-58): every Publish returns, even if no client ever reads.
PublishReturns == \A p \in Publishers : ppc[p] # "idle" ~> ppc[p] = "idle"

\* A stream whose client has gone ends and leaves nothing behind in the broker.
StreamEnds ==
  \A s \in Streams : s \in gone ~> spc[s] = "done" /\ s \notin clients

-----------------------------------------------------------------------------
\* The broker implements the topic: a publish is on from its call to its return,
\* and serves a stream by the send that its loop makes to the stream's channel.
Posting(p) == IF ppc[p] \in {"waiting", "looping", "sending"} THEN {EventOf(p)} ELSE {}
ServedBy(p) == IF Posting(p) = {} THEN {} ELSE visited[p] \ {target[p]}
Queue(s) == IF s \in clients THEN channel[s] ELSE <<>>

queues == [s \in Streams |-> Queue(s)]
postings == [p \in Publishers |-> Posting(p)]
servings == [p \in Publishers |-> ServedBy(p)]

Topic == INSTANCE Topic
  WITH Subscribers <- Streams, subscribed <- clients,
       queue <- queues, posting <- postings, served <- servings

\* Every behaviour of the broker is one of the topic.
ImplementsTopic == Topic!Spec
=============================================================================
