------------------------------- MODULE Topic -------------------------------
(***************************************************************************)
(* What the gateway's SSE broker promises to those who publish and to      *)
(* those who subscribe, without the mutex, the map and the channels by     *)
(* which it keeps the promise: a publish offers its event once to each     *)
(* subscriber, never waits for one of them, and passes over only those     *)
(* whose queue is full; and nobody joins or leaves while an event is being *)
(* handed round.  SSEBroker.tla describes the code that implements this,   *)
(* StockFeed.tla builds on it.                                             *)
(***************************************************************************)
EXTENDS Naturals, Sequences

CONSTANTS
  Publishers,
  Subscribers,
  Event,     \* what may be published
  Capacity   \* events that wait for a subscriber at most

VARIABLES
  subscribed,  \* those who are to be served
  queue,       \* the events that wait for each of them
  posting,     \* the event of each publish that has not returned, if there is one
  served       \* the subscribers that have been offered it

vars == <<subscribed, queue, posting, served>>

Init ==
  /\ subscribed = {}
  /\ queue = [s \in Subscribers |-> <<>>]
  /\ posting = [p \in Publishers |-> {}]
  /\ served = [p \in Publishers |-> {}]

-----------------------------------------------------------------------------
Publish(p) ==
  /\ posting[p] = {}
  /\ \E e \in Event : posting' = [posting EXCEPT ![p] = {e}]
  /\ UNCHANGED <<subscribed, queue, served>>

Serve(p, s) ==
  /\ s \in subscribed \ served[p]
  /\ \E e \in posting[p] :
       queue' = [queue EXCEPT ![s] = IF Len(@) < Capacity THEN Append(@, e) ELSE @]
  /\ served' = [served EXCEPT ![p] = @ \cup {s}]
  /\ UNCHANGED <<subscribed, posting>>

Return(p) ==
  /\ posting[p] # {}
  /\ subscribed \subseteq served[p]
  /\ posting' = [posting EXCEPT ![p] = {}]
  /\ served' = [served EXCEPT ![p] = {}]
  /\ UNCHANGED <<subscribed, queue>>

\* No event has reached some of the subscribers and not all.
Settled == \A p \in Publishers : served[p] = {}

Join(s) ==
  /\ s \notin subscribed /\ Settled
  /\ subscribed' = subscribed \cup {s}
  /\ UNCHANGED <<queue, posting, served>>

Leave(s) ==
  /\ s \in subscribed /\ Settled
  /\ subscribed' = subscribed \ {s}
  /\ queue' = [queue EXCEPT ![s] = <<>>]
  /\ UNCHANGED <<posting, served>>

Take(s) ==
  /\ queue[s] # <<>>
  /\ queue' = [queue EXCEPT ![s] = Tail(@)]
  /\ UNCHANGED <<subscribed, posting, served>>

Next ==
  \/ \E p \in Publishers :
       Publish(p) \/ Return(p) \/ \E s \in Subscribers : Serve(p, s)
  \/ \E s \in Subscribers : Join(s) \/ Leave(s) \/ Take(s)

Spec == Init /\ [][Next]_vars
=============================================================================
