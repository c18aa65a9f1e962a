----------------------------- MODULE StockFeed -----------------------------
(***************************************************************************)
(* The way of one SKU's stock to a screen and of a number on a screen to   *)
(* the stock: admins adjust it through the gateway, whose adjustStock      *)
(* publishes what inventory-service has answered, product pages show a     *)
(* rendering and then follow the events, and the stock also moves without  *)
(* the gateway (reservations, releases, the seeder), which publishes       *)
(* nothing.                                                                *)
(*                                                                         *)
(* A transaction of inventory-service is one step here and the broker's    *)
(* read lock a guard: InventoryService and SSEBroker take them apart.  The *)
(* status and the type of an event are functions of its number and left    *)
(* out.  No call passes a negative quantity here, so the stock does not    *)
(* fall below zero (InventoryService is about what happens otherwise).     *)
(***************************************************************************)
EXTENDS Integers, Sequences, FiniteSets

CONSTANTS
  Admins,    \* sessions of the admin client
  Pages,     \* product pages open in browsers
  NoRow,     \* the SKU is not in the stock table
  MaxInt,    \* largest value of a protobuf int32 and an INTEGER column (2^31 - 1)
  Capacity,  \* of a subscriber's channel
  Typed,     \* numbers an admin may type over the one on the screen
  Deltas,    \* differences an admin may type into the form
  MaxMoves   \* bound: how often the stock moves

ASSUME FeedAssumption ==
  /\ MaxInt \in Nat /\ Capacity \in Nat \ {0} /\ MaxMoves \in Nat
  /\ Typed \subseteq Nat /\ Deltas \subseteq Int
  /\ NoRow \notin Int

VARIABLES
  stock,     \* available, or NoRow
  moves,     \* history: how often the stock has moved
  work,      \* where each admin's session stands
  screen,    \* the number in the table the session has loaded
  typed,     \* the number typed over it, or NoRow for a difference
  delta,     \* the difference sent, as wide as a Go int
  event,     \* what adjustStock publishes for the session
  visiting,  \* the subscribers its publish has still to visit
  cache,     \* the rendering of the product page (revalidate: 60)
  page,      \* "closed", "rendered" without a subscription, or "live"
  shows,     \* the number each page shows
  channel,   \* the channel of each page's stream
  missed     \* history: the moves of the stock, later than the one it shows,
             \* that each live page will not hear of

sessions == <<work, screen, typed, delta, event, visiting>>
browser == <<page, shows, channel, missed>>
vars == <<stock, moves, sessions, cache, browser>>

Moves == 0 .. MaxMoves
\* A number with the move of the stock it dates from; one from nowhere stands
\* in for an answer that the gateway did not get.
Reading == [n : 0 .. MaxInt, at : Moves, from : {"stock", "nowhere"}]
Places == {"away", "table", "form", "calling", "publishing", "fanning"}

TypeOK ==
  /\ stock \in 0 .. MaxInt \cup {NoRow}
  /\ moves \in Moves
  /\ work \in [Admins -> Places]
  /\ screen \in [Admins -> Reading]
  /\ typed \in [Admins -> Typed \cup {NoRow}]
  /\ delta \in [Admins -> Int]
  /\ event \in [Admins -> Reading]
  /\ visiting \in [Admins -> SUBSET Pages]
  /\ \A a \in Admins : \A p \in visiting[a] : page[p] = "live"
  /\ cache \in Reading
  /\ page \in [Pages -> {"closed", "rendered", "live"}]
  /\ shows \in [Pages -> Reading]
  /\ channel \in [Pages -> Seq(Reading)] /\ \A p \in Pages : Len(channel[p]) <= Capacity
  /\ missed \in [Pages -> SUBSET Moves]

Nothing == [n |-> 0, at |-> 0, from |-> "nowhere"]

Init ==
  /\ stock \in 0 .. MaxInt \cup {NoRow}
  /\ moves = 0
  /\ work = [a \in Admins |-> "away"]
  /\ screen = [a \in Admins |-> Nothing]
  /\ typed = [a \in Admins |-> NoRow]
  /\ delta = [a \in Admins |-> 0]
  /\ event = [a \in Admins |-> Nothing]
  /\ visiting = [a \in Admins |-> {}]
  /\ cache = Nothing
  /\ page = [p \in Pages |-> "closed"]
  /\ shows = [p \in Pages |-> Nothing]
  /\ channel = [p \in Pages |-> <<>>]
  /\ missed = [p \in Pages |-> {}]

-----------------------------------------------------------------------------
(***************************************************************************)
(* Reads                                                                   *)
(***************************************************************************)
\* The stock as GetStock answers it.
Current == [n |-> IF stock = NoRow THEN 0 ELSE stock, at |-> moves, from |-> "stock"]

\* fetchStock: a SKU that is not found and a call that has failed alike are
\* shown as out of stock.
Fetched == {Current, Nothing}

\* A session loads the products table, or loads it again while a number is
\* being edited.
OpenTable(a) ==
  /\ work[a] \in {"away", "table"}
  /\ work' = [work EXCEPT ![a] = "table"]
  /\ \E r \in Fetched : screen' = [screen EXCEPT ![a] = r]
  /\ UNCHANGED <<stock, moves, typed, delta, event, visiting, cache, browser>>

\* The inventory page lists what ListStock returns, and shows nothing in place
\* of an answer it has not got.
OpenInventory(a) ==
  /\ work[a] = "away"
  /\ stock # NoRow
  /\ work' = [work EXCEPT ![a] = "form"]
  /\ UNCHANGED <<stock, moves, screen, typed, delta, event, visiting, cache, browser>>

\* The store renders the product page.
Render ==
  /\ cache' \in Fetched
  /\ UNCHANGED <<stock, moves, sessions, browser>>

-----------------------------------------------------------------------------
(***************************************************************************)
(* adjustStock                                                             *)
(***************************************************************************)
Sent(a, n, d) ==
  /\ work' = [work EXCEPT ![a] = "calling"]
  /\ typed' = [typed EXCEPT ![a] = n]
  /\ delta' = [delta EXCEPT ![a] = d]
  /\ UNCHANGED <<stock, moves, screen, event, visiting, cache, browser>>

\* The inline editor sends the difference between the number typed and the one
\* on the screen; the form sends what is typed.
SendEdit(a) ==
  /\ work[a] = "table"
  /\ \E n \in Typed \ {screen[a].n} : Sent(a, n, n - screen[a].n)

SendDelta(a) ==
  /\ work[a] = "form"
  /\ \E d \in Deltas : Sent(a, NoRow, d)

\* The conversion int32(delta) keeps the low bits.
Int32(d) == ((d + MaxInt + 1) % (2 * (MaxInt + 1))) - (MaxInt + 1)

\* The call to AdjustStock, which can fail before or after its transaction.
\* After an error the editor and the form stay open.
StayOpen(a) ==
  /\ work' = [work EXCEPT ![a] = IF typed[a] = NoRow THEN "form" ELSE "table"]
  /\ typed' = [typed EXCEPT ![a] = NoRow]
  /\ delta' = [delta EXCEPT ![a] = 0]

Refused(a) ==
  /\ work[a] = "calling"
  /\ StayOpen(a)
  /\ UNCHANGED <<stock, moves, screen, event, visiting, cache, browser>>

\* The guard of the UPDATE, and the range of its INTEGER.  (Variant for the
\* checks: no guard.)
AcceptsAny(d) == stock # NoRow
Accepts(d) == stock # NoRow /\ stock + d \in 0 .. MaxInt

Move(n) ==
  /\ moves < MaxMoves
  /\ stock' = n
  /\ moves' = moves + 1

\* What nobody will publish.
Unheard ==
  missed' = [p \in Pages |-> IF page[p] = "live" THEN missed[p] \cup {moves'} ELSE {}]

AnswerLost(a) ==
  /\ work[a] = "calling"
  /\ Accepts(Int32(delta[a]))
  /\ Move(stock + Int32(delta[a]))
  /\ Unheard
  /\ StayOpen(a)
  /\ UNCHANGED <<screen, event, visiting, cache, page, shows, channel>>

\* (Variant for the checks: the number sent is taken for a quantity.)
SetStock(a) ==
  /\ work[a] = "calling"
  /\ Accepts(Int32(delta[a]))
  /\ Move(IF delta[a] \in 0 .. MaxInt THEN delta[a] ELSE 0)
  /\ event' = [event EXCEPT ![a] = [n |-> stock', at |-> moves', from |-> "stock"]]
  /\ work' = [work EXCEPT ![a] = "publishing"]
  /\ UNCHANGED <<screen, typed, delta, visiting, cache, browser>>

Adjust(a) ==
  /\ work[a] = "calling"
  /\ Accepts(Int32(delta[a]))
  /\ Move(stock + Int32(delta[a]))
  /\ event' = [event EXCEPT ![a] = [n |-> stock', at |-> moves', from |-> "stock"]]
  /\ work' = [work EXCEPT ![a] = "publishing"]
  /\ UNCHANGED <<screen, typed, delta, visiting, cache, browser>>

\* A reservation, a release, or the seeder's INSERT.
MoveElsewhere ==
  /\ \E n \in 0 .. MaxInt \ {stock} : Move(n)
  /\ Unheard
  /\ UNCHANGED <<sessions, cache, page, shows, channel>>

-----------------------------------------------------------------------------
(***************************************************************************)
(* Publish, under the read lock                                            *)
(***************************************************************************)
Publish(a) ==
  /\ work[a] = "publishing"
  /\ work' = [work EXCEPT ![a] = "fanning"]
  /\ visiting' = [visiting EXCEPT ![a] = {p \in Pages : page[p] = "live"}]
  /\ UNCHANGED <<stock, moves, screen, typed, delta, event, cache, browser>>

\* (Variant for the checks: a full channel makes room by losing its first event.)
SendDisplacing(a, p) ==
  /\ work[a] = "fanning" /\ p \in visiting[a]
  /\ visiting' = [visiting EXCEPT ![a] = @ \ {p}]
  /\ channel' = [channel EXCEPT ![p] =
                   Append(IF Len(@) < Capacity THEN @ ELSE Tail(@), event[a])]
  /\ UNCHANGED <<stock, moves, work, screen, typed, delta, event, cache, page, shows, missed>>

\* A move that a page shows a later number than is not missed.
Later(M, r) == {m \in M : m > r.at}

Send(a, p) ==
  /\ work[a] = "fanning" /\ p \in visiting[a]
  /\ visiting' = [visiting EXCEPT ![a] = @ \ {p}]
  /\ \/ /\ Len(channel[p]) < Capacity
        /\ channel' = [channel EXCEPT ![p] = Append(@, event[a])]
        /\ UNCHANGED missed
     \/ /\ Len(channel[p]) = Capacity
        /\ missed' = [missed EXCEPT ![p] = Later(@ \cup {event[a].at}, shows[p])]
        /\ UNCHANGED channel
  /\ UNCHANGED <<stock, moves, work, screen, typed, delta, event, cache, page, shows>>

Answer(a) ==
  /\ work[a] = "fanning" /\ visiting[a] = {}
  /\ work' = [work EXCEPT ![a] = "away"]
  /\ screen' = [screen EXCEPT ![a] = Nothing]
  /\ typed' = [typed EXCEPT ![a] = NoRow]
  /\ delta' = [delta EXCEPT ![a] = 0]
  /\ event' = [event EXCEPT ![a] = Nothing]
  /\ UNCHANGED <<stock, moves, visiting, cache, browser>>

-----------------------------------------------------------------------------
(***************************************************************************)
(* Pages                                                                   *)
(***************************************************************************)
Unlocked == \A a \in Admins : work[a] # "fanning"

Open(p) ==
  /\ page[p] = "closed"
  /\ page' = [page EXCEPT ![p] = "rendered"]
  /\ shows' = [shows EXCEPT ![p] = cache]
  /\ UNCHANGED <<stock, moves, sessions, cache, channel, missed>>

\* The stream subscribes when the page has long been rendered.
Subscribe(p) ==
  /\ page[p] = "rendered" /\ Unlocked
  /\ page' = [page EXCEPT ![p] = "live"]
  /\ missed' = [missed EXCEPT ![p] =
       (shows[p].at + 1 .. moves) \ {event[a].at : a \in {b \in Admins : work[b] = "publishing"}}]
  /\ UNCHANGED <<stock, moves, sessions, cache, shows, channel>>

\* onmessage: the event replaces the number, whichever is the newer.
Receive(p) ==
  /\ page[p] = "live" /\ channel[p] # <<>>
  /\ shows' = [shows EXCEPT ![p] = Head(channel[p])]
  /\ channel' = [channel EXCEPT ![p] = Tail(@)]
  /\ missed' = [missed EXCEPT ![p] =
       Later(@ \cup (Head(channel[p]).at + 1 .. shows[p].at), Head(channel[p]))]
  /\ UNCHANGED <<stock, moves, sessions, cache, page>>

\* The connection ends, with the page or without it: EventSource connects again
\* and nothing is fetched.
Disconnect(p) ==
  /\ page[p] = "live" /\ Unlocked
  /\ \E l \in {"closed", "rendered"} : page' = [page EXCEPT ![p] = l]
  /\ channel' = [channel EXCEPT ![p] = <<>>]
  /\ shows' = [shows EXCEPT ![p] = IF page'[p] = "closed" THEN Nothing ELSE @]
  /\ missed' = [missed EXCEPT ![p] = {}]
  /\ UNCHANGED <<stock, moves, sessions, cache>>

Next ==
  \/ \E a \in Admins :
       \/ OpenTable(a) \/ OpenInventory(a) \/ SendEdit(a) \/ SendDelta(a)
       \/ Refused(a) \/ AnswerLost(a) \/ Adjust(a) \/ Publish(a) \/ Answer(a)
       \/ \E p \in Pages : Send(a, p)
  \/ \E p \in Pages : Open(p) \/ Subscribe(p) \/ Receive(p) \/ Disconnect(p)
  \/ Render \/ MoveElsewhere

Spec == Init /\ [][Next]_vars

-----------------------------------------------------------------------------
\* A move of the stock is on its way to a page while its publish has not come
\* to the page, and while it waits in the channel of the page.
OnItsWay(p) ==
  \/ \E a \in Admins : work[a] = "publishing" \/ (work[a] = "fanning" /\ p \in visiting[a])
  \/ channel[p] # <<>>

\* "Broadcast a stock change notification to all connected SSE clients"
\* (admin_inventory_handler.go:112): a connected page to which nothing is on its
\* way shows the stock, unless the rendering it began with was no answer, or one
\* of the later moves was not published, was published while the page was not
\* connected, met a full channel, or was overtaken by an earlier one.
StaleForAReason ==
  \A p \in Pages :
    page[p] = "live" /\ ~OnItsWay(p) /\ shows[p].n # Current.n =>
      shows[p].from # "stock" \/ missed[p] # {}

\* The inline editor ("computes the delta", VariantStockTable.jsx:55): an edit
\* that is answered 200 has left the stock at the number typed, if that differs
\* from the screen by no more than an int32, the screen was an answer, and the
\* stock had not moved since.
EditLands ==
  \A a \in Admins :
    /\ work[a] \in {"publishing", "fanning"}
    /\ typed[a] # NoRow
    /\ screen[a].from = "stock" /\ event[a].at = screen[a].at + 1
    /\ delta[a] = Int32(delta[a])
    => event[a].n = typed[a]

-----------------------------------------------------------------------------
\* The broker is taken for the topic that it implements (SSEBroker.tla).
Live == {p \in Pages : page[p] = "live"}

Posting(a) == IF work[a] = "fanning" THEN {event[a]} ELSE {}
ServedBy(a) == IF work[a] = "fanning" THEN Live \ visiting[a] ELSE {}

postings == [a \in Admins |-> Posting(a)]
servings == [a \in Admins |-> ServedBy(a)]

Topic == INSTANCE Topic
  WITH Publishers <- Admins, Subscribers <- Pages, Event <- Reading,
       subscribed <- Live, queue <- channel, posting <- postings, served <- servings

\* Publishes reach pages, and pages come and go, as the topic allows.
FollowsTopic == Topic!Spec
=============================================================================
