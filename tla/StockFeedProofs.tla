-------------------------- MODULE StockFeedProofs --------------------------
(***************************************************************************)
(* Proofs about StockFeed: for any number of admins and pages, any widths  *)
(* and capacities, any numbers typed and any number of moves.              *)
(***************************************************************************)
EXTENDS StockFeed, TLAPS

\* A reading is never from the future, and a true one of the present is the
\* stock.
Dated(r) == r.at <= moves /\ (r.from = "stock" /\ r.at = moves => r.n = Current.n)

ReadingsDated ==
  /\ \A a \in Admins : Dated(screen[a]) /\ Dated(event[a])
  /\ Dated(cache)
  /\ \A p \in Pages : Dated(shows[p]) /\ \A i \in 1 .. Len(channel[p]) : Dated(channel[p][i])

\* What a session has sent is what it has typed, or the difference to its screen.
SessionsInStep ==
  \A a \in Admins :
    /\ work[a] \in {"calling", "publishing", "fanning"} /\ typed[a] # NoRow =>
         delta[a] = typed[a] - screen[a].n
    /\ visiting[a] # {} => work[a] = "fanning"

\* Move m is being published, and its publish has not come to p.
Coming(m, p) ==
  \/ \E a \in Admins : /\ event[a].at = m
                       /\ work[a] = "publishing" \/ (work[a] = "fanning" /\ p \in visiting[a])
  \/ \E i \in 1 .. Len(channel[p]) : channel[p][i].at = m

\* Every move later than the one a live page shows is missed or coming.
NoneForgotten ==
  \A p \in Pages : page[p] = "live" =>
    \A m \in shows[p].at + 1 .. moves : m \in missed[p] \/ Coming(m, p)

Inv ==
  /\ TypeOK
  /\ ReadingsDated
  /\ SessionsInStep
  /\ NoneForgotten
  /\ EditLands

LEMMA InvInit == Init => Inv
<1> SUFFICES ASSUME Init PROVE Inv
  OBVIOUS
<1> USE FeedAssumption DEF Init
<1>0. Nothing \in Reading /\ Nothing.at = 0 /\ Nothing.from = "nowhere"
  BY DEF Nothing, Reading, Moves
<1>1. TypeOK
  BY <1>0 DEF TypeOK, Moves, Places
<1>2. ReadingsDated
  BY <1>0 DEF ReadingsDated, Dated
<1>3. SessionsInStep /\ NoneForgotten /\ EditLands
  BY DEF SessionsInStep, NoneForgotten, EditLands
<1> QED BY <1>1, <1>2, <1>3 DEF Inv

\* What a read answers is a reading of now.
LEMMA FetchedDated ==
  ASSUME TypeOK, NEW r \in Fetched
  PROVE  r \in Reading /\ Dated(r)
BY FeedAssumption DEF TypeOK, Fetched, Current, Nothing, Reading, Dated, Moves

-----------------------------------------------------------------------------
LEMMA KeepsType ==
  ASSUME Inv, Next
  PROVE  TypeOK'
<1>0. TypeOK /\ SessionsInStep
  BY DEF Inv
<1> USE FeedAssumption DEF TypeOK, Moves, Places, sessions, browser
<1>1. ASSUME NEW a \in Admins, OpenTable(a) PROVE TypeOK'
  BY <1>0, <1>1, FetchedDated DEF OpenTable
<1>2. ASSUME NEW a \in Admins, OpenInventory(a) PROVE TypeOK'
  BY <1>0, <1>2 DEF OpenInventory
<1>3. ASSUME NEW a \in Admins, SendEdit(a) PROVE TypeOK'
  <2>1. PICK n \in Typed : Sent(a, n, n - screen[a].n)
    BY <1>3 DEF SendEdit
  <2>2. n - screen[a].n \in Int
    BY <1>0 DEF Reading
  <2> QED BY <1>0, <2>1, <2>2 DEF Sent
<1>4. ASSUME NEW a \in Admins, SendDelta(a) PROVE TypeOK'
  <2>1. PICK d \in Deltas : Sent(a, NoRow, d)
    BY <1>4 DEF SendDelta
  <2> QED BY <1>0, <2>1 DEF Sent
<1>5. ASSUME NEW a \in Admins, Refused(a) PROVE TypeOK'
  BY <1>0, <1>5 DEF Refused, StayOpen
<1>6. ASSUME NEW a \in Admins, AnswerLost(a) PROVE TypeOK'
  BY <1>0, <1>6 DEF AnswerLost, StayOpen, Accepts, Move, Unheard
<1>7. ASSUME NEW a \in Admins, Adjust(a) PROVE TypeOK'
  <2>1. [n |-> stock', at |-> moves', from |-> "stock"] \in Reading
    BY <1>0, <1>7 DEF Adjust, Accepts, Move, Reading
  <2> QED BY <1>0, <1>7, <2>1 DEF Adjust, Accepts, Move
<1>8. ASSUME NEW a \in Admins, Publish(a) PROVE TypeOK'
  BY <1>0, <1>8 DEF Publish
<1>9. ASSUME NEW a \in Admins, NEW p \in Pages, Send(a, p) PROVE TypeOK'
  <2>1. CASE Len(channel[p]) < Capacity
    <3>1. channel' = [channel EXCEPT ![p] = Append(@, event[a])] /\ UNCHANGED missed
      BY <1>9, <2>1 DEF Send
    <3>2. /\ Append(channel[p], event[a]) \in Seq(Reading)
          /\ Len(Append(channel[p], event[a])) <= Capacity
      BY <1>0, <2>1
    <3>3. visiting' = [visiting EXCEPT ![a] = @ \ {p}]
      BY <1>9 DEF Send
    <3>4. UNCHANGED <<stock, moves, work, screen, typed, delta, event, cache, page, shows>>
      BY <1>9 DEF Send
    <3> QED BY <1>0, <3>1, <3>2, <3>3, <3>4
  <2>2. CASE Len(channel[p]) = Capacity
    <3>1. Later(missed[p] \cup {event[a].at}, shows[p]) \subseteq 0 .. MaxMoves
      BY <1>0 DEF Later, Reading
    <3>2. /\ missed' = [missed EXCEPT ![p] = Later(@ \cup {event[a].at}, shows[p])]
          /\ UNCHANGED channel
      BY <1>9, <2>2 DEF Send
    <3>3. visiting' = [visiting EXCEPT ![a] = @ \ {p}]
      BY <1>9 DEF Send
    <3>4. UNCHANGED <<stock, moves, work, screen, typed, delta, event, cache, page, shows>>
      BY <1>9 DEF Send
    <3> QED BY <1>0, <3>1, <3>2, <3>3, <3>4
  <2> QED BY <1>9, <2>1, <2>2 DEF Send
<1>10. ASSUME NEW a \in Admins, Answer(a) PROVE TypeOK'
  <2>1. Nothing \in Reading
    BY DEF Nothing, Reading
  <2> QED BY <1>0, <1>10, <2>1 DEF Answer
<1>11. ASSUME NEW p \in Pages, Open(p) PROVE TypeOK'
  BY <1>0, <1>11 DEF Open
<1>12. ASSUME NEW p \in Pages, Subscribe(p) PROVE TypeOK'
  <2>1. shows[p].at + 1 .. moves \subseteq 0 .. MaxMoves
    BY <1>0 DEF Reading
  <2> QED BY <1>0, <1>12, <2>1 DEF Subscribe
<1>13. ASSUME NEW p \in Pages, Receive(p) PROVE TypeOK'
  <2>1. /\ Head(channel[p]) \in Reading
        /\ Tail(channel[p]) \in Seq(Reading) /\ Len(Tail(channel[p])) <= Capacity
    BY <1>0, <1>13 DEF Receive
  <2>2. Later(missed[p] \cup (Head(channel[p]).at + 1 .. shows[p].at), Head(channel[p]))
          \subseteq 0 .. MaxMoves
    BY <1>0, <2>1 DEF Later, Reading
  <2> QED BY <1>0, <1>13, <2>1, <2>2 DEF Receive
<1>14. ASSUME NEW p \in Pages, Disconnect(p) PROVE TypeOK'
  <2>1. Nothing \in Reading
    BY DEF Nothing, Reading
  <2> QED BY <1>0, <1>14, <2>1 DEF Disconnect, Unlocked, SessionsInStep
<1>15. CASE Render
  BY <1>0, <1>15, FetchedDated DEF Render
<1>16. CASE MoveElsewhere
  BY <1>0, <1>16 DEF MoveElsewhere, Move, Unheard
<1> QED
  BY <1>1, <1>2, <1>3, <1>4, <1>5, <1>6, <1>7, <1>8, <1>9, <1>10, <1>11, <1>12,
     <1>13, <1>14, <1>15, <1>16 DEF Next

\* A reading keeps its date, and moves only go forward.
LEMMA KeepsDated ==
  ASSUME Inv, Next
  PROVE  ReadingsDated'
<1>0. TypeOK /\ ReadingsDated /\ moves \in Nat
  BY DEF Inv, TypeOK, Moves
<1> USE FeedAssumption DEF TypeOK, ReadingsDated, Dated, Current, sessions, browser
<1>1. ASSUME UNCHANGED <<stock, moves, screen, event, cache, shows, channel>>
      PROVE  ReadingsDated'
  BY <1>0, <1>1
<1>2. ASSUME NEW a \in Admins,
             OpenInventory(a) \/ SendEdit(a) \/ SendDelta(a) \/ Refused(a) \/ Publish(a)
      PROVE  ReadingsDated'
  BY <1>1, <1>2 DEF OpenInventory, SendEdit, SendDelta, Sent, Refused, Publish
<1>3. ASSUME NEW a \in Admins, OpenTable(a) PROVE ReadingsDated'
  BY <1>0, <1>3, FetchedDated DEF OpenTable
<1>4. ASSUME stock' \in 0 .. MaxInt, moves' = moves + 1, UNCHANGED <<screen, cache, shows, channel>>,
             \A a \in Admins : event'[a] = event[a] \/
               event'[a] = [n |-> stock', at |-> moves', from |-> "stock"]
      PROVE  ReadingsDated'
  <2>0. moves' = moves + 1
    BY <1>4
  <2>1. ASSUME NEW r \in Reading, Dated(r) PROVE Dated(r)'
    <3>1. r.at \in Nat /\ r.at <= moves
      BY <2>1 DEF Reading, Moves
    <3>2. r.at <= moves' /\ r.at # moves'
      BY <1>0, <2>0, <3>1
    <3> QED BY <3>2
  <2>2. \A a \in Admins : Dated(event[a])'
    <3>1. ASSUME NEW a \in Admins, event'[a] = event[a] PROVE Dated(event[a])'
      BY <1>0, <2>1, <3>1
    <3>2. ASSUME NEW a \in Admins,
                 event'[a] = [n |-> stock', at |-> moves', from |-> "stock"]
          PROVE  Dated(event[a])'
      BY <1>0, <1>4, <2>0, <3>2
    <3> QED BY <1>4, <3>1, <3>2
  <2>3. \A p \in Pages : \A i \in 1 .. Len(channel[p]) : channel[p][i] \in Reading
    BY <1>0
  <2>4. \A a \in Admins : Dated(screen[a])'
    BY <1>0, <1>4, <2>1
  <2>5. Dated(cache)' /\ \A p \in Pages : Dated(shows[p])'
    BY <1>0, <1>4, <2>1
  <2>6. \A p \in Pages : \A i \in 1 .. Len(channel[p]) : Dated(channel[p][i])'
    BY <1>0, <1>4, <2>1, <2>3
  <2>7. UNCHANGED channel
    BY <1>4
  <2> HIDE DEF Dated
  <2> QED BY <2>2, <2>4, <2>5, <2>6, <2>7
<1>5. ASSUME NEW a \in Admins, AnswerLost(a) PROVE ReadingsDated'
  BY <1>4, <1>5 DEF AnswerLost, Accepts, Move
<1>6. ASSUME NEW a \in Admins, Adjust(a) PROVE ReadingsDated'
  BY <1>0, <1>4, <1>6 DEF Adjust, Accepts, Move
<1>7. CASE MoveElsewhere
  BY <1>4, <1>7 DEF MoveElsewhere, Move
<1>8. ASSUME NEW a \in Admins, Answer(a) PROVE ReadingsDated'
  BY <1>0, <1>8 DEF Answer, Nothing
<1>9. ASSUME NEW a \in Admins, NEW p \in Pages, Send(a, p) PROVE ReadingsDated'
  <2>1. /\ UNCHANGED <<stock, moves, screen, event, cache, shows>>
        /\ \/ channel' = [channel EXCEPT ![p] = Append(@, event[a])]
           \/ UNCHANGED channel
    BY <1>9 DEF Send
  <2>2. CASE UNCHANGED channel
    BY <1>1, <2>1, <2>2
  <2>3. CASE channel' = [channel EXCEPT ![p] = Append(@, event[a])]
    <3>1. \A i \in 1 .. Len(channel'[p]) :
            channel'[p][i] = event[a] \/ (i \in 1 .. Len(channel[p]) /\ channel'[p][i] = channel[p][i])
      BY <1>0, <2>3
    <3> QED BY <1>0, <2>1, <2>3, <3>1
  <2> QED BY <2>1, <2>2, <2>3
<1>10. ASSUME NEW p \in Pages, Open(p) PROVE ReadingsDated'
  BY <1>0, <1>10 DEF Open
<1>11. ASSUME NEW p \in Pages, Subscribe(p) PROVE ReadingsDated'
  BY <1>1, <1>11 DEF Subscribe
<1>12. ASSUME NEW p \in Pages, Receive(p) PROVE ReadingsDated'
  <2>1. /\ UNCHANGED <<stock, moves, screen, event, cache>>
        /\ shows' = [shows EXCEPT ![p] = Head(channel[p])]
        /\ channel' = [channel EXCEPT ![p] = Tail(@)]
        /\ channel[p] # <<>>
    BY <1>12 DEF Receive
  <2>2. Head(channel[p]) = channel[p][1] /\ 1 \in 1 .. Len(channel[p])
    BY <1>0, <2>1
  <2>3. \A i \in 1 .. Len(channel'[p]) :
          i + 1 \in 1 .. Len(channel[p]) /\ channel'[p][i] = channel[p][i + 1]
    BY <1>0, <2>1
  <2> QED BY <1>0, <2>1, <2>2, <2>3
<1>13. ASSUME NEW p \in Pages, Disconnect(p) PROVE ReadingsDated'
  BY <1>0, <1>13 DEF Disconnect, Nothing
<1>14. CASE Render
  BY <1>0, <1>14, FetchedDated DEF Render
<1> QED
  BY <1>2, <1>3, <1>5, <1>6, <1>7, <1>8, <1>9, <1>10, <1>11, <1>12, <1>13, <1>14 DEF Next

\* An edit that is applied to the stock on its screen leaves what was typed.
LEMMA KeepsEdits ==
  ASSUME Inv, Next
  PROVE  SessionsInStep' /\ EditLands'
<1>0. TypeOK /\ SessionsInStep /\ EditLands /\ ReadingsDated
  BY DEF Inv
<1> USE FeedAssumption DEF SessionsInStep, EditLands, sessions, browser
<1>1. ASSUME UNCHANGED sessions
      PROVE  SessionsInStep' /\ EditLands'
  BY <1>0, <1>1 DEF Int32
<1>2. ASSUME NEW a \in Admins, OpenTable(a)
      PROVE  SessionsInStep' /\ EditLands'
  BY <1>0, <1>2 DEF OpenTable, TypeOK
<1>3. ASSUME NEW a \in Admins, OpenInventory(a)
      PROVE  SessionsInStep' /\ EditLands'
  BY <1>0, <1>3 DEF OpenInventory, TypeOK
<1>4. ASSUME NEW a \in Admins, SendEdit(a)
      PROVE  SessionsInStep' /\ EditLands'
  <2>1. PICK n \in Typed : Sent(a, n, n - screen[a].n)
    BY <1>4 DEF SendEdit
  <2> QED BY <1>0, <1>4, <2>1 DEF SendEdit, Sent, TypeOK
<1>5. ASSUME NEW a \in Admins, SendDelta(a)
      PROVE  SessionsInStep' /\ EditLands'
  <2>1. PICK d \in Deltas : Sent(a, NoRow, d)
    BY <1>5 DEF SendDelta
  <2> QED BY <1>0, <1>5, <2>1 DEF SendDelta, Sent, TypeOK
<1>6. ASSUME NEW a \in Admins, Refused(a)
      PROVE  SessionsInStep' /\ EditLands'
  BY <1>0, <1>6 DEF Refused, StayOpen, TypeOK
<1>7. ASSUME NEW a \in Admins, AnswerLost(a)
      PROVE  SessionsInStep' /\ EditLands'
  BY <1>0, <1>7 DEF AnswerLost, StayOpen, TypeOK
<1>8. ASSUME NEW a \in Admins, Adjust(a)
      PROVE  SessionsInStep' /\ EditLands'
  <2>1. /\ event' = [event EXCEPT ![a] = [n |-> stock', at |-> moves', from |-> "stock"]]
        /\ work' = [work EXCEPT ![a] = "publishing"]
        /\ stock # NoRow /\ stock' = stock + Int32(delta[a])
        /\ moves' = moves + 1
        /\ UNCHANGED <<screen, typed, delta, visiting>>
        /\ work[a] = "calling"
    BY <1>8 DEF Adjust, Accepts, Move
  <2>2. SessionsInStep'
    BY <1>0, <2>1 DEF TypeOK
  <2>3. ASSUME typed[a] # NoRow, screen[a].from = "stock", moves' = screen[a].at + 1,
               delta[a] = Int32(delta[a])
        PROVE  stock' = typed[a]
    <3>1. delta[a] = typed[a] - screen[a].n
      BY <1>0, <2>1, <2>3
    <3>2. screen[a].at = moves
      BY <1>0, <2>1, <2>3 DEF TypeOK, Reading, Moves
    <3>3. screen[a].n = stock
      <4>1. Dated(screen[a])
        BY <1>0 DEF ReadingsDated
      <4>2. Current.n = stock
        BY <2>1 DEF Current
      <4> QED BY <2>3, <3>2, <4>1, <4>2 DEF Dated
    <3>4. stock \in Nat
      BY <1>0, <2>1 DEF TypeOK
    <3>5. typed[a] \in Nat
      BY <1>0, <2>3 DEF TypeOK
    <3> QED BY <2>1, <2>3, <3>1, <3>3, <3>4, <3>5
  <2>4. ASSUME NEW b \in Admins, b # a,
               work'[b] \in {"publishing", "fanning"}, typed'[b] # NoRow,
               screen'[b].from = "stock", event'[b].at = screen'[b].at + 1,
               delta'[b] = Int32(delta'[b])
        PROVE  event'[b].n = typed'[b]
    BY <1>0, <2>1, <2>4 DEF TypeOK, Int32
  <2>5. /\ event'[a].n = stock' /\ event'[a].at = moves'
        /\ UNCHANGED <<screen[a], typed[a], delta[a]>>
    BY <1>0, <2>1 DEF TypeOK
  <2>6. EditLands'
    BY <2>3, <2>4, <2>5 DEF Int32
  <2> QED BY <2>2, <2>6
<1>9. ASSUME NEW a \in Admins, Publish(a)
      PROVE  SessionsInStep' /\ EditLands'
  BY <1>0, <1>9 DEF Publish, TypeOK
<1>10. ASSUME NEW a \in Admins, Answer(a)
       PROVE  SessionsInStep' /\ EditLands'
  BY <1>0, <1>10 DEF Answer, TypeOK
<1>11. ASSUME NEW a \in Admins, NEW p \in Pages, Send(a, p)
       PROVE  SessionsInStep' /\ EditLands'
  <2>1. /\ visiting' = [visiting EXCEPT ![a] = @ \ {p}] /\ work[a] = "fanning"
        /\ UNCHANGED <<work, screen, typed, delta, event>>
    BY <1>11 DEF Send
  <2> QED BY <1>0, <2>1 DEF TypeOK
<1>12. ASSUME NEW p \in Pages, Open(p) \/ Subscribe(p) \/ Receive(p) \/ Disconnect(p)
       PROVE  SessionsInStep' /\ EditLands'
  BY <1>1, <1>12 DEF Open, Subscribe, Receive, Disconnect
<1>13. CASE Render \/ MoveElsewhere
  BY <1>1, <1>13 DEF Render, MoveElsewhere
<1> QED
  BY <1>2, <1>3, <1>4, <1>5, <1>6, <1>7, <1>8, <1>9, <1>10, <1>11, <1>12, <1>13 DEF Next

\* Every move is handed on: from the session to its publish, from there to the
\* channel of a page or to what the page has missed.
LEMMA KeepsAll ==
  ASSUME Inv, Next
  PROVE  NoneForgotten'
<1>0. TypeOK /\ NoneForgotten /\ SessionsInStep
  BY DEF Inv
<1> USE FeedAssumption DEF NoneForgotten, sessions, browser
<1> DEFINE Publishing(m, p) ==
      \E a \in Admins : /\ event[a].at = m
                        /\ work[a] = "publishing" \/ (work[a] = "fanning" /\ p \in visiting[a])
           Waiting(m, p) == \E i \in 1 .. Len(channel[p]) : channel[p][i].at = m
<1>a. \A m, p : Coming(m, p) <=> Publishing(m, p) \/ Waiting(m, p)
  BY DEF Coming
<1>b. \A m, p : Coming(m, p)' <=> Publishing(m, p)' \/ Waiting(m, p)'
  BY DEF Coming
<1>c. ASSUME UNCHANGED <<moves, page, shows, missed, channel>>,
             \A m \in Moves, p \in Pages : Publishing(m, p) => Publishing(m, p)'
      PROVE  NoneForgotten'
  <2>1. \A m \in Moves, p \in Pages : Coming(m, p) => Coming(m, p)'
    BY <1>a, <1>b, <1>c
  <2>2. \A p \in Pages : shows[p].at + 1 .. moves \subseteq Moves
    BY <1>0 DEF TypeOK, Reading, Moves
  <2> QED BY <1>0, <1>c, <2>1, <2>2
<1>1. ASSUME NEW a \in Admins,
             OpenTable(a) \/ OpenInventory(a) \/ SendEdit(a) \/ SendDelta(a) \/ Refused(a)
      PROVE  NoneForgotten'
  <2>1. /\ work[a] \notin {"publishing", "fanning"}
        /\ UNCHANGED <<moves, page, shows, missed, channel, event, visiting>>
        /\ \A b \in Admins \ {a} : work'[b] = work[b]
    BY <1>0, <1>1 DEF TypeOK, OpenTable, OpenInventory, SendEdit, SendDelta, Sent, Refused, StayOpen
  <2> QED BY <1>c, <2>1
<1>2. ASSUME NEW a \in Admins, Answer(a)
      PROVE  NoneForgotten'
  <2>1. /\ work[a] = "fanning" /\ visiting[a] = {}
        /\ UNCHANGED <<moves, page, shows, missed, channel, visiting>>
        /\ \A b \in Admins \ {a} : work'[b] = work[b] /\ event'[b] = event[b]
    BY <1>0, <1>2 DEF TypeOK, Answer
  <2> QED BY <1>c, <2>1
<1>3. ASSUME NEW a \in Admins, Publish(a)
      PROVE  NoneForgotten'
  <2>1. /\ work' = [work EXCEPT ![a] = "fanning"]
        /\ visiting' = [visiting EXCEPT ![a] = {p \in Pages : page[p] = "live"}]
        /\ UNCHANGED <<moves, page, shows, missed, channel, event>>
    BY <1>3 DEF Publish
  <2>2. ASSUME NEW p \in Pages, page[p] = "live", NEW m, Publishing(m, p)
        PROVE  Publishing(m, p)'
    BY <1>0, <2>1, <2>2 DEF TypeOK
  <2> QED BY <1>0, <1>a, <1>b, <2>1, <2>2
<1>4. ASSUME NEW n, n = moves + 1, moves' = n, UNCHANGED <<page, shows, channel>>,
             \A p \in Pages : page[p] = "live" =>
               /\ missed[p] \subseteq missed'[p]
               /\ n \in missed'[p] \/ Publishing(n, p)',
             \A m \in Moves, p \in Pages : Publishing(m, p) => Publishing(m, p)'
      PROVE  NoneForgotten'
  <2>1. \A m \in Moves, p \in Pages : Coming(m, p) => Coming(m, p)'
    BY <1>a, <1>b, <1>4
  <2>2. ASSUME NEW p \in Pages, page[p] = "live", NEW m \in shows[p].at + 1 .. moves'
        PROVE  m \in missed'[p] \/ Coming(m, p)'
    <3>1. CASE m = n
      BY <1>4, <1>b, <2>2, <3>1
    <3>2. CASE m # n
      <4>1. m \in shows[p].at + 1 .. moves /\ m \in Moves
        BY <1>0, <1>4, <3>2 DEF TypeOK, Reading, Moves
      <4> QED BY <1>0, <1>4, <2>1, <2>2, <4>1
    <3> QED BY <3>1, <3>2
  <2> QED BY <1>4, <2>2
<1>5. ASSUME NEW a \in Admins, AnswerLost(a)
      PROVE  NoneForgotten'
  <2>1. /\ work[a] = "calling"
        /\ UNCHANGED <<page, shows, channel, event, visiting>>
        /\ \A b \in Admins \ {a} : work'[b] = work[b]
        /\ moves' = moves + 1
        /\ \A p \in Pages : page[p] = "live" => missed'[p] = missed[p] \cup {moves'}
    BY <1>0, <1>5 DEF TypeOK, AnswerLost, StayOpen, Move, Unheard
  <2> QED BY <1>4, <2>1
<1>6. CASE MoveElsewhere
  <2>1. /\ UNCHANGED <<page, shows, channel, event, visiting, work>>
        /\ moves' = moves + 1
        /\ \A p \in Pages : page[p] = "live" => missed'[p] = missed[p] \cup {moves'}
    BY <1>6 DEF MoveElsewhere, Move, Unheard
  <2> QED BY <1>4, <2>1
<1>7. ASSUME NEW a \in Admins, Adjust(a)
      PROVE  NoneForgotten'
  <2>1. /\ work[a] = "calling" /\ work'[a] = "publishing" /\ event'[a].at = moves'
        /\ UNCHANGED <<page, shows, channel, missed, visiting>>
        /\ \A b \in Admins \ {a} : work'[b] = work[b] /\ event'[b] = event[b]
        /\ moves' = moves + 1
    BY <1>0, <1>7 DEF TypeOK, Adjust, Move
  <2>2. \A p \in Pages : \E b \in Admins : event'[b].at = moves + 1 /\ work'[b] = "publishing"
    BY <2>1
  <2> QED BY <1>4, <2>1, <2>2
<1>8. ASSUME NEW a \in Admins, NEW q \in Pages, Send(a, q)
      PROVE  NoneForgotten'
  <2>1. /\ visiting' = [visiting EXCEPT ![a] = @ \ {q}]
        /\ UNCHANGED <<moves, work, event, page, shows>>
    BY <1>8 DEF Send
  <2>2. ASSUME NEW p \in Pages, NEW m, Publishing(m, p), ~(p = q /\ m = event[a].at)
        PROVE  Publishing(m, p)'
    BY <1>0, <2>1, <2>2 DEF TypeOK
  <2>3. CASE /\ channel' = [channel EXCEPT ![q] = Append(@, event[a])]
             /\ UNCHANGED missed
    <3>1. ASSUME NEW p \in Pages, NEW m, Waiting(m, p) PROVE Waiting(m, p)'
      BY <1>0, <2>3, <3>1 DEF TypeOK
    <3>2. Waiting(event[a].at, q)'
      <4>1. /\ Len(channel'[q]) = Len(channel[q]) + 1
            /\ channel'[q][Len(channel[q]) + 1] = event[a]
            /\ Len(channel[q]) \in Nat
        BY <1>0, <2>3 DEF TypeOK
      <4>2. Len(channel'[q]) \in 1 .. Len(channel'[q])
        BY <4>1
      <4> QED BY <2>1, <4>1, <4>2
    <3>3. ASSUME NEW p \in Pages, NEW m, Coming(m, p) PROVE Coming(m, p)'
      <4>1. CASE p = q /\ m = event[a].at
        BY <1>b, <2>1, <3>2, <4>1
      <4>2. CASE ~(p = q /\ m = event[a].at)
        <5>1. Publishing(m, p) \/ Waiting(m, p)
          BY <1>a, <3>3
        <5>2. Publishing(m, p)' \/ Waiting(m, p)'
          BY <2>2, <3>1, <4>2, <5>1
        <5> QED BY <1>b, <5>2
      <4> QED BY <4>1, <4>2
    <3> QED BY <1>0, <2>1, <2>3, <3>3
  <2>4. CASE /\ missed' = [missed EXCEPT ![q] = Later(@ \cup {event[a].at}, shows[q])]
             /\ UNCHANGED channel
    <3>1. ASSUME NEW p \in Pages, NEW m \in shows[p].at + 1 .. moves, m \in missed[p]
          PROVE  m \in missed'[p]
      BY <1>0, <2>4, <3>1 DEF TypeOK, Later, Reading, Moves
    <3>2. event[a].at \in shows[q].at + 1 .. moves => event[a].at \in missed'[q]
      BY <1>0, <2>4 DEF TypeOK, Later, Reading, Moves
    <3>3. ASSUME NEW p \in Pages, NEW m, Coming(m, p), ~(p = q /\ m = event[a].at)
          PROVE  Coming(m, p)'
      <4>1. Waiting(m, p) => Waiting(m, p)'
        BY <2>4
      <4> QED BY <1>a, <1>b, <2>2, <3>3, <4>1
    <3> QED BY <1>0, <2>1, <3>1, <3>2, <3>3
  <2> QED BY <1>8, <2>3, <2>4 DEF Send
<1>9. ASSUME UNCHANGED <<moves, event, work, visiting>>, NEW q \in Pages,
             \A p \in Pages \ {q} :
               /\ page'[p] = page[p] /\ shows'[p] = shows[p]
               /\ missed'[p] = missed[p] /\ channel'[p] = channel[p],
             page'[q] = "live" =>
               \A m \in shows'[q].at + 1 .. moves : m \in missed'[q] \/ Coming(m, q)'
      PROVE  NoneForgotten'
  <2>1. \A p \in Pages \ {q} : \A m : Coming(m, p) => Coming(m, p)'
    BY <1>a, <1>b, <1>9
  <2> QED BY <1>0, <1>9, <2>1
<1>10. ASSUME NEW q \in Pages, Open(q)
       PROVE  NoneForgotten'
  BY <1>0, <1>9, <1>10 DEF Open, TypeOK
<1>11. ASSUME NEW q \in Pages, Disconnect(q)
       PROVE  NoneForgotten'
  BY <1>0, <1>9, <1>11 DEF Disconnect, TypeOK
<1>12. ASSUME NEW q \in Pages, Subscribe(q)
       PROVE  NoneForgotten'
  <2>1. /\ UNCHANGED <<moves, event, work, visiting, shows, channel>>
        /\ \A p \in Pages \ {q} : page'[p] = page[p] /\ missed'[p] = missed[p]
        /\ missed'[q] = (shows[q].at + 1 .. moves)
                          \ {event[a].at : a \in {b \in Admins : work[b] = "publishing"}}
    BY <1>0, <1>12 DEF Subscribe, TypeOK
  <2>2. \A m \in shows[q].at + 1 .. moves : m \in missed'[q] \/ Publishing(m, q)'
    BY <2>1
  <2> QED BY <1>9, <1>b, <2>1, <2>2
<1>13. ASSUME NEW q \in Pages, Receive(q)
       PROVE  NoneForgotten'
  <2>1. /\ UNCHANGED <<moves, event, work, visiting, page>> /\ page[q] = "live"
        /\ \A p \in Pages \ {q} :
             shows'[p] = shows[p] /\ missed'[p] = missed[p] /\ channel'[p] = channel[p]
        /\ shows'[q] = Head(channel[q]) /\ channel[q] # <<>> /\ channel'[q] = Tail(channel[q])
        /\ missed'[q] = Later(missed[q] \cup (Head(channel[q]).at + 1 .. shows[q].at),
                              Head(channel[q]))
    BY <1>0, <1>13 DEF Receive, TypeOK
  <2>2. /\ Head(channel[q]) \in Reading /\ Head(channel[q]) = channel[q][1]
        /\ Len(channel'[q]) = Len(channel[q]) - 1 /\ Len(channel[q]) \in Nat
        /\ \A i \in 2 .. Len(channel[q]) : i - 1 \in 1 .. Len(channel'[q])
                                        /\ channel'[q][i - 1] = channel[q][i]
    BY <1>0, <2>1 DEF TypeOK
  <2>3. ASSUME NEW m, Waiting(m, q), m # Head(channel[q]).at
        PROVE  Waiting(m, q)'
    <3>1. PICK i \in 1 .. Len(channel[q]) : channel[q][i].at = m
      BY <2>3
    <3>2. i \in 2 .. Len(channel[q])
      BY <2>2, <2>3, <3>1
    <3> QED BY <2>2, <3>1, <3>2
  <2>4. \A m : Publishing(m, q) => Publishing(m, q)'
    BY <2>1
  <2>5. ASSUME NEW m \in shows'[q].at + 1 .. moves
        PROVE  m \in missed'[q] \/ Coming(m, q)'
    <3>0. /\ Head(channel[q]).at \in Nat /\ shows[q].at \in Nat /\ moves \in Nat /\ m \in Int
          /\ m > Head(channel[q]).at /\ m <= moves
      BY <1>0, <2>1, <2>2, <2>5 DEF TypeOK, Reading, Moves
    <3>1. CASE m <= shows[q].at
      BY <2>1, <3>0, <3>1 DEF Later
    <3>2. CASE m > shows[q].at
      <4>1. m \in shows[q].at + 1 .. moves
        BY <3>0, <3>2
      <4>2. CASE m \in missed[q]
        BY <2>1, <3>0, <4>2 DEF Later
      <4>3. CASE Coming(m, q)
        <5>1. m # Head(channel[q]).at
          BY <3>0
        <5>2. Publishing(m, q) \/ Waiting(m, q)
          BY <1>a, <4>3
        <5>3. Publishing(m, q)' \/ Waiting(m, q)'
          BY <2>3, <2>4, <5>1, <5>2
        <5> QED BY <1>b, <5>3
      <4> QED BY <1>0, <2>1, <4>1, <4>2, <4>3
    <3> QED BY <3>0, <3>1, <3>2
  <2> QED BY <1>9, <2>1, <2>5
<1>14. CASE Render
  BY <1>c, <1>14 DEF Render
<1> QED
  BY <1>1, <1>2, <1>3, <1>5, <1>6, <1>7, <1>8, <1>10, <1>11, <1>12, <1>13, <1>14 DEF Next

LEMMA InvNext == Inv /\ [Next]_vars => Inv'
<1> SUFFICES ASSUME Inv, [Next]_vars PROVE Inv'
  OBVIOUS
<1>1. CASE Next
  BY <1>1, KeepsType, KeepsDated, KeepsEdits, KeepsAll DEF Inv
<1>2. CASE UNCHANGED vars
  BY <1>2 DEF vars, sessions, browser, Inv, TypeOK, ReadingsDated, Dated, Current,
              SessionsInStep, NoneForgotten, Coming, EditLands
<1> QED BY <1>1, <1>2

\* The inductive invariant of the stock feed: how old each number is, and where
\* each move of the stock is on its way to each page.
THEOREM InvCorrect == Spec => []Inv
BY InvInit, InvNext, PTL DEF Spec

\* Type correctness of the stock feed.
THEOREM TypeCorrect == Spec => []TypeOK
<1>1. Inv => TypeOK
  BY DEF Inv
<1> QED BY <1>1, InvCorrect, PTL

\* An inline edit of a number that was up to date leaves the number typed,
\* whatever the other admins, the reservations and the seeder do.
THEOREM EditLandsCorrect == Spec => []EditLands
<1>1. Inv => EditLands
  BY DEF Inv
<1> QED BY <1>1, InvCorrect, PTL

\* A live page with nothing on its way shows the stock, or has begun with no
\* answer, or has missed a move for one of the reasons that the code allows.
THEOREM StaleForAReasonCorrect == Spec => []StaleForAReason
<1>1. Inv => StaleForAReason
  <2> SUFFICES ASSUME Inv, NEW p \in Pages,
                      page[p] = "live", ~OnItsWay(p), shows[p].from = "stock", missed[p] = {}
               PROVE  shows[p].n = Current.n
    BY DEF StaleForAReason
  <2>1. shows[p].at \in Nat /\ moves \in Nat /\ shows[p].at <= moves
    BY DEF Inv, TypeOK, Moves, Reading, ReadingsDated, Dated
  <2>2. Len(channel[p]) = 0
    BY DEF OnItsWay, Inv, TypeOK
  <2>3. ~Coming(moves, p)
    BY <2>2 DEF OnItsWay, Coming
  <2>4. moves \notin shows[p].at + 1 .. moves
    BY <2>3 DEF Inv, NoneForgotten
  <2>5. shows[p].at = moves
    BY <2>1, <2>4
  <2> QED BY <2>5 DEF Inv, ReadingsDated, Dated
<1> QED BY <1>1, InvCorrect, PTL

-----------------------------------------------------------------------------
(***************************************************************************)
(* The feed keeps to the topic, which the broker implements.               *)
(***************************************************************************)
\* What a publisher offers, and to whom, follows from where its session stands.
LEMMA SameTopic ==
  ASSUME UNCHANGED <<Live, event, visiting>>,
         \A a \in Admins : work'[a] = "fanning" <=> work[a] = "fanning"
  PROVE  UNCHANGED <<Live, postings, servings>>
BY DEF postings, servings, Posting, ServedBy

\* What sessions do before their publish and pages before they subscribe, and
\* what happens to the stock, is invisible.
LEMMA QuietTopic ==
  ASSUME TypeOK,
         \/ \E a \in Admins : \/ OpenTable(a) \/ OpenInventory(a) \/ SendEdit(a) \/ SendDelta(a)
                              \/ Refused(a) \/ AnswerLost(a) \/ Adjust(a)
         \/ \E p \in Pages : Open(p)
         \/ Render \/ MoveElsewhere
         \/ UNCHANGED vars
  PROVE  UNCHANGED <<Live, channel, postings, servings>>
<1>1. ASSUME NEW a \in Admins,
             OpenTable(a) \/ OpenInventory(a) \/ SendEdit(a) \/ SendDelta(a) \/ Refused(a) \/ AnswerLost(a)
      PROVE  UNCHANGED <<Live, channel, postings, servings>>
  <2>1. UNCHANGED <<Live, channel, event, visiting>>
    BY <1>1 DEF OpenTable, OpenInventory, SendEdit, SendDelta, Sent, Refused, AnswerLost, browser, Live
  <2>2. \A x \in Admins : work'[x] = "fanning" <=> work[x] = "fanning"
    BY <1>1 DEF OpenTable, OpenInventory, SendEdit, SendDelta, Sent, Refused, AnswerLost, StayOpen, TypeOK
  <2>. QED  BY <2>1, <2>2, SameTopic
<1>2. ASSUME NEW a \in Admins, Adjust(a)
      PROVE  UNCHANGED <<Live, channel, postings, servings>>
  <2>1. UNCHANGED <<Live, channel, visiting>>
    BY <1>2 DEF Adjust, browser, Live
  <2>2. work[a] = "calling" /\ work' = [work EXCEPT ![a] = "publishing"]
        /\ \A x \in Admins \ {a} : event'[x] = event[x]
    BY <1>2 DEF Adjust, TypeOK
  <2>3. \A x \in Admins : Posting(x)' = Posting(x) /\ ServedBy(x)' = ServedBy(x)
    BY <2>1, <2>2 DEF Posting, ServedBy, TypeOK
  <2>. QED  BY <2>1, <2>3 DEF postings, servings
<1>3. ASSUME NEW p \in Pages, Open(p)
      PROVE  UNCHANGED <<Live, channel, postings, servings>>
  <2>1. UNCHANGED <<Live, channel, event, visiting, work>>
    BY <1>3 DEF Open, Live, sessions, TypeOK
  <2>. QED  BY <2>1, SameTopic
<1>4. CASE Render \/ MoveElsewhere \/ UNCHANGED vars
  <2>1. UNCHANGED <<Live, channel, event, visiting, work>>
    BY <1>4 DEF Render, MoveElsewhere, vars, Live, sessions, browser
  <2>. QED  BY <2>1, SameTopic
<1>. QED  BY <1>1, <1>2, <1>3, <1>4

LEMMA PublishTopic ==
  ASSUME TypeOK, NEW a \in Admins, Publish(a)
  PROVE  Topic!Publish(a)
<1>1. /\ work[a] = "publishing" /\ work' = [work EXCEPT ![a] = "fanning"]
      /\ visiting' = [visiting EXCEPT ![a] = Live]
      /\ UNCHANGED <<Live, channel, event>>
  BY DEF Publish, browser, Live
<1>2. Posting(a) = {} /\ Posting(a)' = {event[a]} /\ ServedBy(a) = {} /\ ServedBy(a)' = {}
  BY <1>1 DEF Posting, ServedBy, TypeOK
<1>3. \A x \in Admins \ {a} : Posting(x)' = Posting(x) /\ ServedBy(x)' = ServedBy(x)
  BY <1>1 DEF Posting, ServedBy, TypeOK
<1>4. postings[a] = {} /\ postings' = [postings EXCEPT ![a] = {event[a]}]
  BY <1>2, <1>3 DEF postings
<1>5. servings' = servings
  BY <1>2, <1>3 DEF servings
<1>6. event[a] \in Reading
  BY DEF TypeOK
<1>. QED  BY <1>1, <1>4, <1>5, <1>6 DEF Topic!Publish

LEMMA SendTopic ==
  ASSUME TypeOK, NEW a \in Admins, NEW p \in Pages, Send(a, p)
  PROVE  Topic!Serve(a, p)
<1>1. /\ work[a] = "fanning" /\ p \in visiting[a] /\ visiting' = [visiting EXCEPT ![a] = @ \ {p}]
      /\ UNCHANGED <<Live, work, event>>
  BY DEF Send, Live
<1>2. p \in Live
  BY <1>1 DEF Live, TypeOK
<1>3. Posting(a) = {event[a]} /\ p \notin ServedBy(a) /\ ServedBy(a)' = ServedBy(a) \cup {p}
  BY <1>1, <1>2 DEF Posting, ServedBy, TypeOK
<1>4. \A x \in Admins : Posting(x)' = Posting(x) /\ (x # a => ServedBy(x)' = ServedBy(x))
  BY <1>1 DEF Posting, ServedBy, TypeOK
<1>5. postings' = postings /\ postings[a] = {event[a]}
  BY <1>3, <1>4 DEF postings
<1>6. servings' = [servings EXCEPT ![a] = @ \cup {p}] /\ p \notin servings[a]
  BY <1>3, <1>4 DEF servings
<1>7. channel' = [channel EXCEPT ![p] = IF Len(@) < Capacity THEN Append(@, event[a]) ELSE @]
  BY FeedAssumption DEF Send, TypeOK
<1>. QED  BY <1>1, <1>2, <1>5, <1>6, <1>7 DEF Topic!Serve

LEMMA AnswerTopic ==
  ASSUME TypeOK, NEW a \in Admins, Answer(a)
  PROVE  Topic!Return(a)
<1>1. /\ work[a] = "fanning" /\ visiting[a] = {} /\ work' = [work EXCEPT ![a] = "away"]
      /\ event' = [event EXCEPT ![a] = Nothing]
      /\ UNCHANGED <<Live, channel, visiting>>
  BY DEF Answer, browser, Live
<1>2. Posting(a) # {} /\ Posting(a)' = {} /\ ServedBy(a) = Live /\ ServedBy(a)' = {}
  BY <1>1 DEF Posting, ServedBy, TypeOK
<1>3. \A x \in Admins \ {a} : Posting(x)' = Posting(x) /\ ServedBy(x)' = ServedBy(x)
  BY <1>1 DEF Posting, ServedBy, TypeOK
<1>4. postings[a] # {} /\ postings' = [postings EXCEPT ![a] = {}]
  BY <1>2, <1>3 DEF postings
<1>5. servings[a] = Live /\ servings' = [servings EXCEPT ![a] = {}]
  BY <1>2, <1>3 DEF servings
<1>. QED  BY <1>1, <1>4, <1>5 DEF Topic!Return

\* A page subscribes and leaves while no publish is fanning out.
LEMMA UnlockedTopic ==
  ASSUME Unlocked, UNCHANGED <<work, event>>
  PROVE  Topic!Settled /\ UNCHANGED <<postings, servings>>
<1>1. \A a \in Admins : Posting(a)' = Posting(a) /\ ServedBy(a) = {} /\ ServedBy(a)' = {}
  BY DEF Unlocked, Posting, ServedBy
<1>. QED  BY <1>1 DEF Topic!Settled, postings, servings

LEMMA PageTopic ==
  ASSUME TypeOK, NEW p \in Pages
  PROVE  /\ Subscribe(p) => Topic!Join(p)
         /\ Disconnect(p) => Topic!Leave(p)
         /\ Receive(p) => Topic!Take(p)
<1>1. ASSUME Subscribe(p) PROVE Topic!Join(p)
  <2>1. p \notin Live /\ Live' = Live \cup {p} /\ channel' = channel
    BY <1>1 DEF Subscribe, Live, TypeOK
  <2>2. Topic!Settled /\ UNCHANGED <<postings, servings>>
    BY <1>1, UnlockedTopic DEF Subscribe, sessions
  <2>. QED  BY <2>1, <2>2 DEF Topic!Join
<1>2. ASSUME Disconnect(p) PROVE Topic!Leave(p)
  <2>1. p \in Live /\ Live' = Live \ {p} /\ channel' = [channel EXCEPT ![p] = <<>>]
    BY <1>2 DEF Disconnect, Live, TypeOK
  <2>2. Topic!Settled /\ UNCHANGED <<postings, servings>>
    BY <1>2, UnlockedTopic DEF Disconnect, sessions
  <2>. QED  BY <2>1, <2>2 DEF Topic!Leave
<1>3. ASSUME Receive(p) PROVE Topic!Take(p)
  <2>1. UNCHANGED <<Live, event, visiting, work>>
    BY <1>3 DEF Receive, Live, sessions
  <2>2. UNCHANGED <<Live, postings, servings>>
    BY <2>1, SameTopic
  <2>. QED  BY <1>3, <2>2 DEF Topic!Take, Receive
<1>. QED  BY <1>1, <1>2, <1>3

\* The feed of a SKU is a use of the topic: what the broker is proved to
\* implement is all that the feed takes for granted of it.
THEOREM FollowsTopicCorrect == Spec => FollowsTopic
<1>1. Init => Topic!Init
  BY DEF Init, Topic!Init, Live, postings, Posting, servings, ServedBy
<1>2. TypeOK /\ [Next]_vars => [Topic!Next]_(Topic!vars)
  <2> SUFFICES ASSUME TypeOK, [Next]_vars
               PROVE  Topic!Next \/ UNCHANGED <<Live, channel, postings, servings>>
    BY DEF Topic!vars
  <2>. QED
    BY PublishTopic, SendTopic, AnswerTopic, PageTopic, QuietTopic DEF Next, Topic!Next
<1>. QED  BY TypeCorrect, <1>1, <1>2, PTL DEF Spec, FollowsTopic, Topic!Spec
=============================================================================
