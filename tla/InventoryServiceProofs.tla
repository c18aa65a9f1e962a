----------------------- MODULE InventoryServiceProofs -----------------------
(***************************************************************************)
(* Proofs about InventoryService, for any number of handlers, SKUs and     *)
(* reservation ids, any deltas and any quantities: its invariant, that its *)
(* transactions implement StockLedger, and what follows from it.           *)
(***************************************************************************)
EXTENDS InventoryService, FiniteSetTheorems, TLAPS

\* The arithmetic of a row update stays within the row type.
LEMMA MovedType ==
  ASSUME NEW row \in StockRow, NEW a \in Int, NEW b \in Int
  PROVE  Moved(row, a, b) \in StockRow
  BY DEF Moved, StockRow

LEMMA UpdatedType ==
  ASSUME NEW row \in StockRow, NEW r \in AdjustRequest \cup ReserveRequest
  PROVE  Updated(r, row) \in StockRow
<1>1. CASE r \in AdjustRequest
  <2>1. r.delta \in Int /\ r.op = "adjust"
    BY <1>1, DataAssumption DEF AdjustRequest
  <2>. QED  BY <2>1, MovedType DEF Updated
<1>2. CASE r \in ReserveRequest
  <2>1. r.quantity \in Int /\ r.op = "reserve"
    BY <1>2, DataAssumption DEF ReserveRequest
  <2>2. -r.quantity \in Int
    BY <2>1
  <2>. QED  BY <2>1, <2>2, MovedType DEF Updated
<1>. QED  BY <1>1, <1>2

LEMMA SeedRowType ==
  ASSUME NEW s \in SKUs, NEW q \in SeedQuantities
  PROVE  SeedRow(s, q) \in StockRow
  BY DataAssumption DEF SeedRow, StockRow

-----------------------------------------------------------------------------
(***************************************************************************)
(* The inductive invariant.                                                *)
(***************************************************************************)

\* What a handler is doing determines what its transaction holds.
Clean(h) == versions[h] = {} /\ inserted[h] = {} /\ deleted[h] = {}

ShapeOf(h) ==
  /\ pc[h] = "idle" => req[h] = NoRequest /\ Clean(h)
  /\ pc[h] \in {"scan", "lock", "classify"} =>
       req[h] \in AdjustRequest \cup ReserveRequest /\ Clean(h)
  /\ pc[h] \in {"find", "claim"} => req[h] \in ReleaseRequest /\ Clean(h)
  /\ pc[h] = "insert" =>
       /\ req[h] \in ReserveRequest
       /\ (\E v \in versions[h] : versions[h] = {v}) /\ inserted[h] = {} /\ deleted[h] = {}
  /\ pc[h] = "credit" =>
       /\ req[h] \in ReleaseRequest
       /\ versions[h] = {} /\ inserted[h] = {} /\ \E r \in deleted[h] : deleted[h] = {r}
  /\ pc[h] = "commit" =>
       /\ \E v \in versions[h] : versions[h] = {v}
       /\ \/ req[h] \in AdjustRequest /\ inserted[h] = {} /\ deleted[h] = {}
          \/ req[h] \in ReserveRequest /\ (\E r \in inserted[h] : inserted[h] = {r}) /\ deleted[h] = {}
          \/ req[h] \in ReleaseRequest /\ inserted[h] = {} /\ \E r \in deleted[h] : deleted[h] = {r}

Shape == \A h \in Handlers : ShapeOf(h)

\* Every row a transaction has deleted is still committed, and is the one asked for.
Claims ==
  \A h \in Handlers : \A r \in deleted[h] : r \in reservations /\ r.id = req[h].id

\* Every row a transaction has inserted carries its request and a new id.
Inserts ==
  /\ \A r \in reservations : r.id \in issued
  /\ \A h \in Handlers : \A r \in inserted[h] :
       /\ r.id \in issued
       /\ r.sku = req[h].sku /\ r.quantity = req[h].quantity
       /\ \A x \in reservations : x.id # r.id
       /\ \A g \in Handlers : \A x \in inserted[g] : x.id = r.id => g = h /\ x = r

\* Every stock row a transaction has written is the effect of its request on
\* the committed row, for which the WHERE clause of the UPDATE still holds.
Writes ==
  \A h \in Handlers : \A v \in versions[h] : \E row \in stock :
    \/ /\ req[h] \in AdjustRequest \cup ReserveRequest
       /\ Guard(req[h], row) /\ v = Updated(req[h], row)
    \/ /\ req[h] \in ReleaseRequest
       /\ \E r \in deleted[h] : r.sku = row.sku /\ v = Moved(row, r.quantity, -r.quantity)

\* reservations.sku REFERENCES stock(sku)
ForeignKey == \A r \in reservations : \E row \in stock : row.sku = r.sku

Inv == TypeOK /\ Shape /\ PrimaryKeys /\ OneWriter /\ Claims /\ Inserts /\ Writes /\ ForeignKey

-----------------------------------------------------------------------------
\* The op field tells the requests apart.
LEMMA RequestKinds ==
  ASSUME NEW r \in Request \cup {NoRequest}
  PROVE  /\ r.op = "adjust"  <=> r \in AdjustRequest
         /\ r.op = "reserve" <=> r \in ReserveRequest
         /\ r.op = "release" <=> r \in ReleaseRequest
         /\ r.op = "none"    <=> r = NoRequest
  BY DEF Request, NoRequest, AdjustRequest, ReserveRequest, ReleaseRequest

LEMMA InitInv == Init => Inv
<1> SUFFICES ASSUME Init PROVE Inv  OBVIOUS
<1> USE DEF Init
<1>1. TypeOK
  <2>1. stock \subseteq StockRow  BY SeedRowType
  <2>. QED  BY <2>1 DEF TypeOK, Locations, Outcomes
<1>2. Shape  BY DEF Shape, ShapeOf, Clean
<1>3. PrimaryKeys  BY DEF PrimaryKeys, SeedRow
<1>4. OneWriter  BY DEF OneWriter
<1>5. Claims /\ Inserts /\ Writes /\ ForeignKey
  BY DEF Claims, Inserts, Writes, ForeignKey
<1>. QED  BY <1>1, <1>2, <1>3, <1>4, <1>5 DEF Inv

\* Steps of handler h that read the tables and only decide where h goes next.
Decides(h) ==
  /\ UNCHANGED <<tables, req, private>>
  /\ \E l \in Locations : pc' = [pc EXCEPT ![h] = l]
  /\ outcome' \in [Handlers -> Outcomes]

LEMMA DecideInv ==
  ASSUME Inv, NEW h \in Handlers, Decides(h), Shape'
  PROVE  Inv'
<1> USE DEF Inv, Decides, tables, private
<1>1. TypeOK'  BY DEF TypeOK
<1>2. PrimaryKeys' /\ OneWriter'  BY DEF PrimaryKeys, OneWriter
<1>3. Claims' /\ Inserts' /\ Writes' /\ ForeignKey'
  BY DEF Claims, Inserts, Writes, ForeignKey
<1>. QED  BY <1>1, <1>2, <1>3

LEMMA UpdateScanInv ==
  ASSUME Inv, NEW h \in Handlers, UpdateScan(h)
  PROVE  Inv'
<1>1. Shape'
  BY DEF Inv, Shape, ShapeOf, Clean, UpdateScan, GiveUp, Goto, tables, private, TypeOK
<1>2. Decides(h)
  BY DEF Inv, TypeOK, UpdateScan, Decides, GiveUp, Goto, Locations, Outcomes
<1>. QED  BY <1>1, <1>2, DecideInv

LEMMA ClassifyInv ==
  ASSUME Inv, NEW h \in Handlers, Classify(h)
  PROVE  Inv'
<1>1. Shape'
  BY DEF Inv, Shape, ShapeOf, Clean, Classify, GiveUp, Goto, tables, private, TypeOK
<1>2. Decides(h)
  BY DEF Inv, TypeOK, Classify, Verdict, Decides, GiveUp, Goto, Locations, Outcomes
<1>. QED  BY <1>1, <1>2, DecideInv

LEMMA DeleteScanInv ==
  ASSUME Inv, NEW h \in Handlers, DeleteScan(h)
  PROVE  Inv'
<1>1. Shape'
  BY DEF Inv, Shape, ShapeOf, Clean, DeleteScan, GiveUp, Goto, tables, private, TypeOK
<1>2. Decides(h)
  BY DEF Inv, TypeOK, DeleteScan, Decides, GiveUp, Goto, Locations, Outcomes
<1>. QED  BY <1>1, <1>2, DecideInv

LEMMA FailInv ==
  ASSUME Inv, NEW h \in Handlers, Fail(h)
  PROVE  Inv'
<1>1. Shape'
  BY DEF Inv, Shape, ShapeOf, Clean, Fail, GiveUp, Goto, tables, private, TypeOK
<1>2. Decides(h)
  BY DEF Inv, TypeOK, Fail, Decides, GiveUp, Goto, Locations, Outcomes
<1>. QED  BY <1>1, <1>2, DecideInv

LEMMA BeginInv ==
  ASSUME Inv, NEW h \in Handlers, NEW r \in Request, Begin(h, r)
  PROVE  Inv'
<1> USE DEF Inv, Begin, Goto, tables, private
<1>1. TypeOK'  BY DEF TypeOK, Locations, Outcomes
<1>2. Shape'
  <2>1. r.op = "release" <=> r \in ReleaseRequest
    BY RequestKinds
  <2>. QED  BY <2>1 DEF Shape, ShapeOf, Clean, TypeOK, Request
<1>3. PrimaryKeys' /\ OneWriter'  BY DEF PrimaryKeys, OneWriter
<1>4. Clean(h)  BY DEF Shape, ShapeOf
<1>5. Claims' /\ Inserts' /\ Writes' /\ ForeignKey'
  BY <1>4 DEF Clean, Claims, Inserts, Writes, ForeignKey, TypeOK
<1>. QED  BY <1>1, <1>2, <1>3, <1>5

LEMMA RollbackInv ==
  ASSUME Inv, NEW h \in Handlers, Rollback(h)
  PROVE  Inv'
<1> USE DEF Inv, Rollback, EndTx, CloseTx, Goto, tables
<1>1. TypeOK'  BY DEF TypeOK, Locations
<1>2. Shape'  BY DEF Shape, ShapeOf, Clean, TypeOK
<1>3. PrimaryKeys' /\ OneWriter'  BY DEF PrimaryKeys, OneWriter, TypeOK
<1>4. Claims' /\ Inserts' /\ Writes' /\ ForeignKey'
  BY DEF Claims, Inserts, Writes, ForeignKey, TypeOK
<1>. QED  BY <1>1, <1>2, <1>3, <1>4

LEMMA InsertReservationInv ==
  ASSUME Inv, NEW h \in Handlers, InsertReservation(h)
  PROVE  Inv'
<1> USE DEF Inv, InsertReservation, FreshID, Goto, tables
<1>1. PICK i \in ReservationIDs : 
        /\ i \notin issued
        /\ issued' = issued \cup {i}
        /\ inserted' = [inserted EXCEPT ![h] =
             {[id |-> i, sku |-> req[h].sku, quantity |-> req[h].quantity]}]
  OBVIOUS
<1>2. req[h] \in ReserveRequest /\ req[h].sku \in SKUs /\ req[h].quantity \in Int
  <2>1. req[h] \in ReserveRequest  BY DEF Shape, ShapeOf
  <2>. QED  BY <2>1, DataAssumption DEF ReserveRequest
<1>3. TypeOK'  BY <1>1, <1>2 DEF TypeOK, Locations, Reservation
<1>4. Shape'  BY <1>1 DEF Shape, ShapeOf, Clean, TypeOK
<1>5. PrimaryKeys' /\ OneWriter'
  BY <1>1 DEF PrimaryKeys, OneWriter, Inserts, TypeOK
<1>6. Inserts'  BY <1>1 DEF Inserts, TypeOK
<1>7. Claims' /\ Writes' /\ ForeignKey'
  BY DEF Claims, Writes, ForeignKey
<1>. QED  BY <1>3, <1>4, <1>5, <1>6, <1>7

LEMMA DeleteApplyInv ==
  ASSUME Inv, NEW h \in Handlers, DeleteApply(h)
  PROVE  Inv'
<1> USE DEF Inv, DeleteApply, TakeReservation, GiveUp, Goto, tables, ReservationLocked
<1>1. TypeOK'  BY DEF TypeOK, Locations, Outcomes
<1>2. Shape'
  <2>1. ASSUME NEW g \in Handlers, g # h  PROVE ShapeOf(g)'
    BY <2>1 DEF Shape, ShapeOf, Clean, TypeOK
  <2>2. req[h] \in ReleaseRequest /\ Clean(h)  BY DEF Shape, ShapeOf
  <2>3. ShapeOf(h)'
    BY <2>2 DEF ShapeOf, Clean, TypeOK
  <2>. QED  BY <2>1, <2>3 DEF Shape
<1>3. Clean(h)  BY DEF Shape, ShapeOf
<1>4. PrimaryKeys'  BY DEF PrimaryKeys
<1>5. OneWriter'  BY <1>3 DEF OneWriter, TypeOK, Clean
<1>6. Claims'  BY DEF Claims, TypeOK
<1>7. Writes'
  BY <1>3 DEF Writes, TypeOK, Clean
<1>8. Inserts' /\ ForeignKey'  BY DEF Inserts, ForeignKey
<1>. QED  BY <1>1, <1>2, <1>4, <1>5, <1>6, <1>7, <1>8

LEMMA UpdateApplyInv ==
  ASSUME Inv, NEW h \in Handlers, UpdateApply(h)
  PROVE  Inv'
<1> USE DEF Inv, tables, StockLocked
<1>1. PICK row \in stock :
        /\ row.sku = req[h].sku
        /\ \/ GiveUp(h, "internal") /\ UNCHANGED versions
           \/ /\ Guard(req[h], row)
              /\ versions' = [versions EXCEPT ![h] = {Updated(req[h], row)}]
              /\ Goto(h, IF req[h].op = "reserve" THEN "insert" ELSE "commit")
              /\ UNCHANGED outcome
           \/ Goto(h, "classify") /\ UNCHANGED <<outcome, versions>>
  BY DEF UpdateApply, WriteVersion
<1>2. /\ pc[h] = "lock" /\ ~StockLocked(req[h].sku)
      /\ UNCHANGED <<stock, reservations, req, inserted, deleted, issued>>
  BY DEF UpdateApply, WriteVersion
<1>3. req[h] \in AdjustRequest \cup ReserveRequest /\ Clean(h)
  BY <1>2 DEF Shape, ShapeOf
<1>4. req[h].op = "reserve" <=> req[h] \in ReserveRequest
  BY RequestKinds DEF TypeOK
<1>5. Updated(req[h], row) \in StockRow /\ Updated(req[h], row).sku = row.sku
  <2>1. row \in StockRow  BY DEF TypeOK
  <2>2. Updated(req[h], row) \in StockRow  BY <2>1, <1>3, UpdatedType
  <2>. QED  BY <2>2 DEF Updated, Moved
<1>6. TypeOK'  BY <1>1, <1>2, <1>5 DEF TypeOK, Locations, Outcomes, GiveUp, Goto
<1>7. Shape'
  <2>1. ASSUME NEW g \in Handlers, g # h  PROVE ShapeOf(g)'
    BY <2>1, <1>1, <1>2 DEF Shape, ShapeOf, Clean, TypeOK, GiveUp, Goto
  <2>2. ShapeOf(h)'
    BY <1>1, <1>2, <1>3, <1>4 DEF ShapeOf, Clean, TypeOK, GiveUp, Goto
  <2>. QED  BY <2>1, <2>2 DEF Shape
<1>8. PrimaryKeys'  BY <1>2 DEF PrimaryKeys
<1>9. OneWriter'
  BY <1>1, <1>2, <1>5 DEF OneWriter, TypeOK, GiveUp, Goto
<1>10. Claims' /\ Inserts' /\ ForeignKey'
  BY <1>2 DEF Claims, Inserts, ForeignKey
<1>11. Writes'
  BY <1>1, <1>2, <1>3 DEF Writes, TypeOK
<1>. QED  BY <1>6, <1>7, <1>8, <1>9, <1>10, <1>11

LEMMA CreditInv ==
  ASSUME Inv, NEW h \in Handlers, Credit(h)
  PROVE  Inv'
<1> USE DEF Inv, tables, StockLocked
<1>1. PICK r \in deleted[h], row \in stock :
        /\ row.sku = r.sku
        /\ ~StockLocked(r.sku)
        /\ \/ /\ versions' = [versions EXCEPT ![h] = {Moved(row, r.quantity, -r.quantity)}]
              /\ Goto(h, "commit") /\ UNCHANGED outcome
           \/ GiveUp(h, "internal") /\ UNCHANGED versions
  BY DEF Credit
<1>2. pc[h] = "credit" /\ UNCHANGED <<stock, reservations, req, inserted, deleted, issued>>
  BY DEF Credit
<1>3. /\ req[h] \in ReleaseRequest /\ versions[h] = {} /\ inserted[h] = {}
      /\ deleted[h] = {r}
  BY <1>2 DEF Shape, ShapeOf
<1>4. /\ Moved(row, r.quantity, -r.quantity) \in StockRow
      /\ Moved(row, r.quantity, -r.quantity).sku = row.sku
  <2>1. row \in StockRow /\ r \in Reservation  BY DEF TypeOK
  <2>2. r.quantity \in Int  BY <2>1 DEF Reservation
  <2>3. -r.quantity \in Int  BY <2>2
  <2>4. Moved(row, r.quantity, -r.quantity) \in StockRow  BY <2>1, <2>2, <2>3, MovedType
  <2>. QED  BY <2>4 DEF Moved
<1>5. TypeOK'  BY <1>1, <1>2, <1>4 DEF TypeOK, Locations, Outcomes, GiveUp, Goto
<1>6. Shape'
  <2>1. ASSUME NEW g \in Handlers, g # h  PROVE ShapeOf(g)'
    BY <2>1, <1>1, <1>2 DEF Shape, ShapeOf, Clean, TypeOK, GiveUp, Goto
  <2>2. ShapeOf(h)'
    BY <1>1, <1>2, <1>3 DEF ShapeOf, Clean, TypeOK, GiveUp, Goto
  <2>. QED  BY <2>1, <2>2 DEF Shape
<1>7. PrimaryKeys'  BY <1>2 DEF PrimaryKeys
<1>8. OneWriter'
  BY <1>1, <1>2, <1>4 DEF OneWriter, TypeOK, GiveUp, Goto
<1>9. Claims' /\ Inserts' /\ ForeignKey'
  BY <1>2 DEF Claims, Inserts, ForeignKey
<1>10. Writes'
  BY <1>1, <1>2, <1>3 DEF Writes, TypeOK
<1>. QED  BY <1>5, <1>6, <1>7, <1>8, <1>9, <1>10

LEMMA SeedSKUInv ==
  ASSUME Inv, NEW s \in SKUs, SeedSKU(s)
  PROVE  Inv'
<1> USE DEF Inv, SeedSKU, private
<1>1. PICK q \in SeedQuantities : stock' = stock \cup {SeedRow(s, q)}
  OBVIOUS
<1>2. SeedRow(s, q) \in StockRow /\ SeedRow(s, q).sku = s
  BY SeedRowType DEF SeedRow
<1>3. TypeOK'  BY <1>1, <1>2 DEF TypeOK
<1>4. Shape' /\ OneWriter' /\ Claims' /\ Inserts'
  BY DEF Shape, ShapeOf, Clean, OneWriter, Claims, Inserts
<1>5. PrimaryKeys'  BY <1>1, <1>2 DEF PrimaryKeys
<1>6. Writes' /\ ForeignKey'  BY <1>1 DEF Writes, ForeignKey
<1>. QED  BY <1>3, <1>4, <1>5, <1>6

LEMMA CommitInv ==
  ASSUME Inv, NEW h \in Handlers, Commit(h)
  PROVE  Inv'
<1> USE DEF Inv
<1>1. /\ pc[h] = "commit"
      /\ stock' = {row \in stock : \A v \in versions[h] : v.sku # row.sku} \cup versions[h]
      /\ reservations' = (reservations \ deleted[h]) \cup inserted[h]
      /\ versions' = [versions EXCEPT ![h] = {}]
      /\ inserted' = [inserted EXCEPT ![h] = {}]
      /\ deleted' = [deleted EXCEPT ![h] = {}]
      /\ req' = [req EXCEPT ![h] = NoRequest]
      /\ pc' = [pc EXCEPT ![h] = "idle"]
      /\ issued' = issued
      /\ \E o \in {"ok", "internal"} : outcome' = [outcome EXCEPT ![h] = o]
  BY DEF Commit, EndTx, CloseTx, Goto
<1>2. PICK v \in versions[h] : versions[h] = {v}
  BY <1>1 DEF Shape, ShapeOf
<1>3. PICK row \in stock :
        /\ v.sku = row.sku
        /\ req[h] \in AdjustRequest \cup ReserveRequest => row.sku = req[h].sku
  <2>1. PICK row \in stock :
          \/ /\ req[h] \in AdjustRequest \cup ReserveRequest
             /\ Guard(req[h], row) /\ v = Updated(req[h], row)
          \/ /\ req[h] \in ReleaseRequest
             /\ \E r \in deleted[h] : r.sku = row.sku /\ v = Moved(row, r.quantity, -r.quantity)
    BY DEF Writes
  <2>2. v.sku = row.sku  BY <2>1 DEF Updated, Moved
  <2>3. req[h] \in ReleaseRequest => req[h] \notin AdjustRequest \cup ReserveRequest
    BY DEF AdjustRequest, ReserveRequest, ReleaseRequest
  <2>. QED  BY <2>1, <2>2, <2>3 DEF Guard
<1>4. stock' = {x \in stock : x.sku # v.sku} \cup {v}
  BY <1>1, <1>2
<1>5. TypeOK'  BY <1>1, <1>4 DEF TypeOK, Locations, Outcomes
<1>6. Shape'
  <2>1. ASSUME NEW g \in Handlers, g # h  PROVE ShapeOf(g)'
    BY <2>1, <1>1 DEF Shape, ShapeOf, Clean, TypeOK
  <2>2. ShapeOf(h)'
    BY <1>1 DEF ShapeOf, Clean, TypeOK
  <2>. QED  BY <2>1, <2>2 DEF Shape
<1>7. PrimaryKeys'
  <2>1. \A r1, r2 \in stock' : r1.sku = r2.sku => r1 = r2
    BY <1>4 DEF PrimaryKeys
  <2>2. \A r1, r2 \in reservations' : r1.id = r2.id => r1 = r2
    BY <1>1 DEF PrimaryKeys, Inserts
  <2>3. \A g \in Handlers : \A r1 \in inserted'[g] : \A r2 \in reservations' : r1.id # r2.id
    BY <1>1 DEF PrimaryKeys, Inserts, TypeOK
  <2>. QED  BY <2>1, <2>2, <2>3 DEF PrimaryKeys
<1>8. OneWriter'  BY <1>1 DEF OneWriter, TypeOK
<1>9. Claims'  BY <1>1 DEF Claims, OneWriter, TypeOK
<1>10. Inserts'  BY <1>1 DEF Inserts, TypeOK
<1>11. Writes'
  <2> SUFFICES ASSUME NEW g \in Handlers, g # h, NEW w \in versions[g]
               PROVE  \E x \in stock' :
                 \/ /\ req[g] \in AdjustRequest \cup ReserveRequest
                    /\ Guard(req[g], x) /\ w = Updated(req[g], x)
                 \/ /\ req[g] \in ReleaseRequest
                    /\ \E r \in deleted[g] : r.sku = x.sku /\ w = Moved(x, r.quantity, -r.quantity)
    BY <1>1 DEF Writes, TypeOK
  <2>1. PICK x \in stock :
          \/ /\ req[g] \in AdjustRequest \cup ReserveRequest
             /\ Guard(req[g], x) /\ w = Updated(req[g], x)
          \/ /\ req[g] \in ReleaseRequest
             /\ \E r \in deleted[g] : r.sku = x.sku /\ w = Moved(x, r.quantity, -r.quantity)
    BY DEF Writes
  <2>2. w.sku = x.sku  BY <2>1 DEF Updated, Moved
  <2>3. x \in stock'  BY <1>2, <1>4, <2>2 DEF OneWriter
  <2>. QED  BY <2>1, <2>3
<1>12. ForeignKey'
  <2> SUFFICES ASSUME NEW r \in reservations'
               PROVE  \E x \in stock' : x.sku = r.sku
    BY DEF ForeignKey
  <2>1. CASE r \in reservations
    BY <2>1, <1>4 DEF ForeignKey
  <2>2. CASE r \in inserted[h]
    <3>1. req[h] \in ReserveRequest  BY <2>2, <1>1 DEF Shape, ShapeOf
    <3>2. r.sku = req[h].sku  BY <2>2 DEF Inserts
    <3>. QED  BY <3>1, <3>2, <1>3, <1>4
  <2>. QED  BY <2>1, <2>2, <1>1
<1>. QED
  BY <1>5, <1>6, <1>7, <1>8, <1>9, <1>10, <1>11, <1>12

-----------------------------------------------------------------------------
LEMMA StutterInv ==
  ASSUME Inv, UNCHANGED vars
  PROVE  Inv'
  BY DEF Inv, vars, TypeOK, Shape, ShapeOf, Clean, PrimaryKeys, OneWriter, Claims,
         Inserts, Writes, ForeignKey

\* The invariant is inductive, and so holds of every state of the service.
THEOREM InvCorrect == Spec => []Inv
<1>1. Inv /\ [Next]_vars => Inv'
  <2> SUFFICES ASSUME Inv, [Next]_vars  PROVE Inv'
    OBVIOUS
  <2>1. ASSUME NEW h \in Handlers, NEW r \in Request, Begin(h, r)  PROVE Inv'
    BY <2>1, BeginInv
  <2>2. ASSUME NEW h \in Handlers, Step(h)  PROVE Inv'
    BY <2>2, UpdateScanInv, UpdateApplyInv, ClassifyInv, InsertReservationInv,
       DeleteScanInv, DeleteApplyInv, CreditInv, CommitInv, RollbackInv DEF Step
  <2>3. ASSUME NEW h \in Handlers, Fail(h)  PROVE Inv'
    BY <2>3, FailInv
  <2>4. ASSUME NEW s \in SKUs, SeedSKU(s)  PROVE Inv'
    BY <2>4, SeedSKUInv
  <2>5. CASE UNCHANGED vars
    BY <2>5, StutterInv
  <2>. QED  BY <2>1, <2>2, <2>3, <2>4, <2>5 DEF Next
<1>. QED  BY InitInv, <1>1, PTL DEF Spec

\* The state of the service keeps its type.
THEOREM TypeCorrect == Spec => []TypeOK
  BY InvCorrect, PTL DEF Inv

\* A stock row has at most one uncommitted version and a reservation at most
\* one uncommitted DELETE, whatever requests race.
THEOREM OneWriterCorrect == Spec => []OneWriter
  BY InvCorrect, PTL DEF Inv

\* Primary keys hold, also between a transaction in progress and the tables.
THEOREM PrimaryKeysCorrect == Spec => []PrimaryKeys
  BY InvCorrect, PTL DEF Inv

\* No update is lost: see NoLostUpdate.
THEOREM NoLostUpdateCorrect == Spec => []NoLostUpdate
<1>1. Inv => NoLostUpdate
  <2> SUFFICES ASSUME Inv, NEW h \in Handlers, NEW v \in versions[h]
               PROVE  \E row \in stock : row.sku = v.sku /\ IsEffect(h, row, v)
    BY DEF NoLostUpdate
  <2>1. PICK row \in stock :
          \/ /\ req[h] \in AdjustRequest \cup ReserveRequest
             /\ Guard(req[h], row) /\ v = Updated(req[h], row)
          \/ /\ req[h] \in ReleaseRequest
             /\ \E r \in deleted[h] : r.sku = row.sku /\ v = Moved(row, r.quantity, -r.quantity)
    BY DEF Inv, Writes
  <2>2. row.sku = v.sku  BY <2>1 DEF Updated, Moved
  <2>3. req[h] \in Request \cup {NoRequest}  BY DEF Inv, TypeOK
  <2>4. IsEffect(h, row, v)
    BY <2>1, <2>3, RequestKinds DEF IsEffect
  <2>. QED  BY <2>2, <2>4
<1>. QED  BY <1>1, InvCorrect, PTL

\* No two transactions of the service can wait for each other: see
\* NoDeadlyEmbrace.
THEOREM NoDeadlyEmbraceCorrect == Spec => []NoDeadlyEmbrace
<1>1. Inv => NoDeadlyEmbrace
  BY DEF Inv, TypeOK, Locations, Shape, ShapeOf, Clean, NoDeadlyEmbrace
<1>. QED  BY <1>1, InvCorrect, PTL

-----------------------------------------------------------------------------
(***************************************************************************)
(* The transactions of InventoryService implement the ledger of            *)
(* StockLedger, and what follows from it for callers that never ask for a  *)
(* negative quantity: no row is overdrawn and the reserved counters count  *)
(* exactly the units that reservations hold.                               *)
(***************************************************************************)
\* The moment a transaction takes effect is one step of the ledger.
LEMMA CommitIsLedgerStep ==
  ASSUME Inv, NEW h \in Handlers, Commit(h)
  PROVE  Ledger!Adjust(h) \/ Ledger!Reserve(h) \/ Ledger!Release(h)
<1> USE DEF Inv
<1>1. /\ pc[h] = "commit"
      /\ stock' = {row \in stock : \A v \in versions[h] : v.sku # row.sku} \cup versions[h]
      /\ reservations' = (reservations \ deleted[h]) \cup inserted[h]
      /\ req' = [req EXCEPT ![h] = NoRequest]
      /\ pc' = [pc EXCEPT ![h] = "idle"]
      /\ \E o \in {"ok", "internal"} : outcome' = [outcome EXCEPT ![h] = o]
  BY DEF Commit, EndTx, CloseTx, Goto
<1>2. PICK v \in versions[h] : versions[h] = {v}
  BY <1>1 DEF Shape, ShapeOf
<1>3. PICK row \in stock :
        \/ /\ req[h] \in AdjustRequest \cup ReserveRequest
           /\ Guard(req[h], row) /\ v = Updated(req[h], row)
        \/ /\ req[h] \in ReleaseRequest
           /\ \E r \in deleted[h] : r.sku = row.sku /\ v = Moved(row, r.quantity, -r.quantity)
  BY DEF Writes
<1>4. v.sku = row.sku  BY <1>3 DEF Updated, Moved
<1>5. stock' = (stock \ {row}) \cup {v}
  BY <1>1, <1>2, <1>4 DEF PrimaryKeys
<1>6. /\ [g \in Handlers |-> LedgerPhase(g)][h] = "pending"
      /\ [g \in Handlers |-> LedgerPhase(g)]'
           = [[g \in Handlers |-> LedgerPhase(g)] EXCEPT ![h] = "idle"]
  BY <1>1 DEF LedgerPhase, TypeOK
<1>7. Ledger!Accept(h)
  BY <1>1, <1>6 DEF Ledger!Accept, Ledger!NoRequest, NoRequest
<1>8. CASE req[h] \in AdjustRequest
  <2>1. req[h].op = "adjust" /\ req[h] \notin ReleaseRequest
    BY <1>8 DEF AdjustRequest, ReleaseRequest
  <2>2. Guard(req[h], row) /\ v = Moved(row, req[h].delta, 0)
    BY <1>3, <2>1 DEF Updated
  <2>3. reservations' = reservations
    <3>1. inserted[h] = {} /\ deleted[h] = {}
      BY <1>1, <1>8 DEF Shape, ShapeOf, AdjustRequest, ReserveRequest, ReleaseRequest
    <3>. QED  BY <3>1, <1>1
  <2>. QED
    BY <1>5, <1>6, <1>7, <2>1, <2>2, <2>3
    DEF Ledger!Adjust, Ledger!Guard, Guard, Ledger!Moved, Moved
<1>9. CASE req[h] \in ReserveRequest
  <2>1. req[h].op = "reserve" /\ req[h] \notin AdjustRequest /\ req[h] \notin ReleaseRequest
    BY <1>9 DEF AdjustRequest, ReserveRequest, ReleaseRequest
  <2>2. Guard(req[h], row) /\ v = Moved(row, -req[h].quantity, req[h].quantity)
    BY <1>3, <2>1 DEF Updated
  <2>3. PICK r \in inserted[h] : inserted[h] = {r} /\ deleted[h] = {}
    BY <1>1, <2>1 DEF Shape, ShapeOf
  <2>4. /\ r.id \in ReservationIDs /\ \A x \in reservations : x.id # r.id
        /\ r = [id |-> r.id, sku |-> req[h].sku, quantity |-> req[h].quantity]
    BY <2>3 DEF TypeOK, Reservation, Inserts
  <2>5. reservations' = reservations
          \cup {[id |-> r.id, sku |-> req[h].sku, quantity |-> req[h].quantity]}
    BY <1>1, <2>3, <2>4
  <2>. QED
    BY <1>5, <1>6, <1>7, <2>1, <2>2, <2>4, <2>5
    DEF Ledger!Reserve, Ledger!Guard, Guard, Ledger!Moved, Moved
<1>10. CASE req[h] \in ReleaseRequest
  <2>1. req[h].op = "release" /\ req[h] \notin AdjustRequest /\ req[h] \notin ReserveRequest
    BY <1>10 DEF AdjustRequest, ReserveRequest, ReleaseRequest
  <2>2. PICK r \in deleted[h] : r.sku = row.sku /\ v = Moved(row, r.quantity, -r.quantity)
    BY <1>3, <2>1
  <2>3. inserted[h] = {} /\ deleted[h] = {r}
    BY <1>1, <2>1, <2>2 DEF Shape, ShapeOf
  <2>4. r \in reservations /\ r.id = req[h].id
    BY <2>2 DEF Claims
  <2>5. reservations' = reservations \ {r}
    BY <1>1, <2>3
  <2>. QED
    BY <1>5, <1>6, <1>7, <2>1, <2>2, <2>4, <2>5
    DEF Ledger!Release, Ledger!Moved, Moved
<1>. QED  BY <1>3, <1>8, <1>9, <1>10

LEMMA LedgerInit == Init => Ledger!Init
  BY DEF Init, Ledger!Init, Ledger!SeedRow, SeedRow, Ledger!NoRequest, NoRequest, LedgerPhase

\* Every other step of handler h is a step of the ledger's call or is hidden.
LEMMA HandlerStepIsLedgerStep ==
  ASSUME Inv, NEW h \in Handlers, Step(h) \/ Fail(h)
  PROVE  Ledger!Next \/ UNCHANGED Ledger!vars
<1> DEFINE phase == [g \in Handlers |-> LedgerPhase(g)]
<1> USE DEF Inv
<1>1. CASE UpdateScan(h)
  <2>1. pc[h] = "scan" /\ UNCHANGED <<stock, reservations, req>>
    BY <1>1 DEF UpdateScan, tables
  <2>2. req[h].op \in {"adjust", "reserve"}
    BY <2>1 DEF Shape, ShapeOf, AdjustRequest, ReserveRequest
  <2>3. CASE GiveUp(h, "internal")
    <3>1. Ledger!Fail(h)
      BY <2>1, <2>3 DEF Ledger!Fail, GiveUp, Goto, LedgerPhase, TypeOK
    <3>. QED  BY <3>1 DEF Ledger!Next
  <2>4. CASE Goto(h, "lock") /\ UNCHANGED outcome
    <3>1. phase' = phase
      BY <2>1, <2>4 DEF Goto, LedgerPhase, TypeOK
    <3>. QED  BY <2>1, <2>4, <3>1 DEF Ledger!vars
  <2>5. CASE /\ Goto(h, "classify") /\ UNCHANGED outcome
             /\ \A row \in stock : ~Guard(req[h], row)
    <3>1. Ledger!Refuse(h)
      BY <2>1, <2>2, <2>5 DEF Ledger!Refuse, Ledger!Guard, Guard, Goto, LedgerPhase, TypeOK
    <3>. QED  BY <3>1 DEF Ledger!Next
  <2>. QED  BY <1>1, <2>3, <2>4, <2>5 DEF UpdateScan
<1>2. CASE UpdateApply(h)
  <2>1. pc[h] = "lock" /\ UNCHANGED <<stock, reservations, req>>
    BY <1>2 DEF UpdateApply, WriteVersion, tables
  <2>2. req[h].op \in {"adjust", "reserve"}
    BY <2>1 DEF Shape, ShapeOf, AdjustRequest, ReserveRequest
  <2>3. CASE GiveUp(h, "internal")
    <3>1. Ledger!Fail(h)
      BY <2>1, <2>3 DEF Ledger!Fail, GiveUp, Goto, LedgerPhase, TypeOK
    <3>. QED  BY <3>1 DEF Ledger!Next
  <2>4. CASE /\ Goto(h, IF req[h].op = "reserve" THEN "insert" ELSE "commit")
             /\ UNCHANGED outcome
    <3>1. phase' = phase
      BY <2>1, <2>4 DEF Goto, LedgerPhase, TypeOK
    <3>. QED  BY <2>1, <2>4, <3>1 DEF Ledger!vars
  <2>5. CASE /\ Goto(h, "classify") /\ UNCHANGED outcome
             /\ \E row \in stock : row.sku = req[h].sku /\ ~Guard(req[h], row)
    <3>1. \A row \in stock : ~Guard(req[h], row)
      BY <2>5 DEF PrimaryKeys, Guard
    <3>2. Ledger!Refuse(h)
      BY <2>1, <2>2, <2>5, <3>1 DEF Ledger!Refuse, Ledger!Guard, Guard, Goto, LedgerPhase, TypeOK
    <3>. QED  BY <3>2 DEF Ledger!Next
  <2>. QED  BY <1>2, <2>3, <2>4, <2>5 DEF UpdateApply, WriteVersion
<1>3. CASE Classify(h)
  <2>1. Ledger!Judge(h)
    BY <1>3 DEF Classify, Verdict, Ledger!Judge, GiveUp, Goto, LedgerPhase, TypeOK, tables
  <2>. QED  BY <2>1 DEF Ledger!Next
<1>4. CASE InsertReservation(h)
  <2>1. phase' = phase
    BY <1>4 DEF InsertReservation, Goto, LedgerPhase, TypeOK
  <2>. QED  BY <1>4, <2>1 DEF InsertReservation, tables, Ledger!vars
<1>5. CASE DeleteScan(h)
  <2>1. pc[h] = "find" /\ UNCHANGED <<stock, reservations, req>>
    BY <1>5 DEF DeleteScan, tables
  <2>2. req[h].op = "release"
    BY <2>1 DEF Shape, ShapeOf, ReleaseRequest
  <2>3. CASE Goto(h, "claim") /\ UNCHANGED outcome
    <3>1. phase' = phase
      BY <2>1, <2>3 DEF Goto, LedgerPhase, TypeOK
    <3>. QED  BY <2>1, <2>3, <3>1 DEF Ledger!vars
  <2>4. CASE GiveUp(h, "notFound") /\ \A r \in reservations : r.id # req[h].id
    <3>1. Ledger!Unknown(h)
      BY <2>1, <2>2, <2>4 DEF Ledger!Unknown, GiveUp, Goto, LedgerPhase, TypeOK
    <3>. QED  BY <3>1 DEF Ledger!Next
  <2>. QED  BY <1>5, <2>3, <2>4 DEF DeleteScan
<1>6. CASE DeleteApply(h)
  <2>1. pc[h] = "claim" /\ UNCHANGED <<stock, reservations, req>>
    BY <1>6 DEF DeleteApply, TakeReservation, tables
  <2>2. req[h].op = "release"
    BY <2>1 DEF Shape, ShapeOf, ReleaseRequest
  <2>3. CASE Goto(h, "credit") /\ UNCHANGED outcome
    <3>1. phase' = phase
      BY <2>1, <2>3 DEF Goto, LedgerPhase, TypeOK
    <3>. QED  BY <2>1, <2>3, <3>1 DEF Ledger!vars
  <2>4. CASE GiveUp(h, "notFound") /\ \A r \in reservations : r.id # req[h].id
    <3>1. Ledger!Unknown(h)
      BY <2>1, <2>2, <2>4 DEF Ledger!Unknown, GiveUp, Goto, LedgerPhase, TypeOK
    <3>. QED  BY <3>1 DEF Ledger!Next
  <2>. QED  BY <1>6, <2>3, <2>4 DEF DeleteApply, TakeReservation
<1>7. CASE Credit(h)
  <2>1. pc[h] = "credit" /\ UNCHANGED <<stock, reservations, req>>
    BY <1>7 DEF Credit, tables
  <2>2. CASE Goto(h, "commit") /\ UNCHANGED outcome
    <3>1. phase' = phase
      BY <2>1, <2>2 DEF Goto, LedgerPhase, TypeOK
    <3>. QED  BY <2>1, <2>2, <3>1 DEF Ledger!vars
  <2>3. CASE GiveUp(h, "internal")
    <3>1. Ledger!Fail(h)
      BY <2>1, <2>3 DEF Ledger!Fail, GiveUp, Goto, LedgerPhase, TypeOK
    <3>. QED  BY <3>1 DEF Ledger!Next
  <2>. QED  BY <1>7, <2>2, <2>3 DEF Credit
<1>8. CASE Commit(h)
  BY <1>8, CommitIsLedgerStep DEF Ledger!Next
<1>9. CASE Rollback(h)
  <2>1. outcome' = outcome
    BY <1>9 DEF Rollback, EndTx, TypeOK
  <2>2. Ledger!Answer(h)
    BY <1>9, <2>1 DEF Rollback, EndTx, Goto, tables, Ledger!Answer, Ledger!NoRequest,
       NoRequest, LedgerPhase, TypeOK
  <2>. QED  BY <2>2 DEF Ledger!Next
<1>10. CASE Fail(h)
  <2>1. Ledger!Fail(h)
    BY <1>10 DEF Fail, GiveUp, Goto, tables, Ledger!Fail, LedgerPhase, TypeOK, Locations
  <2>. QED  BY <2>1 DEF Ledger!Next
<1>. QED
  BY <1>1, <1>2, <1>3, <1>4, <1>5, <1>6, <1>7, <1>8, <1>9, <1>10 DEF Step

\* Every behaviour of the transactions is a behaviour of the ledger.
THEOREM ImplementsLedgerCorrect == Spec => ImplementsLedger
<1>1. Inv /\ [Next]_vars => [Ledger!Next]_(Ledger!vars)
  <2> SUFFICES ASSUME Inv, [Next]_vars  PROVE [Ledger!Next]_(Ledger!vars)
    OBVIOUS
  <2>1. ASSUME NEW h \in Handlers, NEW r \in Request, Begin(h, r)
        PROVE  Ledger!Next
    <3>1. Ledger!Call(h)
      BY <2>1 DEF Inv, Begin, Goto, tables, Ledger!Call, LedgerPhase, TypeOK,
         Ledger!Request, Request, Ledger!AdjustRequest, AdjustRequest,
         Ledger!ReserveRequest, ReserveRequest, Ledger!ReleaseRequest, ReleaseRequest
    <3>. QED  BY <3>1 DEF Ledger!Next
  <2>2. ASSUME NEW h \in Handlers, Step(h) \/ Fail(h)
        PROVE  Ledger!Next \/ UNCHANGED Ledger!vars
    BY <2>2, HandlerStepIsLedgerStep
  <2>3. ASSUME NEW s \in SKUs, SeedSKU(s)
        PROVE  Ledger!Next
    <3>1. Ledger!Seed(s)
      BY <2>3 DEF SeedSKU, Ledger!Seed, Ledger!SeedRow, SeedRow, LedgerPhase
    <3>. QED  BY <3>1 DEF Ledger!Next
  <2>4. CASE UNCHANGED vars
    BY <2>4 DEF vars, Ledger!vars, LedgerPhase
  <2>. QED  BY <2>1, <2>2, <2>3, <2>4 DEF Next
<1>. QED
  BY InvCorrect, LedgerInit, <1>1, PTL DEF Spec, ImplementsLedger, Ledger!Spec

-----------------------------------------------------------------------------
\* A new reservation adds its units to those held of its SKU and of no other.
LEMMA HeldUnitsAdd ==
  ASSUME NEW R, NEW r, \A x \in R : x.id # r.id, r.quantity \in Nat,
         IsFiniteSet(HeldUnits(R, r.sku))
  PROVE  /\ IsFiniteSet(HeldUnits(R \cup {r}, r.sku))
         /\ Cardinality(HeldUnits(R \cup {r}, r.sku))
              = Cardinality(HeldUnits(R, r.sku)) + r.quantity
<1> DEFINE U == {r.id} \X (1..r.quantity)
<1>1. IsFiniteSet(U) /\ Cardinality(U) = r.quantity
  <2>1. IsFiniteSet({r.id}) /\ Cardinality({r.id}) = 1
    BY FS_Singleton
  <2>2. IsFiniteSet(1..r.quantity) /\ Cardinality(1..r.quantity) = r.quantity
    BY FS_Interval
  <2>3. IsFiniteSet(U) /\ Cardinality(U) = Cardinality({r.id}) * Cardinality(1..r.quantity)
    BY <2>1, <2>2, FS_Product
  <2>. QED  BY <2>1, <2>2, <2>3
<1>2. HeldUnits(R \cup {r}, r.sku) = HeldUnits(R, r.sku) \cup U
  BY DEF HeldUnits
<1>3. HeldUnits(R, r.sku) \cap U = {}
  BY DEF HeldUnits
<1>4. Cardinality({}) = 0  BY FS_EmptySet
<1>5. Cardinality(HeldUnits(R, r.sku)) \in Nat  BY FS_CardinalityType
<1>6. /\ IsFiniteSet(HeldUnits(R, r.sku) \cup U)
      /\ Cardinality(HeldUnits(R, r.sku) \cup U)
           = Cardinality(HeldUnits(R, r.sku)) + Cardinality(U)
               - Cardinality(HeldUnits(R, r.sku) \cap U)
  <2> HIDE DEF U
  <2>. QED  BY <1>1, FS_Union
<1>7. Cardinality(HeldUnits(R, r.sku) \cap U) = 0
  BY <1>3, <1>4
<1>8. Cardinality(HeldUnits(R, r.sku) \cup U) = Cardinality(HeldUnits(R, r.sku)) + r.quantity
  <2> HIDE DEF U
  <2>. QED  BY <1>1, <1>5, <1>6, <1>7
<1>. QED  BY <1>2, <1>6, <1>8

LEMMA HeldUnitsOther ==
  ASSUME NEW R, NEW r, NEW s, s # r.sku
  PROVE  /\ HeldUnits(R \cup {r}, s) = HeldUnits(R, s)
         /\ HeldUnits(R \ {r}, s) = HeldUnits(R, s)
  BY DEF HeldUnits

\* A released reservation takes its units away.
LEMMA HeldUnitsRemove ==
  ASSUME NEW R, NEW r \in R, \A x \in R : x.id = r.id => x = r, r.quantity \in Nat,
         IsFiniteSet(HeldUnits(R, r.sku))
  PROVE  /\ IsFiniteSet(HeldUnits(R \ {r}, r.sku))
         /\ Cardinality(HeldUnits(R \ {r}, r.sku))
              = Cardinality(HeldUnits(R, r.sku)) - r.quantity
<1>1. HeldUnits(R \ {r}, r.sku) \subseteq HeldUnits(R, r.sku)
  BY DEF HeldUnits
<1>2. IsFiniteSet(HeldUnits(R \ {r}, r.sku))
  BY <1>1, FS_Subset
<1>3. \A x \in R \ {r} : x.id # r.id
  OBVIOUS
<1>4. (R \ {r}) \cup {r} = R
  OBVIOUS
<1>5. Cardinality(HeldUnits(R, r.sku)) = Cardinality(HeldUnits(R \ {r}, r.sku)) + r.quantity
  BY <1>2, <1>3, <1>4, HeldUnitsAdd
<1>6. Cardinality(HeldUnits(R \ {r}, r.sku)) \in Nat
  BY <1>2, FS_CardinalityType
<1>. QED  BY <1>2, <1>5, <1>6

-----------------------------------------------------------------------------
\* What the books of the service say while no caller asks for a negative
\* quantity.
Books ==
  /\ NeverOverdrawn
  /\ \A r \in reservations : r.quantity \in Nat
  /\ \A s \in SKUs : IsFiniteSet(HeldUnits(reservations, s))
  /\ ReservedIsHeld

LEMMA BooksInit == Init => Books
<1> SUFFICES ASSUME Init PROVE Books  OBVIOUS
<1>1. \A s \in SKUs : HeldUnits(reservations, s) = {}
  BY DEF Init, HeldUnits
<1>2. IsFiniteSet({}) /\ Cardinality({}) = 0
  BY FS_EmptySet
<1>3. ReservedIsHeld
  BY <1>1, <1>2 DEF Init, SeedRow, ReservedIsHeld
<1>4. NeverOverdrawn
  BY DataAssumption DEF Init, SeedRow, NeverOverdrawn
<1>. QED  BY <1>1, <1>2, <1>3, <1>4 DEF Books, Init

\* Only a transaction that takes effect, or a seeder, changes the tables.
LEMMA TablesChange ==
  ASSUME Inv, [Next]_vars
  PROVE  \/ UNCHANGED tables
         \/ \E h \in Handlers :
              /\ Commit(h)
              /\ Ledger!Adjust(h) \/ Ledger!Reserve(h) \/ Ledger!Release(h)
         \/ \E s \in SKUs : SeedSKU(s)
<1>1. ASSUME NEW h \in Handlers, Step(h)
      PROVE  \/ UNCHANGED tables
             \/ Commit(h) /\ (Ledger!Adjust(h) \/ Ledger!Reserve(h) \/ Ledger!Release(h))
  BY <1>1, CommitIsLedgerStep
  DEF Step, UpdateScan, UpdateApply, WriteVersion, Classify, InsertReservation, DeleteScan,
      DeleteApply, TakeReservation, Credit, Rollback
<1>. QED  BY <1>1 DEF Next, Begin, Fail, vars, tables

\* An accepted reservation of a natural quantity keeps the books.
LEMMA ReserveKeepsBooks ==
  ASSUME Inv, Books, NEW h \in Handlers, Ledger!Reserve(h), Quantities \subseteq Nat
  PROVE  Books'
<1> USE DEF Inv, Books
<1>1. PICK row \in stock, i \in ReservationIDs :
        /\ Ledger!Guard(req[h], row)
        /\ \A r \in reservations : r.id # i
        /\ stock' = (stock \ {row})
             \cup {Ledger!Moved(row, -req[h].quantity, req[h].quantity)}
        /\ reservations' = reservations \cup
             {[id |-> i, sku |-> req[h].sku, quantity |-> req[h].quantity]}
  BY DEF Ledger!Reserve
<1> DEFINE q == req[h].quantity
           new == Moved(row, -q, q)
           r == [id |-> i, sku |-> row.sku, quantity |-> q]
<1>2. q \in Nat /\ req[h].op = "reserve"
  BY RequestKinds DEF Ledger!Reserve, TypeOK, ReserveRequest
<1>3. row.sku = req[h].sku /\ row.available >= q
  BY <1>1, <1>2 DEF Ledger!Guard
<1>4. row \in StockRow /\ row.available \in Int /\ row.reserved \in Int /\ row.sku \in SKUs
  BY DEF TypeOK, StockRow
<1>5. stock' = (stock \ {row}) \cup {new} /\ reservations' = reservations \cup {r}
  BY <1>1, <1>3 DEF Ledger!Moved, Moved
<1>6. new.sku = row.sku /\ new.available = row.available - q /\ new.reserved = row.reserved + q
  BY <1>2, <1>4 DEF Moved
<1>7. /\ IsFiniteSet(HeldUnits(reservations', row.sku))
      /\ Cardinality(HeldUnits(reservations', row.sku))
           = Cardinality(HeldUnits(reservations, row.sku)) + q
  <2>1. r.sku = row.sku /\ r.quantity = q /\ \A x \in reservations : x.id # r.id
    BY <1>1
  <2> HIDE DEF r, q
  <2>. QED  BY <1>2, <1>4, <1>5, <2>1, HeldUnitsAdd
<1>8. \A s \in SKUs : s # row.sku => HeldUnits(reservations', s) = HeldUnits(reservations, s)
  BY <1>5, HeldUnitsOther
<1>9. NeverOverdrawn'
  BY <1>2, <1>3, <1>4, <1>5, <1>6 DEF NeverOverdrawn
<1>10. (\A x \in reservations : x.quantity \in Nat)'
  BY <1>2, <1>5
<1>11. (\A s \in SKUs : IsFiniteSet(HeldUnits(reservations, s)))'
  BY <1>7, <1>8
<1>12. ReservedIsHeld'
  <2> HIDE DEF new
  <2>1. new.reserved = Cardinality(HeldUnits(reservations', new.sku))
    BY <1>6, <1>7 DEF ReservedIsHeld
  <2>2. \A x \in stock \ {row} : x.sku \in SKUs /\ x.sku # row.sku
    BY DEF PrimaryKeys, TypeOK, StockRow
  <2>. QED  BY <1>5, <1>8, <2>1, <2>2 DEF ReservedIsHeld
<1>. QED  BY <1>9, <1>10, <1>11, <1>12

\* A release gives back exactly the units its reservation held.
LEMMA ReleaseKeepsBooks ==
  ASSUME Inv, Books, NEW h \in Handlers, Ledger!Release(h)
  PROVE  Books'
<1> USE DEF Inv, Books
<1>1. PICK r \in reservations, row \in stock :
        /\ row.sku = r.sku
        /\ stock' = (stock \ {row}) \cup {Ledger!Moved(row, r.quantity, -r.quantity)}
        /\ reservations' = reservations \ {r}
  BY DEF Ledger!Release
<1> DEFINE new == Moved(row, r.quantity, -r.quantity)
<1>2. r.quantity \in Nat
  OBVIOUS
<1>3. row \in StockRow /\ row.available \in Int /\ row.reserved \in Int /\ row.sku \in SKUs
  BY DEF TypeOK, StockRow
<1>4. stock' = (stock \ {row}) \cup {new}
  BY <1>1 DEF Ledger!Moved, Moved
<1>5. /\ new.sku = row.sku
      /\ new.available = row.available + r.quantity
      /\ new.reserved = row.reserved - r.quantity
  BY <1>2, <1>3 DEF Moved
<1>6. /\ IsFiniteSet(HeldUnits(reservations', row.sku))
      /\ Cardinality(HeldUnits(reservations', row.sku))
           = Cardinality(HeldUnits(reservations, row.sku)) - r.quantity
  <2>1. \A x \in reservations : x.id = r.id => x = r
    BY DEF PrimaryKeys
  <2>. QED  BY <1>1, <1>2, <1>3, <2>1, HeldUnitsRemove
<1>7. \A s \in SKUs : s # row.sku => HeldUnits(reservations', s) = HeldUnits(reservations, s)
  BY <1>1, HeldUnitsOther
<1>8. NeverOverdrawn'
  BY <1>2, <1>3, <1>4, <1>5 DEF NeverOverdrawn
<1>9. (\A x \in reservations : x.quantity \in Nat)'
  BY <1>1
<1>10. (\A s \in SKUs : IsFiniteSet(HeldUnits(reservations, s)))'
  BY <1>6, <1>7
<1>11. ReservedIsHeld'
  <2> HIDE DEF new
  <2>1. new.reserved = Cardinality(HeldUnits(reservations', new.sku))
    BY <1>5, <1>6 DEF ReservedIsHeld
  <2>2. \A x \in stock \ {row} : x.sku \in SKUs /\ x.sku # row.sku
    BY DEF PrimaryKeys, TypeOK, StockRow
  <2>. QED  BY <1>4, <1>7, <2>1, <2>2 DEF ReservedIsHeld
<1>. QED  BY <1>8, <1>9, <1>10, <1>11

\* An adjustment moves units in or out but never below zero, and no reservation.
LEMMA AdjustKeepsBooks ==
  ASSUME Inv, Books, NEW h \in Handlers, Ledger!Adjust(h)
  PROVE  Books'
<1> USE DEF Inv, Books
<1>1. PICK row \in stock :
        /\ Ledger!Guard(req[h], row)
        /\ stock' = (stock \ {row}) \cup {Ledger!Moved(row, req[h].delta, 0)}
        /\ UNCHANGED reservations
  BY DEF Ledger!Adjust
<1> DEFINE new == Moved(row, req[h].delta, 0)
<1>2. req[h].delta \in Int /\ req[h].op = "adjust"
  BY RequestKinds, DataAssumption DEF Ledger!Adjust, TypeOK, AdjustRequest
<1>3. row.available \in Int /\ row.reserved \in Int
  BY DEF TypeOK, StockRow
<1>4. stock' = (stock \ {row}) \cup {new}
  BY <1>1 DEF Ledger!Moved, Moved
<1>5. new.sku = row.sku /\ new.available >= 0 /\ new.reserved = row.reserved
  BY <1>1, <1>2, <1>3 DEF Moved, Ledger!Guard
<1>6. NeverOverdrawn' /\ ReservedIsHeld'
  <2> HIDE DEF new
  <2>. QED  BY <1>1, <1>4, <1>5 DEF NeverOverdrawn, ReservedIsHeld
<1>. QED  BY <1>1, <1>6

\* A seeded row starts with nothing reserved, and nothing holds units of it:
\* a reservation of that SKU would refer to a row that was not there.
LEMMA SeedKeepsBooks ==
  ASSUME Inv, Books, NEW s \in SKUs, SeedSKU(s)
  PROVE  Books'
<1> USE DEF Inv, Books
<1>1. PICK q \in SeedQuantities : stock' = stock \cup {SeedRow(s, q)}
  BY DEF SeedSKU
<1>2. reservations' = reservations /\ \A row \in stock : row.sku # s
  BY DEF SeedSKU
<1>3. HeldUnits(reservations, s) = {}
  BY <1>2 DEF ForeignKey, HeldUnits
<1>4. NeverOverdrawn'
  BY <1>1, DataAssumption DEF NeverOverdrawn, SeedRow
<1>5. ReservedIsHeld'
  BY <1>1, <1>2, <1>3, FS_EmptySet DEF ReservedIsHeld, SeedRow
<1>. QED  BY <1>2, <1>4, <1>5

LEMMA BooksCorrect == Quantities \subseteq Nat => (Spec => []Books)
<1>1. Quantities \subseteq Nat /\ Inv /\ Books /\ [Next]_vars => Books'
  <2> SUFFICES ASSUME Quantities \subseteq Nat, Inv, Books, [Next]_vars  PROVE Books'
    OBVIOUS
  <2>1. CASE UNCHANGED tables
    BY <2>1 DEF tables, Books, NeverOverdrawn, ReservedIsHeld
  <2>. QED
    BY <2>1, TablesChange, AdjustKeepsBooks, ReserveKeepsBooks, ReleaseKeepsBooks,
       SeedKeepsBooks
<1>2. ASSUME Quantities \subseteq Nat  PROVE Spec => []Books
  <2>1. Inv /\ Books /\ [Next]_vars => Books'
    BY <1>1, <1>2
  <2>. QED  BY BooksInit, InvCorrect, <2>1, PTL DEF Spec
<1>. QED  BY <1>2

\* While callers ask for natural quantities, no interleaving of the service's
\* transactions drives the available units of a SKU below zero.
THEOREM NeverOverdrawnCorrect == Quantities \subseteq Nat => (Spec => []NeverOverdrawn)
<1>1. Books => NeverOverdrawn  BY DEF Books
<1>. QED  BY BooksCorrect, <1>1, PTL

\* ... and the reserved counter of each row counts the units held of it.
THEOREM ReservedIsHeldCorrect == Quantities \subseteq Nat => (Spec => []ReservedIsHeld)
<1>1. Books => ReservedIsHeld  BY DEF Books
<1>. QED  BY BooksCorrect, <1>1, PTL
-----------------------------------------------------------------------------
\* A row that one row replaces is, under its SKU, that row or untouched.
LEMMA Replaced ==
  ASSUME Inv, NEW row \in stock, NEW v, v.sku = row.sku,
         stock' = (stock \ {row}) \cup {v},
         NEW old \in stock, NEW new \in stock', old.sku = new.sku
  PROVE  old = new \/ (old = row /\ new = v)
  BY DEF Inv, PrimaryKeys

\* The effect that a transaction has on the sum of a row's units: an
\* adjustment's delta, and none otherwise.
LEMMA TransferKeepsSum ==
  ASSUME NEW row \in StockRow, NEW q \in Int
  PROVE  LET out == Moved(row, -q, q)  back == Moved(row, q, -q)
         IN  /\ out.sku = row.sku /\ back.sku = row.sku
             /\ out.available + out.reserved = row.available + row.reserved
             /\ back.available + back.reserved = row.available + row.reserved
<1>1. row.available \in Int /\ row.reserved \in Int
  BY DEF StockRow
<1>. QED  BY <1>1 DEF Moved

\* Whatever quantities the callers ask for, the units of a SKU change their
\* number only by a committed adjustment of that SKU, and by its delta.
THEOREM UnitsConservedCorrect == Spec => UnitsConserved
<1>1. ASSUME Inv, [Next]_vars, NEW row \in stock, NEW new \in stock', row.sku = new.sku,
             row.available + row.reserved # new.available + new.reserved
      PROVE  \E h \in Handlers : /\ pc[h] = "commit" /\ pc'[h] = "idle"
                                 /\ req[h].op = "adjust" /\ req[h].sku = row.sku
                                 /\ new = Moved(row, req[h].delta, 0)
  <2> USE DEF Inv
  <2>1. row # new
    BY <1>1
  <2>2. stock' # stock
    BY <1>1, <2>1 DEF PrimaryKeys
  <2>3. ASSUME NEW s \in SKUs, SeedSKU(s)  PROVE FALSE
    BY <1>1, <2>1, <2>3 DEF SeedSKU, SeedRow, PrimaryKeys
  <2>4. PICK h \in Handlers :
          /\ Commit(h)
          /\ Ledger!Adjust(h) \/ Ledger!Reserve(h) \/ Ledger!Release(h)
    BY <1>1, <2>2, <2>3, TablesChange DEF tables
  <2>5. pc[h] = "commit" /\ pc'[h] = "idle"
    BY <1>1, <2>4 DEF Commit, EndTx, Goto, TypeOK
  <2>6. CASE Ledger!Adjust(h)
    <3>1. PICK r \in stock : /\ Ledger!Guard(req[h], r)
                             /\ stock' = (stock \ {r}) \cup {Moved(r, req[h].delta, 0)}
      BY <2>6 DEF Ledger!Adjust, Ledger!Moved, Moved
    <3>2. req[h].op = "adjust" /\ r.sku = req[h].sku
      BY <2>6, <3>1 DEF Ledger!Adjust, Ledger!Guard
    <3>3. Moved(r, req[h].delta, 0).sku = r.sku
      BY DEF Moved
    <3>4. row = r /\ new = Moved(r, req[h].delta, 0)
      BY <1>1, <2>1, <3>1, <3>3, Replaced
    <3>. QED  BY <2>5, <3>2, <3>4
  <2>7. CASE Ledger!Reserve(h)
    <3>1. PICK r \in stock :
            stock' = (stock \ {r}) \cup {Moved(r, -req[h].quantity, req[h].quantity)}
      BY <2>7 DEF Ledger!Reserve, Ledger!Moved, Moved
    <3>2. req[h].quantity \in Int
      BY <1>1, <2>7, RequestKinds, DataAssumption DEF Ledger!Reserve, TypeOK, ReserveRequest
    <3>3. r \in StockRow
      BY <1>1 DEF TypeOK
    <3>. QED  BY <1>1, <2>1, <3>1, <3>2, <3>3, TransferKeepsSum, Replaced
  <2>8. CASE Ledger!Release(h)
    <3>1. PICK x \in reservations, r \in stock :
            stock' = (stock \ {r}) \cup {Moved(r, x.quantity, -x.quantity)}
      BY <2>8 DEF Ledger!Release, Ledger!Moved, Moved
    <3>2. x.quantity \in Int /\ r \in StockRow
      BY <1>1 DEF TypeOK, Reservation
    <3>. QED  BY <1>1, <2>1, <3>1, <3>2, TransferKeepsSum, Replaced
  <2>. QED  BY <2>4, <2>6, <2>7, <2>8
<1>2. Inv /\ [Next]_vars =>
        [\A row \in stock, new \in stock' :
           row.sku = new.sku /\ row.available + row.reserved # new.available + new.reserved
             => \E h \in Handlers : /\ pc[h] = "commit" /\ pc'[h] = "idle"
                                    /\ req[h].op = "adjust" /\ req[h].sku = row.sku
                                    /\ new = Moved(row, req[h].delta, 0)]_vars
  BY <1>1
<1>. QED  BY InvCorrect, <1>2, PTL DEF Spec, UnitsConserved
=============================================================================
