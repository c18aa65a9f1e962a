-------------------------- MODULE InventoryService --------------------------
(***************************************************************************)
(* The transactions of inventory-service: AdjustStock, ReserveStock and    *)
(* ReleaseStock, each a PostgreSQL transaction of one or two statements    *)
(* run by service.inTx around the repository's functions, interleaved      *)
(* statement by statement at the default isolation level READ COMMITTED.   *)
(*                                                                         *)
(* The database is modelled from how the code uses it.  A statement first  *)
(* looks for its row among the committed ones; a matching row that another *)
(* transaction has a newer, uncommitted version of is waited for, and the  *)
(* WHERE clause is evaluated again on the row as committed then.  An       *)
(* uncommitted version of a row is its lock.                               *)
(***************************************************************************)
EXTENDS InventoryData

VARIABLES
  stock,         \* committed rows of table stock
  reservations,  \* committed rows of table reservations
  req,           \* the request each handler serves
  pc,            \* the statement each handler runs next
  outcome,       \* the answer a handler gives, or gave last
  versions,      \* stock rows a transaction has written and not committed
  inserted,      \* reservations a transaction has inserted ...
  deleted,       \* ... and deleted, and not committed
  issued         \* ids NewID has returned

vars == <<stock, reservations, req, pc, outcome, versions, inserted, deleted, issued>>
tables == <<stock, reservations>>
private == <<versions, inserted, deleted, issued>>

-----------------------------------------------------------------------------
\* Where a handler may stand: "scan" and "lock" in the guarded UPDATE,
\* "classify" in classifyZeroRows, "insert" in ReserveStock's INSERT, "find"
\* and "claim" in ReleaseStock's DELETE, "credit" in its UPDATE.
Locations == {"idle", "scan", "lock", "classify", "insert", "find", "claim",
              "credit", "commit", "rollback"}

TypeOK ==
  /\ stock \subseteq StockRow
  /\ reservations \subseteq Reservation
  /\ req \in [Handlers -> Request \cup {NoRequest}]
  /\ pc \in [Handlers -> Locations]
  /\ outcome \in [Handlers -> Outcomes]
  /\ versions \in [Handlers -> SUBSET StockRow]
  /\ inserted \in [Handlers -> SUBSET Reservation]
  /\ deleted \in [Handlers -> SUBSET Reservation]
  /\ issued \subseteq ReservationIDs

\* The service starts to serve when its seeder has returned; an INSERT of the
\* seeder may have failed, so any part of the table may be there.
Init ==
  /\ \E S \in SUBSET SKUs, q \in SeedQuantities :
       stock = {SeedRow(s, q) : s \in S}
  /\ reservations = {}
  /\ req = [h \in Handlers |-> NoRequest]
  /\ pc = [h \in Handlers |-> "idle"]
  /\ outcome = [h \in Handlers |-> "none"]
  /\ versions = [h \in Handlers |-> {}]
  /\ inserted = [h \in Handlers |-> {}]
  /\ deleted = [h \in Handlers |-> {}]
  /\ issued = {}

-----------------------------------------------------------------------------
Goto(h, l) == pc' = [pc EXCEPT ![h] = l]

\* A statement or the transaction ends with an error the caller will see as o.
GiveUp(h, o) ==
  /\ Goto(h, "rollback")
  /\ outcome' = [outcome EXCEPT ![h] = o]

StockLocked(s) == \E g \in Handlers : \E v \in versions[g] : v.sku = s
ReservationLocked(i) == \E g \in Handlers : \E r \in deleted[g] : r.id = i

\* INTEGER arithmetic that leaves the type raises an error.
Fits(row) ==
  /\ row.available \in (-MaxInt - 1)..MaxInt
  /\ row.reserved \in (-MaxInt - 1)..MaxInt

\* The row an adjustment or a reservation r makes of row.
Updated(r, row) ==
  IF r.op = "adjust" THEN Moved(row, r.delta, 0)
                     ELSE Moved(row, -r.quantity, r.quantity)

\* available + $1 of the WHERE clause (adjustStock) or a SET expression of a row
\* that matches leaves the type.
Overflows(r, row) ==
  /\ row.sku = r.sku
  /\ r.op = "adjust" \/ Guard(r, row)
  /\ ~Fits(Updated(r, row))

\* A bound of the model: a reservation is asked for while ids are left for it
\* and for those that have not got theirs yet.
IdLeft ==
  Cardinality({h \in Handlers : pc[h] \in {"scan", "lock", "insert"} /\ req[h].op = "reserve"})
    < Cardinality(ReservationIDs \ issued)

\* NewID: a random UUID is one no reservation ever had.
FreshID(i) == i \notin issued

\* service.inTx: BeginTx, then the repository's function.
Begin(h, r) ==
  /\ pc[h] = "idle"
  /\ r.op = "reserve" => IdLeft
  /\ req' = [req EXCEPT ![h] = r]
  /\ Goto(h, IF r.op = "release" THEN "find" ELSE "scan")
  /\ outcome' = [outcome EXCEPT ![h] = "none"]
  /\ UNCHANGED <<tables, private>>

\* The guarded UPDATE of adjustStock and reserveStock: zero rows match, or one
\* does and must be locked.
UpdateScan(h) ==
  /\ pc[h] = "scan"
  /\ \/ /\ \E row \in stock : Overflows(req[h], row)
        /\ GiveUp(h, "internal")
     \/ /\ \A row \in stock : ~Overflows(req[h], row)
        /\ Goto(h, IF \E row \in stock : Guard(req[h], row) THEN "lock" ELSE "classify")
        /\ UNCHANGED outcome
  /\ UNCHANGED <<tables, req, private>>

\* The WHERE clause is evaluated on the row, and a new version of it is written.
WriteVersion(h) ==
  /\ \E row \in stock :
       /\ row.sku = req[h].sku
       /\ \/ /\ Overflows(req[h], row)
             /\ GiveUp(h, "internal")
             /\ UNCHANGED versions
          \/ /\ ~Overflows(req[h], row) /\ Guard(req[h], row)
             /\ versions' = [versions EXCEPT ![h] = {Updated(req[h], row)}]
             /\ Goto(h, IF req[h].op = "reserve" THEN "insert" ELSE "commit")
             /\ UNCHANGED outcome
          \/ /\ ~Overflows(req[h], row) /\ ~Guard(req[h], row)
             /\ Goto(h, "classify")
             /\ UNCHANGED <<outcome, versions>>
  /\ UNCHANGED <<tables, req, inserted, deleted, issued>>

\* No other version of the row is pending, so the row is the one committed now.
\* (Variant for the checks: a SELECT, the arithmetic in Go, and an UPDATE that
\* writes the results.)
UpdateFromSnapshot(h) == pc[h] = "lock" /\ WriteVersion(h)
UpdateApply(h) == pc[h] = "lock" /\ ~StockLocked(req[h].sku) /\ WriteVersion(h)

\* classifyZeroRows: a second statement, on the table as committed by then.
\* (Variant for the checks: the driver's error is passed on unclassified.)
UnclassifiedVerdict(h) == "sqlNoRows"
Verdict(h) ==
  IF \E row \in stock : row.sku = req[h].sku THEN "insufficient" ELSE "notFound"

Classify(h) ==
  /\ pc[h] = "classify"
  /\ GiveUp(h, Verdict(h))
  /\ UNCHANGED <<tables, req, private>>

\* reserveStock: NewID and the INSERT into reservations.
InsertReservation(h) ==
  /\ pc[h] = "insert"
  /\ \E i \in {j \in ReservationIDs : FreshID(j)} :
       /\ issued' = issued \cup {i}
       /\ inserted' = [inserted EXCEPT ![h] =
            {[id |-> i, sku |-> req[h].sku, quantity |-> req[h].quantity]}]
  /\ Goto(h, "commit")
  /\ UNCHANGED <<tables, req, outcome, versions, deleted>>

\* releaseStock: DELETE FROM reservations WHERE id = $1 RETURNING.
DeleteScan(h) ==
  /\ pc[h] = "find"
  /\ IF \E r \in reservations : r.id = req[h].id
     THEN Goto(h, "claim") /\ UNCHANGED outcome
     ELSE GiveUp(h, "notFound")
  /\ UNCHANGED <<tables, req, private>>

TakeReservation(h) ==
  /\ \/ \E r \in reservations :
          /\ r.id = req[h].id
          /\ deleted' = [deleted EXCEPT ![h] = {r}]
          /\ Goto(h, "credit")
          /\ UNCHANGED outcome
     \/ /\ \A r \in reservations : r.id # req[h].id
        /\ GiveUp(h, "notFound")
        /\ UNCHANGED deleted
  /\ UNCHANGED <<tables, req, versions, inserted, issued>>

\* (Variant for the checks: the reservation is read by a SELECT, and deleted
\* at the end without a look at how many rows that concerned.)
SelectReservation(h) == pc[h] = "claim" /\ TakeReservation(h)
DeleteApply(h) == pc[h] = "claim" /\ ~ReservationLocked(req[h].id) /\ TakeReservation(h)

\* releaseStock: the UPDATE that credits the row, and the SELECT of the row
\* that its caller throws away.
Credit(h) ==
  /\ pc[h] = "credit"
  /\ \E r \in deleted[h], row \in stock :
       /\ row.sku = r.sku
       /\ ~StockLocked(r.sku)
       /\ LET new == Moved(row, r.quantity, -r.quantity) IN
          \/ /\ Fits(new)
             /\ versions' = [versions EXCEPT ![h] = {new}]
             /\ Goto(h, "commit")
             /\ UNCHANGED outcome
          \/ /\ ~Fits(new)
             /\ GiveUp(h, "internal")
             /\ UNCHANGED versions
  /\ UNCHANGED <<tables, req, inserted, deleted, issued>>

\* The transaction ends, its rows are no longer locked and the call is answered.
\* (Variant for the checks: without the deferred Rollback the transaction
\* stays open.)
LeaveOpen(h) == UNCHANGED <<versions, inserted, deleted>>
CloseTx(h) ==
  /\ versions' = [versions EXCEPT ![h] = {}]
  /\ inserted' = [inserted EXCEPT ![h] = {}]
  /\ deleted' = [deleted EXCEPT ![h] = {}]

EndTx(h, o) ==
  /\ CloseTx(h)
  /\ req' = [req EXCEPT ![h] = NoRequest]
  /\ outcome' = [outcome EXCEPT ![h] = o]
  /\ Goto(h, "idle")
  /\ UNCHANGED issued

\* tx.Commit: the answer is "ok", or "internal" if the connection broke after
\* the server committed and before it said so.
Commit(h) ==
  /\ pc[h] = "commit"
  /\ stock' = {row \in stock : \A v \in versions[h] : v.sku # row.sku} \cup versions[h]
  /\ reservations' = (reservations \ deleted[h]) \cup inserted[h]
  /\ \E o \in {"ok", "internal"} : EndTx(h, o)

\* The deferred tx.Rollback of inTx, which answers with the error decided on.
Rollback(h) ==
  /\ pc[h] = "rollback"
  /\ EndTx(h, outcome[h])
  /\ UNCHANGED tables

\* BeginTx, any statement or the COMMIT fails: the context was cancelled, the
\* deadline passed, the connection or the process was lost.
Fail(h) ==
  /\ pc[h] \notin {"idle", "rollback"}
  /\ GiveUp(h, "internal")
  /\ UNCHANGED <<tables, req, private>>

\* Another instance of the service starts: its seeder inserts a row that is
\* not there yet (ON CONFLICT DO NOTHING, in a transaction of its own).
\* (Variant for the checks: the INSERT without ON CONFLICT and primary key.)
SeedAgain(s) ==
  /\ \E q \in SeedQuantities : stock' = stock \cup {SeedRow(s, q)}
  /\ UNCHANGED <<reservations, req, pc, outcome, private>>

SeedSKU(s) ==
  /\ \A row \in stock : row.sku # s
  /\ \E q \in SeedQuantities : stock' = stock \cup {SeedRow(s, q)}
  /\ UNCHANGED <<reservations, req, pc, outcome, private>>

Step(h) ==
  \/ UpdateScan(h) \/ UpdateApply(h) \/ Classify(h) \/ InsertReservation(h)
  \/ DeleteScan(h) \/ DeleteApply(h) \/ Credit(h)
  \/ Commit(h) \/ Rollback(h)

Next ==
  \/ \E h \in Handlers :
       \/ \E r \in Request : Begin(h, r)
       \/ Step(h)
       \/ Fail(h)
  \/ \E s \in SKUs : SeedSKU(s)

Spec == Init /\ [][Next]_vars

\* Every statement that can run is run, and PostgreSQL queues the waiters of
\* a row, so a handler whose row keeps being released gets it in its turn (it
\* waits at one of the three statements at a time).
Fairness ==
  \A h \in Handlers :
    /\ WF_vars(Step(h))
    /\ SF_vars(UpdateApply(h) \/ DeleteApply(h) \/ Credit(h))

FairSpec == Spec /\ Fairness

-----------------------------------------------------------------------------
\* One row for each SKU and for each reservation id (the primary keys), also
\* after every transaction in progress has committed.
PrimaryKeys ==
  /\ \A r1, r2 \in stock : r1.sku = r2.sku => r1 = r2
  /\ \A r1, r2 \in reservations : r1.id = r2.id => r1 = r2
  /\ \A h \in Handlers : \A r1 \in inserted[h] : \A r2 \in reservations : r1.id # r2.id

\* At most one transaction has an uncommitted version of a stock row, or an
\* uncommitted DELETE of a reservation: "only one concurrent release can
\* succeed" (repository.go:234).
OneWriter ==
  \A g, h \in Handlers : g # h =>
    /\ \A v \in versions[g], w \in versions[h] : v.sku # w.sku
    /\ deleted[g] \cap deleted[h] = {}

\* Row v is what the request of handler h makes of row.
IsEffect(h, row, v) ==
  \/ req[h].op \in {"adjust", "reserve"} /\ v = Updated(req[h], row)
  \/ req[h].op = "release" /\ \E r \in deleted[h] : v = Moved(row, r.quantity, -r.quantity)

\* No lost update: what a transaction will commit is the effect of its request
\* on the row as it is committed now, whatever has committed since it began.
NoLostUpdate ==
  \A h \in Handlers : \A v \in versions[h] :
    \E row \in stock : row.sku = v.sku /\ IsEffect(h, row, v)

\* The transactions of the service cannot deadlock: one that has written a
\* stock row waits for nothing, and one that waits for a reservation holds
\* nothing another may wait for.
NoDeadlyEmbrace ==
  \A h \in Handlers :
    /\ versions[h] # {} => pc[h] \in {"insert", "commit", "rollback"}
    /\ pc[h] \in {"lock", "claim"} => versions[h] = {} /\ deleted[h] = {}

\* The reserved counter of a row counts exactly the units its committed
\* reservations hold: no crash, failure or interleaving of the two-statement
\* transactions of ReserveStock and ReleaseStock loses or invents a unit.
ReservedIsHeld ==
  \A row \in stock : row.reserved = Cardinality(HeldUnits(reservations, row.sku))

\* "available must not go negative" (docs/adr/ADR-001.md:197).
NeverOverdrawn == \A row \in stock : row.available >= 0

\* Units enter and leave the books through adjustments alone: every other step
\* leaves available + reserved of every row as it was.
UnitsConserved ==
  [][\A row \in stock, new \in stock' :
       row.sku = new.sku /\ row.available + row.reserved # new.available + new.reserved
         => \E h \in Handlers : /\ pc[h] = "commit" /\ pc'[h] = "idle"
                                /\ req[h].op = "adjust" /\ req[h].sku = row.sku
                                /\ new = Moved(row, req[h].delta, 0)]_vars

\* Every call is answered.
EveryCallAnswered == \A h \in Handlers : pc[h] # "idle" ~> pc[h] = "idle"

-----------------------------------------------------------------------------
\* The service implements the ledger: a transaction takes effect at its COMMIT,
\* and a call is refused at the statement that matched no row.
LedgerPhase(h) ==
  CASE pc[h] = "idle"     -> "idle"
    [] pc[h] = "classify" -> "refused"
    [] pc[h] = "rollback" -> "judged"
    [] OTHER              -> "pending"

Ledger == INSTANCE StockLedger WITH phase <- [h \in Handlers |-> LedgerPhase(h)]

\* Every behaviour of the transactions is one of the ledger.
ImplementsLedger == Ledger!Spec
=============================================================================
