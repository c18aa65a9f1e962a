---------------------------- MODULE StockLedger ----------------------------
(***************************************************************************)
(* What the inventory service promises to the callers of its gRPC API: a   *)
(* ledger of stock rows and reservations on which every accepted call acts *)
(* exactly once and in one indivisible step, at some moment between the    *)
(* call and its answer, and on which a call that is refused or fails does  *)
(* not act at all (except that an "internal" answer leaves its caller      *)
(* unable to tell).  InventoryService.tla describes the transactions that  *)
(* implement this ledger and refines this specification.                   *)
(***************************************************************************)
EXTENDS InventoryData

VARIABLES
  stock,         \* the rows of table stock
  reservations,  \* the rows of table reservations
  req,           \* the request each handler serves
  phase,         \* how far each call has come
  outcome        \* what each call is (going to be) answered

vars == <<stock, reservations, req, phase, outcome>>

-----------------------------------------------------------------------------
Phases == {"idle", "pending", "refused", "judged"}

TypeOK ==
  /\ stock \subseteq StockRow
  /\ reservations \subseteq Reservation
  /\ req \in [Handlers -> Request \cup {NoRequest}]
  /\ phase \in [Handlers -> Phases]
  /\ outcome \in [Handlers -> Outcomes]

Init ==
  /\ \E S \in SUBSET SKUs, q \in SeedQuantities :
       stock = {SeedRow(s, q) : s \in S}
  /\ reservations = {}
  /\ req = [h \in Handlers |-> NoRequest]
  /\ phase = [h \in Handlers |-> "idle"]
  /\ outcome = [h \in Handlers |-> "none"]

-----------------------------------------------------------------------------
Call(h) ==
  /\ phase[h] = "idle"
  /\ \E r \in Request : req' = [req EXCEPT ![h] = r]
  /\ phase' = [phase EXCEPT ![h] = "pending"]
  /\ outcome' = [outcome EXCEPT ![h] = "none"]
  /\ UNCHANGED <<stock, reservations>>

\* The call is answered: "ok", or "internal" when the answer of the COMMIT
\* was lost on its way to the service.
Accept(h) ==
  /\ \E o \in {"ok", "internal"} : outcome' = [outcome EXCEPT ![h] = o]
  /\ phase' = [phase EXCEPT ![h] = "idle"]
  /\ req' = [req EXCEPT ![h] = NoRequest]

Adjust(h) ==
  /\ phase[h] = "pending" /\ req[h].op = "adjust"
  /\ \E row \in stock :
       /\ Guard(req[h], row)
       /\ stock' = (stock \ {row}) \cup {Moved(row, req[h].delta, 0)}
  /\ Accept(h)
  /\ UNCHANGED reservations

Reserve(h) ==
  /\ phase[h] = "pending" /\ req[h].op = "reserve"
  /\ \E row \in stock, i \in ReservationIDs :
       /\ Guard(req[h], row)
       /\ \A r \in reservations : r.id # i
       /\ stock' = (stock \ {row})
            \cup {Moved(row, -req[h].quantity, req[h].quantity)}
       /\ reservations' = reservations \cup
            {[id |-> i, sku |-> req[h].sku, quantity |-> req[h].quantity]}
  /\ Accept(h)

Release(h) ==
  /\ phase[h] = "pending" /\ req[h].op = "release"
  /\ \E r \in reservations, row \in stock :
       /\ r.id = req[h].id
       /\ row.sku = r.sku
       /\ stock' = (stock \ {row}) \cup {Moved(row, r.quantity, -r.quantity)}
       /\ reservations' = reservations \ {r}
  /\ Accept(h)

\* The guard of a stock update fails on the ledger as it is now.
Refuse(h) ==
  /\ phase[h] = "pending" /\ req[h].op \in {"adjust", "reserve"}
  /\ \A row \in stock : ~Guard(req[h], row)
  /\ phase' = [phase EXCEPT ![h] = "refused"]
  /\ UNCHANGED <<stock, reservations, req, outcome>>

\* The refusal is explained to the caller by a second look at the ledger.
Judge(h) ==
  /\ phase[h] = "refused"
  /\ outcome' = [outcome EXCEPT ![h] =
       IF \E row \in stock : row.sku = req[h].sku THEN "insufficient" ELSE "notFound"]
  /\ phase' = [phase EXCEPT ![h] = "judged"]
  /\ UNCHANGED <<stock, reservations, req>>

\* No such reservation now: never made, or already released.
Unknown(h) ==
  /\ phase[h] = "pending" /\ req[h].op = "release"
  /\ \A r \in reservations : r.id # req[h].id
  /\ outcome' = [outcome EXCEPT ![h] = "notFound"]
  /\ phase' = [phase EXCEPT ![h] = "judged"]
  /\ UNCHANGED <<stock, reservations, req>>

Fail(h) ==
  /\ phase[h] \in {"pending", "refused"}
  /\ outcome' = [outcome EXCEPT ![h] = "internal"]
  /\ phase' = [phase EXCEPT ![h] = "judged"]
  /\ UNCHANGED <<stock, reservations, req>>

Answer(h) ==
  /\ phase[h] = "judged"
  /\ phase' = [phase EXCEPT ![h] = "idle"]
  /\ req' = [req EXCEPT ![h] = NoRequest]
  /\ UNCHANGED <<stock, reservations, outcome>>

\* A starting instance registers a SKU that has no row yet.
Seed(s) ==
  /\ \A row \in stock : row.sku # s
  /\ \E q \in SeedQuantities :
       stock' = stock \cup {SeedRow(s, q)}
  /\ UNCHANGED <<reservations, req, phase, outcome>>

Next ==
  \/ \E h \in Handlers :
       \/ Call(h) \/ Adjust(h) \/ Reserve(h) \/ Release(h)
       \/ Refuse(h) \/ Judge(h) \/ Unknown(h) \/ Fail(h) \/ Answer(h)
  \/ \E s \in SKUs : Seed(s)

Spec == Init /\ [][Next]_vars

-----------------------------------------------------------------------------
\* One row for each SKU and one row for each reservation id: the primary
\* keys of migrations/001_create_tables.sql.
PrimaryKeys ==
  /\ \A r1, r2 \in stock : r1.sku = r2.sku => r1 = r2
  /\ \A r1, r2 \in reservations : r1.id = r2.id => r1 = r2

\* The reserved counter of a row counts exactly the units that its live
\* reservations hold: reserving and releasing never lose or invent a unit.
ReservedIsHeld ==
  \A row \in stock :
    /\ IsFiniteSet(HeldUnits(reservations, row.sku))
    /\ row.reserved = Cardinality(HeldUnits(reservations, row.sku))

\* No sequence of calls overdraws a SKU.
NeverOverdrawn == \A row \in stock : row.available >= 0
=============================================================================
