--------------------------- MODULE InventoryData ---------------------------
(***************************************************************************)
(* The data of the inventory service, shared by the ledger it promises     *)
(* (StockLedger) and the transactions that implement it (InventoryService).*)
(* order_id is left out: no code of the service reads it back.             *)
(***************************************************************************)
EXTENDS Integers, FiniteSets

CONSTANTS
  Handlers,        \* concurrent RPCs being served
  SKUs,            \* stock keeping units
  ReservationIDs,  \* UUIDs that NewID can return
  Deltas,          \* deltas callers pass to AdjustStock
  Quantities,      \* quantities callers pass to ReserveStock
  SeedQuantities,  \* quantities of the seeder's table
  MaxInt           \* largest value of a PostgreSQL INTEGER (2^31 - 1)

ASSUME DataAssumption ==
  /\ Deltas \subseteq Int
  /\ Quantities \subseteq Int
  /\ SeedQuantities \subseteq Nat
  /\ MaxInt \in Nat

\* Tables stock and reservations of migrations/001_create_tables.sql.
StockRow    == [sku : SKUs, available : Int, reserved : Int]
Reservation == [id : ReservationIDs, sku : SKUs, quantity : Int]

AdjustRequest  == [op : {"adjust"}, sku : SKUs, delta : Deltas]
ReserveRequest == [op : {"reserve"}, sku : SKUs, quantity : Quantities]
ReleaseRequest == [op : {"release"}, id : ReservationIDs]
Request   == AdjustRequest \cup ReserveRequest \cup ReleaseRequest
NoRequest == [op |-> "none"]

\* The gRPC status of an answer; "none" while there is none.
Outcomes == {"none", "ok", "notFound", "insufficient", "internal"}

\* Variant for the checks: an UPDATE without the "available" half of its guard.
UnguardedMatch(r, row) == row.sku = r.sku

\* The WHERE clause of the guarded UPDATE that serves an adjustment or a
\* reservation r.
Guard(r, row) ==
  /\ row.sku = r.sku
  /\ IF r.op = "adjust" THEN row.available + r.delta >= 0
                        ELSE row.available >= r.quantity

\* SET available = available + a, reserved = reserved + b
Moved(row, a, b) ==
  [sku |-> row.sku, available |-> row.available + a, reserved |-> row.reserved + b]

SeedRow(s, q) == [sku |-> s, available |-> q, reserved |-> 0]

\* The units of s that the reservations in R hold, one element for each unit.
HeldUnits(R, s) ==
  UNION {{r.id} \X (1..r.quantity) : r \in {x \in R : x.sku = s}}
=============================================================================
