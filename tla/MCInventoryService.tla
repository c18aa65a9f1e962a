------------------------- MODULE MCInventoryService -------------------------
(***************************************************************************)
(* Small instances of InventoryService for TLC.                            *)
(***************************************************************************)
EXTENDS InventoryService, TLC

\* One SKU, deltas that add, drain and probe (0 is what the gateway's SeedSKU
\* sends), quantities of one and of more than the seed.
SmallDeltas == {-1, 0, 2}
SmallQuantities == {1, 2}

\* The request types do not keep a caller from asking for a negative quantity.
SignedQuantities == {-1, 1}
=============================================================================
