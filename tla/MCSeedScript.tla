---------------------------- MODULE MCSeedScript ----------------------------
(***************************************************************************)
(* A small instance of SeedScript for TLC: two files, one of which lists   *)
(* two SKUs and the other one of the two again.                            *)
(***************************************************************************)
EXTENDS SeedScript, TLC

CONSTANTS f1, f2, sku1, sku2

TwoFiles == {f1, f2}
TwoSKUs == {sku1, sku2}
Overlapping == f1 :> {sku1, sku2} @@ f2 :> {sku2}
=============================================================================
