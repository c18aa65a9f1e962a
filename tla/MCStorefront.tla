---------------------------- MODULE MCStorefront ----------------------------
(***************************************************************************)
(* Small instances of Storefront for TLC: pages of one product, so that    *)
(* the second one is beyond the end of the page.                           *)
(***************************************************************************)
EXTENDS Storefront, TLC

Symmetry == Permutations(Sagas) \cup Permutations(Products) \cup Permutations(SKUs)
=============================================================================
