--------------------------- MODULE MCVariantSaga ---------------------------
(***************************************************************************)
(* Small instances of VariantSaga for TLC.                                 *)
(***************************************************************************)
EXTENDS VariantSaga, TLC

Symmetry == Permutations(Sagas) \cup Permutations(Products) \cup Permutations(SKUs)
=============================================================================
