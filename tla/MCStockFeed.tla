---------------------------- MODULE MCStockFeed ----------------------------
(***************************************************************************)
(* Small instances of StockFeed for TLC: integers of three bits, so that   *)
(* typed numbers differ from the screen by more than their width.          *)
(***************************************************************************)
EXTENDS StockFeed

SmallDeltas == {-1, 1}
=============================================================================
