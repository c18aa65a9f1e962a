--------------------------- MODULE MCServiceStart ---------------------------
(***************************************************************************)
(* Small instances of ServiceStart for TLC.                                *)
(***************************************************************************)
EXTENDS ServiceStart, TLC
=============================================================================
