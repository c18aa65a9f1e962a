--------------------------- MODULE MCCatalogSync ---------------------------
(***************************************************************************)
(* Small instances of CatalogSync for TLC: pages of one row.               *)
(***************************************************************************)
EXTENDS CatalogSync

CONSTANTS codeA, codeB, slugA, slugB

\* The second slug lets a row change its contents, or only its time.
FewRequests ==
  {[op |-> "create", code |-> codeA, slug |-> slugA],
   [op |-> "create", code |-> codeB, slug |-> slugB]} \cup
  [op : {"update"}, id : 1..MaxProducts, code : {Keep}, slug : {slugB, Keep}] \cup
  DeleteJob
=============================================================================
