--------------------------- MODULE MCCatalogStore ---------------------------
(***************************************************************************)
(* Small instances of CatalogStore for TLC.                                *)
(***************************************************************************)
EXTENDS CatalogStore

CONSTANTS codeA, codeB, slugA, slugB

\* Two creations that can stand together, the edits that exchange their slugs,
\* edits of the first product's code, one of them not valid, and its deletion.
FewRequests ==
  {[op |-> "create", code |-> codeA, slug |-> slugA],
   [op |-> "create", code |-> codeB, slug |-> slugB]} \cup
  {j \in UpdateJob : j.code = Keep /\ <<j.id, j.slug>> \in {<<1, slugB>>, <<2, slugA>>}} \cup
  {j \in UpdateJob : j.code \in {codeB, Blank} /\ j.slug = Keep /\ j.id = 1} \cup
  {j \in DeleteJob : j.id = 1}
=============================================================================
