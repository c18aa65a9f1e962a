---------------------------- MODULE VariantSaga ----------------------------
(***************************************************************************)
(* POST /admin/products/{id}/variants: the gateway's addVariant saga, the  *)
(* catalog-service handler it posts to, and the AdjustStock call by which  *)
(* it means to register the SKU with inventory-service.  Several admins    *)
(* add variants at once, others delete products, and calls between the     *)
(* services fail.                                                          *)
(*                                                                         *)
(* Every request is well formed: the checks of its syntax are left out.    *)
(***************************************************************************)
EXTENDS Naturals

CONSTANTS
  Sagas,     \* requests to add a variant, each served once
  Products,  \* product ids
  SKUs,      \* SKUs of variants
  NoVariant, \* no variant
  Accepts,   \* ProductVariant.Validate accepts what the catalog's handler builds:
             \* FALSE in the code, which sets no StockStatus, TRUE of the
             \* catalog that the gateway's tests put in its place
  Faults     \* calls between the services may fail

ASSUME SagaAssumption ==
  /\ Accepts \in BOOLEAN /\ Faults \in BOOLEAN
  /\ NoVariant \notin [product : Products, sku : SKUs]

VARIABLES
  products,  \* catalog_products
  variants,  \* product_variants
  stock,     \* the SKUs that inventory-service has a row for
  asked,     \* the variant each saga is asked for
  pc,        \* where each saga stands
  made,      \* the row each saga has inserted, even if it has gone since
  seeded,    \* how inventory-service answered each saga
  answer     \* the HTTP status each saga has answered with

vars == <<products, variants, stock, asked, pc, made, seeded, answer>>

Variant == [product : Products, sku : SKUs]
Locations == {"ready", "lookup", "insert", "reload", "seed", "compensate", "done"}
Statuses == {"none", "201", "400", "404", "409", "500", "502", "503"}

TypeOK ==
  /\ products \subseteq Products
  /\ variants \subseteq Variant
  /\ stock \subseteq SKUs
  /\ asked \in [Sagas -> Variant \cup {NoVariant}]
  /\ pc \in [Sagas -> Locations]
  /\ made \in [Sagas -> Variant \cup {NoVariant}]
  /\ seeded \in [Sagas -> {"none", "ok", "notFound", "unavailable"}]
  /\ answer \in [Sagas -> Statuses]

\* The seeders have registered some SKUs, and every variant they made is one of
\* a registered SKU.
Init ==
  /\ products = Products
  /\ stock \in SUBSET SKUs
  /\ variants \in {V \in SUBSET [product : Products, sku : stock] :
                     \A v, w \in V : v.sku = w.sku => v = w}
  /\ asked = [s \in Sagas |-> NoVariant]
  /\ pc = [s \in Sagas |-> "ready"]
  /\ made = [s \in Sagas |-> NoVariant]
  /\ seeded = [s \in Sagas |-> "none"]
  /\ answer = [s \in Sagas |-> "none"]

-----------------------------------------------------------------------------
Goto(s, l) == pc' = [pc EXCEPT ![s] = l] /\ UNCHANGED answer

Answer(s, code) ==
  /\ pc' = [pc EXCEPT ![s] = "done"]
  /\ answer' = [answer EXCEPT ![s] = code]

Start(s) ==
  /\ pc[s] = "ready"
  /\ \E v \in Variant : asked' = [asked EXCEPT ![s] = v]
  /\ Goto(s, "lookup")
  /\ UNCHANGED <<products, variants, stock, made, seeded>>

\* The catalog's addVariant: GetProductByID, then Validate.
Lookup(s) ==
  /\ pc[s] = "lookup"
  /\ \/ asked[s].product \notin products /\ Answer(s, "404")
     \/ asked[s].product \in products /\ ~Accepts /\ Answer(s, "400")
     \/ asked[s].product \in products /\ Accepts /\ Goto(s, "insert")
  /\ UNCHANGED <<products, variants, stock, asked, made, seeded>>

\* The repository's INSERT: the product may be gone by now (the foreign key,
\* which mapCatalogPgError does not name), and the SKU may be another's.
Insert(s) ==
  /\ pc[s] = "insert"
  /\ \/ /\ asked[s].product \notin products
        /\ Answer(s, "500") /\ UNCHANGED <<variants, made>>
     \/ /\ asked[s].product \in products
        /\ \E v \in variants : v.sku = asked[s].sku
        /\ Answer(s, "409") /\ UNCHANGED <<variants, made>>
     \/ /\ asked[s].product \in products
        /\ \A v \in variants : v.sku # asked[s].sku
        /\ variants' = variants \cup {asked[s]}
        /\ made' = [made EXCEPT ![s] = asked[s]]
        /\ Goto(s, "reload")
  /\ UNCHANGED <<products, stock, asked, seeded>>

\* ... and its SELECT of the row inserted, which a deleted product has taken
\* with it.  (Variant for the checks: the row that is gone is answered with the
\* status of a product that never was.)
ReloadAsNotFound(s) ==
  /\ pc[s] = "reload"
  /\ \/ asked[s] \notin variants /\ Answer(s, "404")
     \/ asked[s] \in variants /\ Goto(s, "seed")
  /\ UNCHANGED <<products, variants, stock, asked, made, seeded>>

Reload(s) ==
  /\ pc[s] = "reload"
  /\ \/ asked[s] \notin variants /\ Answer(s, "500")
     \/ asked[s] \in variants /\ Goto(s, "seed")
  /\ UNCHANGED <<products, variants, stock, asked, made, seeded>>

\* One of the catalog's three statements fails, or its answer is lost: each runs in
\* a transaction of its own, and the INSERT may have committed.  The catalog
\* answers 500, which the gateway passes on.
FailStatement(s) ==
  /\ Faults
  /\ pc[s] \in {"lookup", "insert", "reload"}
  /\ Answer(s, "500")
  /\ UNCHANGED <<products, variants, stock, asked, made, seeded>>

\* The call to the catalog breaks at any moment, its answer is lost, or its
\* context is done: the gateway does not know how far it came.  (A row that is
\* inserted after an answer counts as inserted just before.)
LoseCatalog(s) ==
  /\ Faults
  /\ pc[s] \in {"lookup", "insert", "reload"}
  /\ Answer(s, "502")
  /\ UNCHANGED <<products, variants, stock, asked, made, seeded>>

\* SeedSKU: AdjustStock with delta 0, which finds no row of a new SKU.
\* (Variant for the checks: the error of SeedSKU is ignored.)
SeedUnchecked(s) ==
  /\ pc[s] = "seed"
  /\ seeded' = [seeded EXCEPT ![s] = "ok"]
  /\ Answer(s, "201")
  /\ UNCHANGED <<products, variants, stock, asked, made>>

SeedSKU(s) ==
  /\ pc[s] = "seed"
  /\ \E o \in {"ok", "notFound", "unavailable"} :
       /\ o = "ok" => asked[s].sku \in stock
       /\ o = "notFound" => asked[s].sku \notin stock
       /\ o = "unavailable" => Faults
       /\ seeded' = [seeded EXCEPT ![s] = o]
       /\ IF o = "ok" THEN Answer(s, "201") ELSE Goto(s, "compensate")
  /\ UNCHANGED <<products, variants, stock, asked, made>>

\* DeleteVariant: DELETE /products/{id}/variants/{sku}, for which the catalog's
\* RegisterRoutes has no route.  Its error is logged.  (Variant for the checks:
\* the handler returns after it without a status, which net/http sends as 200.)
CompensateSilently(s) ==
  /\ pc[s] = "compensate"
  /\ Answer(s, "200")
  /\ UNCHANGED <<products, variants, stock, asked, made, seeded>>

Compensate(s) ==
  /\ pc[s] = "compensate"
  /\ Answer(s, "503")
  /\ UNCHANGED <<products, variants, stock, asked, made, seeded>>

\* Another admin deletes a product: its variants go with it, their stock stays.
DeleteProduct(p) ==
  /\ p \in products
  /\ products' = products \ {p}
  /\ variants' = {v \in variants : v.product # p}
  /\ UNCHANGED <<stock, asked, pc, made, seeded, answer>>

\* A starting instance of inventory-service seeds a SKU of its list.
Register(k) ==
  /\ k \notin stock
  /\ stock' = stock \cup {k}
  /\ UNCHANGED <<products, variants, asked, pc, made, seeded, answer>>

Next ==
  \/ \E s \in Sagas :
       \/ Start(s) \/ Lookup(s) \/ Insert(s) \/ Reload(s)
       \/ FailStatement(s) \/ LoseCatalog(s) \/ SeedSKU(s) \/ Compensate(s)
  \/ \E p \in Products : DeleteProduct(p)
  \/ \E k \in SKUs : Register(k)

Spec == Init /\ [][Next]_vars

-----------------------------------------------------------------------------
\* A variant whose SKU inventory-service does not know was made by a saga that is
\* still at work, or whose caller was told of an error of the servers: 500 from the
\* catalog, 502 or 503 from the gateway.  Nobody was told that all is well, or that
\* the request was wrong and can be forgotten.
StrandedIsReported ==
  \A v \in variants : v.sku \in stock \/
    \E s \in Sagas : made[s] = v /\ (pc[s] # "done" \/ answer[s] \in {"500", "502", "503"})

\* A request refused for what it asks (400, 404, 409) has inserted nothing,
\* however product deletions and other requests came in between.
RefusalsChangeNothing ==
  \A s \in Sagas : answer[s] \in {"400", "404", "409"} => made[s] = NoVariant

\* "1. Create the variant in catalog-service. 2. Seed the SKU in
\* inventory-service (delta=0). If step 2 fails, compensate by deleting the
\* variant from catalog." (admin_products_handler.go:108-110): a saga that has
\* answered has left its variant in both services or in neither.
AllOrNothing ==
  \A s \in Sagas : pc[s] = "done" /\ made[s] \in variants => made[s].sku \in stock

\* A well-formed request is not refused as invalid (TestAddVariant_HappyPath,
\* catalog_handler_test.go:635, whose stub skips the validation).
WellFormedAccepted == \A s \in Sagas : answer[s] # "400"
=============================================================================
