----------------------------- MODULE Storefront -----------------------------
(***************************************************************************)
(* The product pages of shop and admin client, put together while the      *)
(* catalogue changes under them: the gateway asks catalog-service for      *)
(* products (listProducts, getProductBySlug), catalog-service answers from *)
(* three queries outside a transaction, and the gateway then asks          *)
(* inventory-service for the stock of one variant after the other.         *)
(* catalog-service's own getVariantBySKU, two queries, is served too.      *)
(*                                                                         *)
(* VariantSaga is the other half: the sagas that add variants, products    *)
(* deleted, SKUs registered.                                               *)
(***************************************************************************)
EXTENDS VariantSaga, Sequences, SequencesExt, FiniteSets

CONSTANTS
  Readers,   \* requests for a page, each served once
  Limit,     \* products on the page that GET /products asks for (500)
  NoRequest  \* nothing asked yet

ASSUME StorefrontAssumption ==
  /\ Limit \in Nat \ {0}
  /\ IsFiniteSet(Products)
  /\ Products \cap Variant = {}  \* steady tells them apart

VARIABLES
  shelf,     \* the products in the order of updated_at and id
  request,   \* what each reader asks for
  rpc,       \* where each reader stands
  rows,      \* the products the first query has found
  found,     \* the variants the second query has found
  shown,     \* the variants with their stock: [variant, stock]
  status,    \* the HTTP status each reader has been answered with
  steady,    \* history: products and variants there ever since the request
  promised   \* history: variants whose sagas had answered 201 before it

reading == <<request, rpc, rows, found, shown, status, steady, promised>>
sagas == <<products, variants, stock, asked, pc, made, seeded, answer>>
allVars == <<sagas, shelf, reading>>

Request == [kind : {"list"}] \cup [kind : {"slug"}, product : Products]
                             \cup [kind : {"sku"}, sku : SKUs]
ReaderLocations == {"idle", "products", "variants", "images", "variant", "owner",
                    "stock", "done"}
\* The stock is inventory's answer, or OUT_OF_STOCK in its place because the
\* SKU has no row (missing) or because the call has failed.
Hydration == {"answered", "missing", "failed"}

StorefrontTypeOK ==
  /\ TypeOK
  /\ Range(shelf) = products /\ Len(shelf) = Cardinality(products)
  /\ request \in [Readers -> Request \cup {NoRequest}]
  /\ rpc \in [Readers -> ReaderLocations]
  /\ rows \in [Readers -> SUBSET Products]
  /\ found \in [Readers -> SUBSET Variant]
  /\ shown \in [Readers -> SUBSET [variant : Variant, stock : Hydration]]
  /\ status \in [Readers -> {"none", "200", "404", "500", "502"}]
  /\ steady \in [Readers -> SUBSET (Products \cup Variant)]
  /\ promised \in [Readers -> SUBSET Variant]

StorefrontInit ==
  /\ Init
  /\ shelf \in SetToSeqs(Products)
  /\ request = [c \in Readers |-> NoRequest]
  /\ rpc = [c \in Readers |-> "idle"]
  /\ rows = [c \in Readers |-> {}]
  /\ found = [c \in Readers |-> {}]
  /\ shown = [c \in Readers |-> {}]
  /\ status = [c \in Readers |-> "none"]
  /\ steady = [c \in Readers |-> {}]
  /\ promised = [c \in Readers |-> {}]

-----------------------------------------------------------------------------
(***************************************************************************)
(* The catalogue changes: the actions of VariantSaga, and edits.           *)
(***************************************************************************)
\* What is there now goes on being steady.
StillThere == steady' = [c \in Readers |-> steady[c] \cap (products' \cup variants')]

Others == <<request, rpc, rows, found, shown, status, promised>>

Sell(s) ==
  /\ \/ Start(s) \/ Lookup(s) \/ Insert(s) \/ Reload(s)
     \/ FailStatement(s) \/ LoseCatalog(s) \/ SeedSKU(s) \/ Compensate(s)
  /\ UNCHANGED <<shelf, reading>>

Withdraw(p) ==
  /\ DeleteProduct(p)
  /\ shelf' = RemoveFirst(shelf, p)
  /\ StillThere
  /\ UNCHANGED Others

\* A product is edited: updated_at becomes the time at which the transaction of
\* the edit began, which may be earlier than that of one committed before.
Edit(p) ==
  /\ p \in products
  /\ \E i \in 1..Len(shelf) : shelf' = InsertAt(RemoveFirst(shelf, p), i, p)
  /\ UNCHANGED <<sagas, reading>>

Stocked(k) == Register(k) /\ UNCHANGED <<shelf, reading>>

-----------------------------------------------------------------------------
(***************************************************************************)
(* catalog-service answers                                                 *)
(***************************************************************************)
ReaderAt(c, l) == rpc' = [rpc EXCEPT ![c] = l] /\ UNCHANGED status

Reply(c, code) ==
  /\ rpc' = [rpc EXCEPT ![c] = "done"]
  /\ status' = [status EXCEPT ![c] = code]

Ask(c) ==
  /\ rpc[c] = "idle"
  /\ \E r \in Request :
       /\ request' = [request EXCEPT ![c] = r]
       /\ ReaderAt(c, IF r.kind = "sku" THEN "variant" ELSE "products")
  /\ steady' = [steady EXCEPT ![c] = products \cup variants]
  /\ promised' = [promised EXCEPT ![c] = {made[s] : s \in {t \in Sagas : answer[t] = "201"}}]
  /\ UNCHANGED <<sagas, shelf, rows, found, shown>>

\* ListProductProjectionPage asks for one row more than the page holds, to know
\* of a next page, and drops it; listProducts drops that knowledge too.  With no
\* product on the page the other queries are not made.
FirstRows == Range(SubSeq(shelf, 1, IF Len(shelf) < Limit THEN Len(shelf) ELSE Limit))

ReadProducts(c) ==
  /\ rpc[c] = "products"
  /\ \/ /\ request[c].kind = "list"
        /\ rows' = [rows EXCEPT ![c] = FirstRows]
        /\ IF FirstRows = {} THEN Reply(c, "200") ELSE ReaderAt(c, "variants")
     \/ /\ request[c].kind = "slug"
        /\ rows' = [rows EXCEPT ![c] = products \cap {request[c].product}]
        /\ IF request[c].product \in products THEN ReaderAt(c, "variants")
                                              ELSE Reply(c, "404")
  /\ UNCHANGED <<sagas, shelf, request, found, shown, steady, promised>>

\* loadVariantsForProducts, ListVariantsByProductID.
VariantsOf(P) == {v \in variants : v.product \in P}

\* (Variant for the checks: one variant is taken for each product.)
ReadOneVariant(c) ==
  /\ rpc[c] = "variants"
  /\ \E V \in SUBSET VariantsOf(rows[c]) :
       /\ \A v, w \in V : v.product = w.product => v = w
       /\ found' = [found EXCEPT ![c] = V]
  /\ ReaderAt(c, "images")
  /\ UNCHANGED <<sagas, shelf, request, rows, shown, steady, promised>>

ReadVariants(c) ==
  /\ rpc[c] = "variants"
  /\ found' = [found EXCEPT ![c] = VariantsOf(rows[c])]
  /\ ReaderAt(c, "images")
  /\ UNCHANGED <<sagas, shelf, request, rows, shown, steady, promised>>

\* loadImagesForProducts, ListImagesByProductID: the images are left out, what
\* the query costs in time is not.
ReadImages(c) ==
  /\ rpc[c] = "images"
  /\ ReaderAt(c, "stock")
  /\ UNCHANGED <<sagas, shelf, request, rows, found, shown, steady, promised>>

\* getVariantBySKU: the variant, and then the product it belongs to.
ReadVariant(c) ==
  /\ rpc[c] = "variant"
  /\ found' = [found EXCEPT ![c] = {v \in variants : v.sku = request[c].sku}]
  /\ IF \E v \in variants : v.sku = request[c].sku THEN ReaderAt(c, "owner")
                                                   ELSE Reply(c, "404")
  /\ UNCHANGED <<sagas, shelf, request, rows, shown, steady, promised>>

\* (Variant for the checks: a product that is gone is answered as a variant
\* that never was.)
ReadOwnerAsNotFound(c) ==
  /\ rpc[c] = "owner"
  /\ rows' = [rows EXCEPT ![c] = {v.product : v \in found[c]} \cap products]
  /\ Reply(c, IF rows'[c] = {} THEN "404" ELSE "200")
  /\ UNCHANGED <<sagas, shelf, request, found, shown, steady, promised>>

ReadOwner(c) ==
  /\ rpc[c] = "owner"
  /\ rows' = [rows EXCEPT ![c] = {v.product : v \in found[c]} \cap products]
  /\ Reply(c, IF rows'[c] = {} THEN "500" ELSE "200")
  /\ UNCHANGED <<sagas, shelf, request, found, shown, steady, promised>>

-----------------------------------------------------------------------------
(***************************************************************************)
(* The gateway asks for the stock, variant by variant                      *)
(***************************************************************************)
Unhydrated(c) == found[c] \ {e.variant : e \in shown[c]}

FetchStock(c) ==
  /\ rpc[c] = "stock"
  /\ \E v \in Unhydrated(c), h \in Hydration :
       /\ h = "answered" => v.sku \in stock
       /\ h = "missing" => v.sku \notin stock
       /\ h = "failed" => Faults
       /\ shown' = [shown EXCEPT ![c] = @ \cup {[variant |-> v, stock |-> h]}]
  /\ UNCHANGED <<sagas, shelf, request, rpc, rows, found, status, steady, promised>>

ShowPage(c) ==
  /\ rpc[c] = "stock"
  /\ Unhydrated(c) = {}
  /\ Reply(c, "200")
  /\ UNCHANGED <<sagas, shelf, request, rows, found, shown, steady, promised>>

\* A query of catalog-service fails (500), which the gateway answers with 502,
\* or its own call does.
LosePage(c) ==
  /\ Faults
  /\ rpc[c] \in {"products", "variants", "images", "variant", "owner"}
  /\ Reply(c, IF request[c].kind = "sku" THEN "500" ELSE "502")
  /\ UNCHANGED <<sagas, shelf, request, rows, found, shown, steady, promised>>

StorefrontNext ==
  \/ \E s \in Sagas : Sell(s)
  \/ \E p \in Products : Withdraw(p) \/ Edit(p)
  \/ \E k \in SKUs : Stocked(k)
  \/ \E c \in Readers :
       \/ Ask(c) \/ ReadProducts(c) \/ ReadVariants(c) \/ ReadImages(c)
       \/ ReadVariant(c) \/ ReadOwner(c) \/ FetchStock(c) \/ ShowPage(c) \/ LosePage(c)

StorefrontSpec == StorefrontInit /\ [][StorefrontNext]_allVars

-----------------------------------------------------------------------------
Answered(c, code) == status[c] = code

\* "GetVariantBySKU ... Returns ErrNotFound", "listProducts aggregates all
\* catalog products" (products.go:76): what has been in the catalogue all the
\* time a request was served is in its answer, whatever was added, edited and
\* deleted between the three queries, except for products beyond the end of the
\* one page that is asked for.
SteadyShown ==
  \A c \in Readers : LET wanted == request[c] IN
    /\ Answered(c, "200") /\ wanted.kind = "list" =>
         /\ products \cap steady[c] \subseteq rows[c] \/ Cardinality(rows[c]) = Limit
         /\ VariantsOf(rows[c]) \cap steady[c] \subseteq found[c]
    /\ Answered(c, "200") /\ wanted.kind = "slug" =>
         VariantsOf({wanted.product}) \cap steady[c] \subseteq found[c]
    /\ Answered(c, "404") /\ wanted.kind = "slug" => wanted.product \notin steady[c]
    /\ Answered(c, "404") /\ wanted.kind = "sku" =>
         \A v \in variants \cap steady[c] : v.sku # wanted.sku

\* A variant that was found is never answered as not found because its product
\* went away before the second query: 404 says that no variant has the SKU.
NotFoundIsTrue ==
  \A c \in Readers : Answered(c, "404") => found[c] = {}

\* Two services keep one promise: a variant whose saga had answered 201 before
\* the page was asked for has its stock on the page, never the 0 of a SKU that
\* inventory-service does not know.
PromiseKept ==
  \A c \in Readers : \A e \in shown[c] : e.variant \in promised[c] => e.stock # "missing"
=============================================================================
