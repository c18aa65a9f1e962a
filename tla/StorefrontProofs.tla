-------------------------- MODULE StorefrontProofs --------------------------
(***************************************************************************)
(* Proofs about VariantSaga and about Storefront, which contains it: for   *)
(* any number of sagas, readers, products and SKUs, any outcome of the     *)
(* validation and any failures of the calls.                               *)
(***************************************************************************)
EXTENDS Storefront, FiniteSetTheorems, SequenceTheorems, TLAPS

\* Until its INSERT a saga has made nothing; from then until it answers it works
\* on the row that it was asked for and has made.
MadeAsAsked ==
  \A s \in Sagas :
    /\ pc[s] \in {"ready", "lookup", "insert"} => made[s] = NoVariant
    /\ pc[s] \in {"lookup", "insert"} => asked[s] \in Variant
    /\ pc[s] \in {"reload", "seed", "compensate"} =>
         asked[s] \in Variant /\ made[s] = asked[s]

\* An answer is given once, at the end.
AnsweredAtEnd == \A s \in Sagas : pc[s] # "done" => answer[s] = "none"

Inv ==
  /\ TypeOK
  /\ MadeAsAsked
  /\ AnsweredAtEnd
  /\ RefusalsChangeNothing
  /\ StrandedIsReported

LEMMA InvInit == Init => Inv
<1> SUFFICES ASSUME Init PROVE Inv
  OBVIOUS
<1> USE SagaAssumption DEF Init
<1>1. TypeOK
  BY DEF TypeOK, Variant, Locations, Statuses
<1>2. MadeAsAsked /\ AnsweredAtEnd /\ RefusalsChangeNothing
  BY DEF MadeAsAsked, AnsweredAtEnd, RefusalsChangeNothing
<1>3. StrandedIsReported
  BY DEF StrandedIsReported
<1> QED BY <1>1, <1>2, <1>3 DEF Inv

\* The steps of one saga change nothing of another's; each is typed and keeps
\* what a saga has made in step with where it stands.
LEMMA SagaKeepsType ==
  ASSUME Inv, NEW s \in Sagas,
         Start(s) \/ Lookup(s) \/ Insert(s) \/ Reload(s) \/ FailStatement(s)
           \/ LoseCatalog(s) \/ SeedSKU(s) \/ Compensate(s)
  PROVE  TypeOK' /\ MadeAsAsked' /\ AnsweredAtEnd' /\ RefusalsChangeNothing'
<1> USE SagaAssumption DEF Inv, TypeOK, MadeAsAsked, AnsweredAtEnd, RefusalsChangeNothing,
        Locations, Statuses, Goto, Answer
<1>1. CASE Start(s)
  BY <1>1 DEF Start
<1>2. CASE Lookup(s)
  BY <1>2 DEF Lookup
<1>3. CASE Insert(s)
  BY <1>3 DEF Insert
<1>4. CASE Reload(s)
  BY <1>4 DEF Reload
<1>5. CASE FailStatement(s) \/ LoseCatalog(s)
  BY <1>5 DEF FailStatement, LoseCatalog
<1>6. CASE SeedSKU(s)
  BY <1>6 DEF SeedSKU
<1>7. CASE Compensate(s)
  BY <1>7 DEF Compensate
<1> QED BY <1>1, <1>2, <1>3, <1>4, <1>5, <1>6, <1>7

\* A variant that was not stranded, or whose stranding was owed to some saga,
\* stays so: the one saga that moves either keeps at work on what it has made,
\* or answers that it failed, or has found the SKU registered.
LEMMA SagaKeepsReport ==
  ASSUME Inv, NEW s \in Sagas,
         Start(s) \/ Lookup(s) \/ Insert(s) \/ Reload(s) \/ FailStatement(s)
           \/ LoseCatalog(s) \/ SeedSKU(s) \/ Compensate(s)
  PROVE  StrandedIsReported'
<1>0. NoVariant \notin Variant
  BY SagaAssumption DEF Variant
<1> USE <1>0 DEF Inv, TypeOK, MadeAsAsked, AnsweredAtEnd, StrandedIsReported, Goto, Answer
<1>1. CASE Start(s)
  BY <1>1 DEF Start
<1>2. CASE Lookup(s)
  BY <1>2 DEF Lookup
<1>3. CASE Insert(s)
  BY <1>3 DEF Insert
<1>4. CASE Reload(s)
  BY <1>4 DEF Reload
<1>5. CASE FailStatement(s) \/ LoseCatalog(s)
  BY <1>5 DEF FailStatement, LoseCatalog
<1>6. CASE SeedSKU(s)
  BY <1>6 DEF SeedSKU
<1>7. CASE Compensate(s)
  BY <1>7 DEF Compensate
<1> QED BY <1>1, <1>2, <1>3, <1>4, <1>5, <1>6, <1>7

LEMMA InvNext == Inv /\ [Next]_vars => Inv'
<1> SUFFICES ASSUME Inv, [Next]_vars PROVE Inv'
  OBVIOUS
<1>1. ASSUME NEW s \in Sagas,
             Start(s) \/ Lookup(s) \/ Insert(s) \/ Reload(s) \/ FailStatement(s)
               \/ LoseCatalog(s) \/ SeedSKU(s) \/ Compensate(s)
      PROVE  Inv'
  BY <1>1, SagaKeepsType, SagaKeepsReport DEF Inv
<1>2. ASSUME NEW p \in Products, DeleteProduct(p)
      PROVE  Inv'
  BY <1>2 DEF DeleteProduct, Inv, TypeOK, MadeAsAsked, AnsweredAtEnd,
              RefusalsChangeNothing, StrandedIsReported
<1>3. ASSUME NEW k \in SKUs, Register(k)
      PROVE  Inv'
  BY <1>3 DEF Register, Inv, TypeOK, MadeAsAsked, AnsweredAtEnd,
              RefusalsChangeNothing, StrandedIsReported
<1>4. CASE UNCHANGED vars
  BY <1>4 DEF vars, Inv, TypeOK, MadeAsAsked, AnsweredAtEnd,
              RefusalsChangeNothing, StrandedIsReported
<1> QED BY <1>1, <1>2, <1>3, <1>4 DEF Next

\* The inductive invariant of the sagas: what each has made and answered at each
\* step, and who answers for every variant that inventory-service does not know.
THEOREM InvCorrect == Spec => []Inv
BY InvInit, InvNext, PTL DEF Spec

\* Every variant without a stock row is owed to a saga at work or to one whose
\* caller was told of an error of the servers, however many sagas, deletions,
\* failed statements and lost answers there are.
THEOREM StrandedIsReportedCorrect == Spec => []StrandedIsReported
<1>1. Inv => StrandedIsReported
  BY DEF Inv
<1> QED BY <1>1, InvCorrect, PTL

\* No request that was refused for what it asks has inserted anything.
THEOREM RefusalsChangeNothingCorrect == Spec => []RefusalsChangeNothing
<1>1. Inv => RefusalsChangeNothing
  BY DEF Inv
<1> QED BY <1>1, InvCorrect, PTL
-----------------------------------------------------------------------------
(***************************************************************************)
(* Storefront                                                              *)
(***************************************************************************)
\* Every step of the shop is a step of the sagas and the catalogue, or none.
LEMMA StepsAreSagaSteps == [StorefrontNext]_allVars => [Next]_vars
<1> SUFFICES ASSUME [StorefrontNext]_allVars PROVE [Next]_vars
  OBVIOUS
<1>1. ASSUME NEW s \in Sagas, Sell(s) PROVE Next
  BY <1>1 DEF Sell, Next
<1>2. ASSUME NEW p \in Products, Withdraw(p) PROVE Next
  BY <1>2 DEF Withdraw, Next
<1>3. ASSUME NEW p \in Products, Edit(p) PROVE UNCHANGED vars
  BY <1>3 DEF Edit, sagas, vars
<1>4. ASSUME NEW k \in SKUs, Stocked(k) PROVE Next
  BY <1>4 DEF Stocked, Next
<1>5. ASSUME NEW c \in Readers,
             \/ Ask(c) \/ ReadProducts(c) \/ ReadVariants(c) \/ ReadImages(c)
             \/ ReadVariant(c) \/ ReadOwner(c) \/ FetchStock(c) \/ ShowPage(c) \/ LosePage(c)
      PROVE  UNCHANGED vars
  BY <1>5 DEF Ask, ReadProducts, ReadVariants, ReadImages, ReadVariant, ReadOwner,
              FetchStock, ShowPage, LosePage, sagas, vars
<1>6. CASE UNCHANGED allVars
  BY <1>6 DEF allVars, sagas, vars
<1> QED BY <1>1, <1>2, <1>3, <1>4, <1>5, <1>6 DEF StorefrontNext

\* What is served beside them takes no part in the sagas: Storefront implements
\* VariantSaga, and what holds of the sagas alone holds in the shop.
THEOREM ImplementsSagas == StorefrontSpec => Spec
<1>1. StorefrontInit => Init
  BY DEF StorefrontInit
<1> QED BY <1>1, StepsAreSagaSteps, PTL DEF StorefrontSpec, Spec

\* What a saga that has answered 201 has made is registered with inventory.
Registered == \A s \in Sagas : answer[s] = "201" => made[s] \in Variant /\ made[s].sku \in stock

\* A reader is answered once, at the end, has found nothing before its query of
\* the variants, is shown nothing before it asks, and was promised only what is
\* registered.
ReadersInv ==
  /\ request \in [Readers -> Request \cup {NoRequest}]
  /\ rpc \in [Readers -> ReaderLocations]
  /\ status \in [Readers -> {"none", "200", "404", "500", "502"}]
  /\ found \in [Readers -> SUBSET Variant]
  /\ shown \in [Readers -> SUBSET [variant : Variant, stock : Hydration]]
  /\ promised \in [Readers -> SUBSET Variant]
  /\ \A c \in Readers :
       /\ rpc[c] # "done" => status[c] = "none"
       /\ rpc[c] \in {"idle", "products", "variants", "variant"} => found[c] = {}
       /\ rpc[c] = "idle" => shown[c] = {}
       /\ \A v \in promised[c] : v.sku \in stock

StorefrontInv ==
  /\ Inv
  /\ Registered
  /\ ReadersInv
  /\ NotFoundIsTrue
  /\ PromiseKept

LEMMA StorefrontInvInit == StorefrontInit => StorefrontInv
<1> SUFFICES ASSUME StorefrontInit PROVE StorefrontInv
  OBVIOUS
<1> USE DEF StorefrontInit
<1>1. Inv
  BY InvInit
<1>2. Registered
  BY DEF Registered, Init
<1>3. ReadersInv
  BY DEF ReadersInv, ReaderLocations
<1>4. NotFoundIsTrue /\ PromiseKept
  BY DEF NotFoundIsTrue, PromiseKept, Answered
<1> QED BY <1>1, <1>2, <1>3, <1>4 DEF StorefrontInv

\* The sagas, the seeders and the deletions register SKUs and take none back.
LEMMA StockGrows ==
  ASSUME Inv, Registered, [Next]_vars
  PROVE  Registered' /\ stock \subseteq stock'
<1> USE SagaAssumption DEF Inv, TypeOK, MadeAsAsked, AnsweredAtEnd, Registered,
        Goto, Answer
<1>1. ASSUME NEW s \in Sagas,
             Start(s) \/ Lookup(s) \/ Insert(s) \/ Reload(s) \/ FailStatement(s)
               \/ LoseCatalog(s) \/ Compensate(s)
      PROVE  Registered' /\ stock \subseteq stock'
  BY <1>1 DEF Start, Lookup, Insert, Reload, FailStatement, LoseCatalog,
              Compensate
<1>2. ASSUME NEW s \in Sagas, SeedSKU(s)
      PROVE  Registered' /\ stock \subseteq stock'
  BY <1>2 DEF SeedSKU
<1>3. ASSUME NEW p \in Products, DeleteProduct(p)
      PROVE  Registered' /\ stock \subseteq stock'
  BY <1>3 DEF DeleteProduct
<1>4. ASSUME NEW k \in SKUs, Register(k)
      PROVE  Registered' /\ stock \subseteq stock'
  BY <1>4 DEF Register
<1>5. CASE UNCHANGED vars
  BY <1>5 DEF vars
<1> QED BY <1>1, <1>2, <1>3, <1>4, <1>5 DEF Next

\* The readers stand still while the catalogue changes.
LEMMA OthersKeepReaders ==
  ASSUME StorefrontInv, stock \subseteq stock',
         UNCHANGED <<request, rpc, found, shown, status, promised>>
  PROVE  ReadersInv' /\ NotFoundIsTrue' /\ PromiseKept'
BY DEF StorefrontInv, ReadersInv, NotFoundIsTrue, PromiseKept, Answered

\* One query, one answer of inventory or the end of one page.
LEMMA ReaderKeepsReaders ==
  ASSUME StorefrontInv, NEW c \in Readers,
         \/ Ask(c) \/ ReadProducts(c) \/ ReadVariants(c) \/ ReadImages(c)
         \/ ReadVariant(c) \/ ReadOwner(c) \/ FetchStock(c) \/ ShowPage(c) \/ LosePage(c)
  PROVE  ReadersInv' /\ NotFoundIsTrue' /\ PromiseKept'
<1> USE DEF StorefrontInv, ReadersInv, NotFoundIsTrue, PromiseKept, Answered,
        ReaderLocations, ReaderAt, Reply, sagas
<1>1. CASE Ask(c)
  <2>1. \A s \in Sagas : answer[s] = "201" => made[s] \in Variant /\ made[s].sku \in stock
    BY DEF Registered
  <2>2. promised'[c] \subseteq Variant /\ \A v \in promised'[c] : v.sku \in stock
    BY <1>1, <2>1 DEF Ask
  <2>3. PICK r \in Request :
          /\ request' = [request EXCEPT ![c] = r]
          /\ ReaderAt(c, IF r.kind = "sku" THEN "variant" ELSE "products")
    BY <1>1 DEF Ask
  <2>4. request' \in [Readers -> Request \cup {NoRequest}]
    BY <2>3
  <2>5. rpc[c] = "idle" /\ UNCHANGED <<found, shown, status, stock>>
    BY <1>1, <2>3 DEF Ask
  <2>6. /\ rpc' = [rpc EXCEPT ![c] = rpc'[c]]
        /\ rpc'[c] \in {"variant", "products"}
    BY <2>3
  <2>7. promised' = [promised EXCEPT ![c] = promised'[c]]
    BY <1>1 DEF Ask
  <2>8. promised' \in [Readers -> SUBSET Variant]
    BY <2>2, <2>7
  <2>9. shown[c] = {} /\ found[c] = {} /\ status[c] = "none"
    BY <2>5
  <2>10. ReadersInv'
    BY <2>2, <2>4, <2>5, <2>6, <2>7, <2>8
  <2>11. NotFoundIsTrue'
    BY <2>5
  <2>12. PromiseKept'
    BY <2>5, <2>7, <2>9
  <2> QED BY <2>10, <2>11, <2>12
<1>2. CASE ReadProducts(c)
  BY <1>2 DEF ReadProducts
<1>3. CASE ReadVariants(c)
  <2>1. VariantsOf(rows[c]) \subseteq Variant
    BY DEF VariantsOf, Inv, TypeOK
  <2> QED BY <1>3, <2>1 DEF ReadVariants
<1>4. CASE ReadImages(c)
  BY <1>4 DEF ReadImages
<1>5. CASE ReadVariant(c)
  <2>1. {v \in variants : v.sku = request[c].sku} \subseteq Variant
    BY DEF Inv, TypeOK
  <2> QED BY <1>5, <2>1 DEF ReadVariant
<1>6. CASE ReadOwner(c)
  BY <1>6 DEF ReadOwner
<1>7. CASE FetchStock(c)
  <2>1. PICK v \in Unhydrated(c), h \in Hydration :
          /\ h = "missing" => v.sku \notin stock
          /\ shown' = [shown EXCEPT ![c] = @ \cup {[variant |-> v, stock |-> h]}]
    BY <1>7 DEF FetchStock
  <2>2. v \in Variant
    BY DEF Unhydrated
  <2>3. [variant |-> v, stock |-> h] \in [variant : Variant, stock : Hydration]
    BY <2>2
  <2>4. shown' \in [Readers -> SUBSET [variant : Variant, stock : Hydration]]
    BY <2>1, <2>3
  <2>5. PromiseKept'
    BY <1>7, <2>1 DEF FetchStock
  <2> QED BY <1>7, <2>4, <2>5 DEF FetchStock
<1>8. CASE ShowPage(c)
  BY <1>8 DEF ShowPage
<1>9. CASE LosePage(c)
  BY <1>9 DEF LosePage
<1> QED BY <1>1, <1>2, <1>3, <1>4, <1>5, <1>6, <1>7, <1>8, <1>9

LEMMA StorefrontInvNext ==
  StorefrontInv /\ [StorefrontNext]_allVars => StorefrontInv'
<1> SUFFICES ASSUME StorefrontInv, [StorefrontNext]_allVars PROVE StorefrontInv'
  OBVIOUS
<1>1. Inv' /\ Registered' /\ stock \subseteq stock'
  BY StepsAreSagaSteps, InvNext, StockGrows DEF StorefrontInv
<1>2. ASSUME NEW c \in Readers,
             \/ Ask(c) \/ ReadProducts(c) \/ ReadVariants(c) \/ ReadImages(c)
             \/ ReadVariant(c) \/ ReadOwner(c) \/ FetchStock(c) \/ ShowPage(c) \/ LosePage(c)
      PROVE  ReadersInv' /\ NotFoundIsTrue' /\ PromiseKept'
  BY <1>2, ReaderKeepsReaders
<1>3. ASSUME \/ \E s \in Sagas : Sell(s)
             \/ \E p \in Products : Withdraw(p) \/ Edit(p)
             \/ \E k \in SKUs : Stocked(k)
             \/ UNCHANGED allVars
      PROVE  ReadersInv' /\ NotFoundIsTrue' /\ PromiseKept'
  <2>1. UNCHANGED <<request, rpc, found, shown, status, promised>>
    BY <1>3 DEF Sell, Withdraw, Edit, Stocked, Others, reading, allVars
  <2> QED BY <1>1, <2>1, OthersKeepReaders
<1>4. ReadersInv' /\ NotFoundIsTrue' /\ PromiseKept'
  BY <1>2, <1>3 DEF StorefrontNext
<1> QED BY <1>1, <1>4 DEF StorefrontInv

\* The inductive invariant of the shop: what the readers know and were promised,
\* over the invariant of the sagas.
THEOREM StorefrontInvCorrect == StorefrontSpec => []StorefrontInv
BY StorefrontInvInit, StorefrontInvNext, PTL DEF StorefrontSpec

\* A reader is answered 404 only if no variant was found, whatever is deleted
\* between its queries.
THEOREM NotFoundIsTrueCorrect == StorefrontSpec => []NotFoundIsTrue
<1>1. StorefrontInv => NotFoundIsTrue
  BY DEF StorefrontInv
<1> QED BY <1>1, StorefrontInvCorrect, PTL

\* A variant whose saga had answered 201 is never shown as a SKU that
\* inventory-service does not know.
THEOREM PromiseKeptCorrect == StorefrontSpec => []PromiseKept
<1>1. StorefrontInv => PromiseKept
  BY DEF StorefrontInv
<1> QED BY <1>1, StorefrontInvCorrect, PTL
-----------------------------------------------------------------------------
(***************************************************************************)
(* The shelf, a sequence without repetitions                               *)
(***************************************************************************)
\* What a part of a sequence holds.
LEMMA SubSeqElements ==
  ASSUME NEW S, NEW s \in Seq(S), NEW m \in 1..(Len(s) + 1), NEW n \in 0..Len(s), m <= n + 1
  PROVE  /\ SubSeq(s, m, n) \in Seq(S) /\ Len(SubSeq(s, m, n)) = n - m + 1
         /\ \A i \in 1..(n - m + 1) : SubSeq(s, m, n)[i] = s[m + i - 1]
<1>1. Len(s) \in Nat /\ \A i \in 1..Len(s) : s[i] \in S
  BY LenProperties, ElementOfSeq
<1>2. m \in Int /\ n \in Int /\ \A i \in m..n : s[i] \in S
  BY <1>1
<1>3. /\ SubSeq(s, m, n) \in Seq(S) /\ Len(SubSeq(s, m, n)) = IF m <= n THEN n - m + 1 ELSE 0
      /\ \A i \in 1..(n - m + 1) : SubSeq(s, m, n)[i] = s[m + i - 1]
  BY <1>2, SubSeqProperties
<1> QED BY <1>1, <1>3

\* Taking an element out of a sequence without repetitions takes it out of what
\* the sequence holds.
LEMMA RemoveFirstProperties ==
  ASSUME NEW S, NEW s \in Seq(S), IsInjective(s), NEW p \in Range(s)
  PROVE  LET t == RemoveFirst(s, p) IN
           /\ t \in Seq(S) /\ Len(t) = Len(s) - 1
           /\ IsInjective(t) /\ Range(t) = Range(s) \ {p}
<1>1. /\ Len(s) \in Nat /\ DOMAIN s = 1..Len(s)
      /\ \A i \in 1..Len(s) : s[i] \in S
      /\ \A i, j \in 1..Len(s) : s[i] = s[j] => i = j
  BY LenProperties, ElementOfSeq DEF IsInjective
<1>2. PICK k \in 1..Len(s) : s[k] = p
  BY <1>1 DEF Range
<1>3. RemoveFirst(s, p) = RemoveAt(s, k)
  <2>1. {i \in 1..Len(s) : s[i] = p} = {k}
    BY <1>1, <1>2
  <2>2. Min({k}) = k
    BY <1>1 DEF Min
  <2>3. SelectInSeq(s, LAMBDA v : v = p) = k
    BY <2>1, <2>2 DEF SelectInSeq
  <2> QED BY <1>2, <2>3 DEF RemoveFirst
<1> DEFINE t == RemoveAt(s, k)
           a == SubSeq(s, 1, k - 1)
           b == SubSeq(s, k + 1, Len(s))
<1>4. /\ a \in Seq(S) /\ Len(a) = k - 1
      /\ \A i \in 1..(k - 1) : a[i] = s[i]
  <2>1. \A i \in 1..(k - 1) : s[i] \in S
    BY <1>1
  <2> QED BY <1>1, <2>1, SubSeqProperties
<1>5. /\ b \in Seq(S) /\ Len(b) = Len(s) - k
      /\ \A i \in 1..(Len(s) - k) : b[i] = s[k + i]
  <2>1. PICK m \in 1..(Len(s) + 1) : m = k + 1
    BY <1>1
  <2>2. /\ SubSeq(s, m, Len(s)) \in Seq(S) /\ Len(SubSeq(s, m, Len(s))) = Len(s) - m + 1
        /\ \A i \in 1..(Len(s) - m + 1) : SubSeq(s, m, Len(s))[i] = s[m + i - 1]
    <3>1. Len(s) \in 0..Len(s) /\ m <= Len(s) + 1
      BY <1>1, <2>1
    <3> QED BY <3>1, SubSeqElements, Zenon
  <2>3. b = SubSeq(s, m, Len(s))
    BY <2>1
  <2> HIDE DEF b
  <2>4. ASSUME NEW j \in 1..(Len(s) - k) PROVE b[j] = s[k + j]
    <3>1. m + j - 1 = k + j /\ j \in 1..(Len(s) - m + 1)
      BY <1>1, <2>1
    <3> QED BY <2>2, <2>3, <3>1
  <2>5. b \in Seq(S) /\ Len(b) = Len(s) - m + 1
    BY <2>2, <2>3
  <2>6. Len(s) - m + 1 = Len(s) - k
    BY <1>1, <2>1
  <2> QED BY <2>4, <2>5, <2>6
<1>6. t = a \o b
  BY DEF RemoveAt
<1> HIDE DEF a, b
<1>7. /\ t \in Seq(S) /\ Len(t) = Len(s) - 1 /\ DOMAIN t = 1..(Len(s) - 1)
      /\ \A i \in 1..(Len(s) - 1) : t[i] = IF i < k THEN s[i] ELSE s[i + 1]
  <2>1. /\ t \in Seq(S) /\ Len(t) = Len(a) + Len(b)
        /\ \A i \in 1..(Len(a) + Len(b)) :
             t[i] = IF i <= Len(a) THEN a[i] ELSE b[i - Len(a)]
    <3>1. a \in Seq(S) /\ b \in Seq(S)
      BY <1>4, <1>5
    <3> QED BY <3>1, <1>6, ConcatProperties, Zenon
  <2> HIDE DEF t
  <2>2. Len(a) + Len(b) = Len(s) - 1
    BY <1>1, <1>4, <1>5
  <2>3. ASSUME NEW i \in 1..(Len(s) - 1), i < k PROVE t[i] = s[i]
    <3>1. i \in 1..(k - 1) /\ i <= Len(a) /\ i \in 1..(Len(a) + Len(b))
      BY <1>1, <1>4, <2>2, <2>3
    <3> QED BY <1>4, <2>1, <3>1
  <2>4. ASSUME NEW i \in 1..(Len(s) - 1), ~(i < k) PROVE t[i] = s[i + 1]
    <3>1. i - Len(a) \in 1..(Len(s) - k) /\ k + (i - Len(a)) = i + 1
      BY <1>1, <1>4, <2>4
    <3>2. t[i] = b[i - Len(a)]
      BY <1>1, <1>4, <2>1, <2>2, <2>4
    <3> QED BY <1>5, <3>1, <3>2
  <2>5. DOMAIN t = 1..Len(t)
    BY <2>1, LenProperties
  <2> QED BY <2>1, <2>2, <2>3, <2>4, <2>5
<1> HIDE DEF t
<1>8. IsInjective(t)
  BY <1>1, <1>7 DEF IsInjective
<1>9. Range(t) = Range(s) \ {p}
  <2>1. ASSUME NEW x \in Range(t) PROVE x \in Range(s) \ {p}
    BY <2>1, <1>1, <1>2, <1>7 DEF Range
  <2>2. ASSUME NEW x \in Range(s) \ {p} PROVE x \in Range(t)
    <3>1. PICK i \in 1..Len(s) : s[i] = x
      BY <1>1 DEF Range
    <3>2. CASE i < k
      BY <3>1, <3>2, <1>1, <1>7 DEF Range
    <3>3. CASE i > k
      <4>1. i - 1 \in DOMAIN t /\ t[i - 1] = x
        BY <3>1, <3>3, <1>1, <1>7
      <4> QED BY <4>1 DEF Range
    <3> QED BY <3>1, <3>2, <3>3, <1>1, <1>2
  <2> QED BY <2>1, <2>2
<1> QED BY <1>3, <1>7, <1>8, <1>9 DEF t

\* Putting a new one in adds it, wherever it goes.
LEMMA InsertAtProperties ==
  ASSUME NEW S, NEW s \in Seq(S), IsInjective(s), NEW e \in S, e \notin Range(s),
         NEW i \in 1..(Len(s) + 1)
  PROVE  LET t == InsertAt(s, i, e) IN
           t \in Seq(S) /\ IsInjective(t) /\ Range(t) = Range(s) \cup {e}
<1>1. /\ Len(s) \in Nat /\ DOMAIN s = 1..Len(s)
      /\ \A k \in 1..Len(s) : s[k] \in S /\ s[k] # e
      /\ \A k, j \in 1..Len(s) : s[k] = s[j] => k = j
  BY LenProperties, ElementOfSeq DEF IsInjective, Range
<1> DEFINE t == InsertAt(s, i, e)
           a == SubSeq(s, 1, i - 1)
           b == SubSeq(s, i, Len(s))
<1>2. /\ a \in Seq(S) /\ Len(a) = i - 1
      /\ \A k \in 1..(i - 1) : a[k] = s[k]
  <2>1. \A k \in 1..(i - 1) : s[k] \in S
    BY <1>1
  <2> QED BY <1>1, <2>1, SubSeqProperties
<1>3. /\ b \in Seq(S) /\ Len(b) = Len(s) - i + 1
      /\ \A k \in 1..(Len(s) - i + 1) : b[k] = s[i + k - 1]
  <2>1. \A k \in i..Len(s) : s[k] \in S
    BY <1>1
  <2> QED BY <1>1, <2>1, SubSeqProperties
<1>4. t = (a \o <<e>>) \o b
  BY DEF InsertAt
<1> HIDE DEF a, b
<1>5. <<e>> \in Seq(S) /\ Len(<<e>>) = 1 /\ <<e>>[1] = e
  OBVIOUS
<1>6. /\ a \o <<e>> \in Seq(S) /\ Len(a \o <<e>>) = i
      /\ \A k \in 1..i : (a \o <<e>>)[k] = IF k < i THEN s[k] ELSE e
  BY <1>1, <1>2, <1>5, ConcatProperties
<1>7. /\ t \in Seq(S) /\ DOMAIN t = 1..(Len(s) + 1)
      /\ \A k \in 1..(Len(s) + 1) :
           t[k] = IF k < i THEN s[k] ELSE IF k = i THEN e ELSE s[k - 1]
  <2> DEFINE u == a \o <<e>>
  <2> HIDE DEF t, u
  <2>1. u \in Seq(S) /\ b \in Seq(S) /\ t = u \o b /\ Len(u) = i
    BY <1>3, <1>4, <1>6 DEF u
  <2>2. /\ t \in Seq(S) /\ Len(t) = Len(u) + Len(b)
        /\ \A k \in 1..(Len(u) + Len(b)) :
             t[k] = IF k <= Len(u) THEN u[k] ELSE b[k - Len(u)]
    BY <2>1, ConcatProperties, Zenon
  <2>3. Len(u) + Len(b) = Len(s) + 1
    BY <1>1, <1>3, <2>1
  <2>4. ASSUME NEW k \in 1..(Len(s) + 1), k <= i
        PROVE  t[k] = IF k < i THEN s[k] ELSE e
    <3>1. k \in 1..i /\ k <= Len(u) /\ k \in 1..(Len(u) + Len(b))
      BY <1>1, <2>1, <2>3, <2>4
    <3>2. t[k] = u[k]
      BY <2>2, <3>1
    <3> QED BY <1>6, <3>1, <3>2 DEF u
  <2>5. ASSUME NEW k \in 1..(Len(s) + 1), k > i
        PROVE  t[k] = s[k - 1]
    <3>1. k - i \in 1..(Len(s) - i + 1) /\ i + (k - i) - 1 = k - 1
      BY <1>1, <2>5
    <3>2. t[k] = b[k - i]
      BY <2>1, <2>2, <2>3, <2>5
    <3> QED BY <1>3, <3>1, <3>2
  <2>6. DOMAIN t = 1..Len(t)
    BY <2>2, LenProperties
  <2> QED BY <2>2, <2>3, <2>4, <2>5, <2>6
<1> HIDE DEF t
<1>8. IsInjective(t)
  BY <1>1, <1>7 DEF IsInjective
<1>9. Range(t) = Range(s) \cup {e}
  <2>1. ASSUME NEW x \in Range(t) PROVE x \in Range(s) \cup {e}
    <3>1. PICK k \in 1..(Len(s) + 1) : t[k] = x
      BY <1>7 DEF Range
    <3>2. CASE k < i
      BY <3>1, <3>2, <1>1, <1>7 DEF Range
    <3>3. CASE k > i
      <4>1. k - 1 \in DOMAIN s /\ s[k - 1] = x
        BY <3>1, <3>3, <1>1, <1>7
      <4> QED BY <4>1 DEF Range
    <3> QED BY <3>1, <3>2, <3>3, <1>1, <1>7
  <2>2. ASSUME NEW x \in Range(s) PROVE x \in Range(t)
    <3>1. PICK k \in 1..Len(s) : s[k] = x
      BY <1>1 DEF Range
    <3>2. CASE k < i
      BY <3>1, <3>2, <1>1, <1>7 DEF Range
    <3>3. CASE k >= i
      <4>1. k + 1 \in DOMAIN t /\ t[k + 1] = x
        BY <3>1, <3>3, <1>1, <1>7
      <4> QED BY <4>1 DEF Range
    <3> QED BY <3>1, <3>2, <3>3, <1>1
  <2>3. e \in Range(t)
    BY <1>1, <1>7 DEF Range
  <2> QED BY <2>1, <2>2, <2>3
<1> QED BY <1>7, <1>8, <1>9 DEF t

-----------------------------------------------------------------------------
(***************************************************************************)
(* What has stayed is shown                                                *)
(***************************************************************************)
\* The shelf holds every product once.
ShelfInv ==
  /\ shelf \in Seq(Products)
  /\ IsInjective(shelf)
  /\ Range(shelf) = products

\* The first query of a page has been answered, and the second one.
HasRows(c) == rpc[c] \in {"variants", "images", "stock"} \/ status[c] = "200"
HasVariants(c) == rpc[c] \in {"images", "stock"} \/ status[c] = "200"

\* What each reader has read covers what has stayed since it asked, whatever its
\* next queries and the changes of the catalogue will be; of what it was told is
\* not there, nothing has stayed.
ReadingFits(c) ==
  /\ rpc[c] # "idle" => request[c] \in Request
  /\ rpc[c] \in {"products", "variants", "images", "stock"} => request[c].kind # "sku"
  /\ rpc[c] \in {"variant", "owner"} => request[c].kind = "sku"
  /\ HasRows(c) /\ request[c].kind = "list" =>
       products \cap steady[c] \subseteq rows[c] \/ Cardinality(rows[c]) = Limit
  /\ HasRows(c) /\ request[c].kind = "slug" => rows[c] = {request[c].product}
  /\ HasVariants(c) /\ request[c].kind # "sku" =>
       \A v \in Variant \cap steady[c] : v.product \in rows[c] => v \in found[c]
  /\ Answered(c, "404") /\ request[c].kind = "slug" => request[c].product \notin steady[c]
  /\ Answered(c, "404") /\ request[c].kind = "sku" =>
       \A v \in Variant \cap steady[c] : v.sku # request[c].sku

SteadyInv ==
  /\ ShelfInv
  /\ rows \in [Readers -> SUBSET Products]
  /\ steady \in [Readers -> SUBSET (products \cup variants)]
  /\ \A c \in Readers : ReadingFits(c)

LEMMA SteadyInvInit == StorefrontInit => SteadyInv
<1> SUFFICES ASSUME StorefrontInit PROVE SteadyInv
  OBVIOUS
<1> DEFINE n == Cardinality(Products)
<1>1. products = Products /\ shelf \in SetToSeqs(Products)
  BY DEF StorefrontInit, Init
<1>2. n \in Nat /\ shelf \in [1..n -> Products] /\ \A i, j \in 1..n : i # j => shelf[i] # shelf[j]
  BY <1>1, StorefrontAssumption, FS_CardinalityType DEF SetToSeqs
<1>3. IsInjective(shelf) /\ shelf \in Seq(Products)
  BY <1>2, SeqDef DEF IsInjective
<1>4. Range(shelf) = products
  <2>1. shelf \in Injection(1..n, Products)
    BY <1>2, <1>3 DEF Injection
  <2>2. Cardinality(1..n) = n /\ IsFiniteSet(Products)
    BY <1>2, StorefrontAssumption, FS_Interval
  <2>3. shelf \in Surjection(1..n, Products)
    BY <2>1, <2>2, FS_Injection
  <2> QED BY <1>1, <1>2, <2>3 DEF Surjection, Range
<1>5. ASSUME NEW c \in Readers PROVE ReadingFits(c)
  BY <1>5 DEF StorefrontInit, ReadingFits, HasRows, HasVariants, Answered
<1>6. /\ rows \in [Readers -> SUBSET Products]
      /\ steady \in [Readers -> SUBSET (products \cup variants)]
  BY DEF StorefrontInit
<1> QED BY <1>3, <1>4, <1>5, <1>6 DEF SteadyInv, ShelfInv

\* The page holds the whole shelf, or as many products as it can.
LEMMA FirstRowsCover ==
  ASSUME ShelfInv
  PROVE  FirstRows \subseteq products /\ (FirstRows = products \/ Cardinality(FirstRows) = Limit)
<1>1. /\ Limit \in Nat /\ Len(shelf) \in Nat /\ DOMAIN shelf = 1..Len(shelf)
      /\ \A i, j \in 1..Len(shelf) : shelf[i] = shelf[j] => i = j
  BY StorefrontAssumption, LenProperties DEF ShelfInv, IsInjective
<1>2. CASE Len(shelf) < Limit
  BY <1>2, SubSeqFull DEF FirstRows, ShelfInv
<1>3. CASE ~(Len(shelf) < Limit)
  <2> DEFINE page == SubSeq(shelf, 1, Limit)
  <2>1. FirstRows = Range(page)
    BY <1>3 DEF FirstRows
  <2>2. /\ page \in Seq(Products) /\ Len(page) = Limit
        /\ \A i \in 1..Limit : page[i] = shelf[i]
    <3>1. 1 \in 1..(Len(shelf) + 1) /\ Limit \in 0..Len(shelf) /\ 1 <= Limit + 1
      BY <1>1, <1>3
    <3>2. shelf \in Seq(Products)
      BY DEF ShelfInv
    <3>3. /\ page \in Seq(Products) /\ Len(page) = Limit - 1 + 1
          /\ \A i \in 1..(Limit - 1 + 1) : page[i] = shelf[1 + i - 1]
      BY <3>1, <3>2, SubSeqElements, Zenon
    <3> HIDE DEF page
    <3> QED BY <1>1, <3>3
  <2> HIDE DEF page
  <2>3. DOMAIN page = 1..Limit
    BY <2>2, LenProperties
  <2>4. FirstRows \subseteq products
    BY <1>1, <1>3, <2>1, <2>2, <2>3 DEF ShelfInv, Range
  <2>5. page \in Bijection(1..Limit, FirstRows)
    <3>1. page \in [1..Limit -> FirstRows]
      BY <2>1, <2>2, <2>3, LenProperties DEF Range
    <3>2. IsInjective(page)
      BY <1>1, <1>3, <2>2, <2>3 DEF IsInjective
    <3>3. page \in Surjection(1..Limit, FirstRows)
      BY <2>1, <2>3, <3>1 DEF Surjection, Range
    <3> QED BY <3>1, <3>2, <3>3 DEF Bijection, Injection
  <2>6. Cardinality(FirstRows) = Limit
    BY <1>1, <2>5, FS_CountingElements DEF ExistsBijection
  <2> QED BY <2>4, <2>6
<1> QED BY <1>2, <1>3

\* A reader that does not move keeps what it has, while nothing new becomes
\* steady and no product is added.
LEMMA ReadingKept ==
  ASSUME NEW c \in Readers, ReadingFits(c),
         request'[c] = request[c], rpc'[c] = rpc[c], rows'[c] = rows[c],
         found'[c] = found[c], status'[c] = status[c],
         steady'[c] \subseteq steady[c], products' \subseteq products
  PROVE  ReadingFits(c)'
BY DEF ReadingFits, HasRows, HasVariants, Answered

LEMMA WithdrawKeepsSteady ==
  ASSUME SteadyInv, Inv, NEW p \in Products, Withdraw(p)
  PROVE  SteadyInv'
<1> USE DEF Withdraw, DeleteProduct, StillThere, Others
<1>1. ShelfInv'
  BY RemoveFirstProperties DEF SteadyInv, ShelfInv
<1>2. steady' \in [Readers -> SUBSET (products' \cup variants')]
  OBVIOUS
<1>3. ASSUME NEW c \in Readers PROVE ReadingFits(c)'
  <2>1. steady'[c] \subseteq steady[c] /\ ReadingFits(c)
    BY DEF SteadyInv
  <2> QED BY <2>1, ReadingKept
<1> QED BY <1>1, <1>2, <1>3 DEF SteadyInv

LEMMA EditKeepsSteady ==
  ASSUME SteadyInv, NEW p \in Products, Edit(p)
  PROVE  SteadyInv'
<1>1. UNCHANGED <<products, variants, request, rpc, rows, found, status, steady>>
  BY DEF Edit, sagas, reading
<1>2. ShelfInv'
  <2> DEFINE s == RemoveFirst(shelf, p)
  <2>1. PICK i \in 1..Len(shelf) : shelf' = InsertAt(s, i, p)
    BY DEF Edit
  <2>2. /\ s \in Seq(Products) /\ Len(s) = Len(shelf) - 1
        /\ IsInjective(s) /\ Range(s) = products \ {p}
    BY RemoveFirstProperties DEF Edit, SteadyInv, ShelfInv
  <2> HIDE DEF s
  <2>3. Len(shelf) \in Nat /\ i \in 1..(Len(s) + 1)
    BY <2>2, LenProperties DEF SteadyInv, ShelfInv
  <2>4. shelf' \in Seq(Products) /\ IsInjective(shelf') /\ Range(shelf') = Range(s) \cup {p}
    BY <2>1, <2>2, <2>3, InsertAtProperties
  <2>5. p \in products
    BY DEF Edit
  <2> QED BY <1>1, <2>2, <2>4, <2>5 DEF ShelfInv
<1>3. ASSUME NEW c \in Readers PROVE ReadingFits(c)'
  BY <1>1, ReadingKept DEF SteadyInv
<1> QED BY <1>1, <1>2, <1>3 DEF SteadyInv

LEMMA SellKeepsSteady ==
  ASSUME SteadyInv, NEW s \in Sagas, Sell(s)
  PROVE  SteadyInv'
<1>1. products' = products /\ variants \subseteq variants'
  BY DEF Sell, Start, Lookup, Insert, Reload, FailStatement, LoseCatalog, SeedSKU, Compensate
<1>2. UNCHANGED <<shelf, request, rpc, rows, found, status, steady>>
  BY DEF Sell, reading
<1>3. ASSUME NEW c \in Readers PROVE ReadingFits(c)'
  BY <1>1, <1>2, ReadingKept DEF SteadyInv
<1> QED BY <1>1, <1>2, <1>3 DEF SteadyInv, ShelfInv

LEMMA ReaderKeepsSteady ==
  ASSUME SteadyInv, Inv, ReadersInv, NEW c \in Readers,
         \/ Ask(c) \/ ReadProducts(c) \/ ReadVariants(c) \/ ReadImages(c)
         \/ ReadVariant(c) \/ ReadOwner(c) \/ FetchStock(c) \/ ShowPage(c) \/ LosePage(c)
  PROVE  SteadyInv'
<1> USE DEF ReaderAt, Reply
<1>0. /\ products \subseteq Products /\ variants \subseteq Variant
      /\ \A v \in Variant : v.product \in Products /\ v.sku \in SKUs
      /\ Products \cap Variant = {}
      /\ rpc[c] # "done" => status[c] = "none"
      /\ steady[c] \subseteq products \cup variants
      /\ ReadingFits(c)
  BY StorefrontAssumption DEF Inv, TypeOK, Variant, ReadersInv, SteadyInv
<1>1. ShelfInv' /\ UNCHANGED <<products, variants>>
  BY DEF Ask, ReadProducts, ReadVariants, ReadImages, ReadVariant, ReadOwner, FetchStock,
         ShowPage, LosePage, SteadyInv, ShelfInv, sagas
<1>2. \A d \in Readers \ {c} :
        /\ request'[d] = request[d] /\ rpc'[d] = rpc[d] /\ rows'[d] = rows[d]
        /\ found'[d] = found[d] /\ status'[d] = status[d] /\ steady'[d] = steady[d]
  BY DEF Ask, ReadProducts, ReadVariants, ReadImages, ReadVariant, ReadOwner, FetchStock,
         ShowPage, LosePage, SteadyInv, ReadersInv
<1>3. \A d \in Readers \ {c} : ReadingFits(d)'
  BY <1>1, <1>2, ReadingKept DEF SteadyInv
<1>4. FirstRows \subseteq Products
  BY <1>0, FirstRowsCover DEF SteadyInv
<1>5. /\ rows' \in [Readers -> SUBSET Products]
      /\ steady' \in [Readers -> SUBSET (products' \cup variants')]
  BY <1>0, <1>1, <1>4 DEF Ask, ReadProducts, ReadVariants, ReadImages, ReadVariant, ReadOwner,
         FetchStock, ShowPage, LosePage, SteadyInv
<1>6. ReadingFits(c)'
  <2> USE <1>0 DEF ReadingFits, HasRows, HasVariants, Answered, ReadersInv, SteadyInv
  <2>1. CASE Ask(c)
    BY <2>1 DEF Ask, Request
  <2>2. CASE ReadProducts(c)
    <3>1. request[c] \in Request /\ rpc[c] = "products" /\ status[c] = "none"
      BY <2>2 DEF ReadProducts
    <3>2. UNCHANGED <<request, found, steady, products, variants>>
      BY <2>2, <1>1 DEF ReadProducts
    <3>3. CASE request[c].kind = "list"
      <4>1. rows'[c] = FirstRows /\ rpc'[c] \in {"variants", "done"} /\ status'[c] \in {"none", "200"}
        BY <2>2, <3>1, <3>3 DEF ReadProducts
      <4>2. FirstRows # {} => status'[c] = "none" /\ rpc'[c] = "variants"
        BY <2>2, <3>1, <3>3 DEF ReadProducts
      <4>3. products \cap steady[c] \subseteq FirstRows \/ Cardinality(FirstRows) = Limit
        BY FirstRowsCover
      <4> QED BY <3>1, <3>2, <3>3, <4>1, <4>2, <4>3
    <3>4. CASE request[c].kind = "slug"
      <4>1. rows'[c] = products \cap {request[c].product}
        BY <2>2, <3>1, <3>4 DEF ReadProducts
      <4>2. request[c].product \in Products
        BY <3>1, <3>4 DEF Request
      <4>3. CASE request[c].product \in products
        <5>1. rpc'[c] = "variants" /\ status'[c] = "none"
          BY <2>2, <3>1, <3>4, <4>3 DEF ReadProducts
        <5> QED BY <3>1, <3>2, <3>4, <4>1, <4>3, <5>1
      <4>4. CASE request[c].product \notin products
        <5>1. rpc'[c] = "done" /\ status'[c] = "404"
          BY <2>2, <3>1, <3>4, <4>4 DEF ReadProducts
        <5>2. request[c].product \notin steady[c]
          BY <4>2, <4>4
        <5> QED BY <3>1, <3>2, <3>4, <5>1, <5>2
      <4> QED BY <4>3, <4>4
    <3> QED BY <3>3, <3>4, <2>2 DEF ReadProducts
  <2>3. CASE ReadVariants(c)
    <3>1. /\ rpc[c] = "variants" /\ rpc'[c] = "images" /\ status'[c] = "none"
          /\ found'[c] = VariantsOf(rows[c])
          /\ UNCHANGED <<request, rows, steady, products, variants>>
      BY <2>3, <1>1 DEF ReadVariants
    <3>2. \A v \in Variant \cap steady[c] : v.product \in rows[c] => v \in VariantsOf(rows[c])
      BY DEF VariantsOf
    <3> QED BY <3>1, <3>2
  <2>4. CASE ReadImages(c)
    BY <2>4, <1>1 DEF ReadImages
  <2>5. CASE ReadVariant(c)
    <3>1. /\ rpc[c] = "variant" /\ UNCHANGED <<request, rows, steady, products, variants>>
          /\ status[c] = "none" /\ request[c].kind = "sku" /\ request[c] \in Request
      BY <2>5, <1>1 DEF ReadVariant
    <3>2. CASE \E v \in variants : v.sku = request[c].sku
      <4>1. rpc'[c] = "owner" /\ status'[c] = "none"
        BY <2>5, <3>1, <3>2 DEF ReadVariant
      <4> QED BY <3>1, <4>1
    <3>3. CASE \A v \in variants : v.sku # request[c].sku
      <4>1. rpc'[c] = "done" /\ status'[c] = "404"
        BY <2>5, <3>1, <3>3 DEF ReadVariant
      <4> QED BY <3>1, <3>3, <4>1
    <3> QED BY <3>2, <3>3
  <2>6. CASE ReadOwner(c)
    BY <2>6, <1>1 DEF ReadOwner
  <2>7. CASE FetchStock(c)
    BY <2>7, <1>1 DEF FetchStock
  <2>8. CASE ShowPage(c)
    BY <2>8, <1>1 DEF ShowPage
  <2>9. CASE LosePage(c)
    BY <2>9, <1>1 DEF LosePage
  <2> QED BY <2>1, <2>2, <2>3, <2>4, <2>5, <2>6, <2>7, <2>8, <2>9
<1> QED BY <1>1, <1>3, <1>5, <1>6 DEF SteadyInv

LEMMA SteadyInvNext ==
  StorefrontInv /\ SteadyInv /\ [StorefrontNext]_allVars => SteadyInv'
<1> SUFFICES ASSUME StorefrontInv, SteadyInv, [StorefrontNext]_allVars PROVE SteadyInv'
  OBVIOUS
<1>1. Inv /\ ReadersInv
  BY DEF StorefrontInv
<1>2. ASSUME NEW k \in SKUs, Stocked(k) PROVE SteadyInv'
  <2>1. UNCHANGED <<products, variants, shelf, request, rpc, rows, found, status, steady>>
    BY <1>2 DEF Stocked, Register, reading
  <2>2. \A c \in Readers : ReadingFits(c)'
    BY <2>1, ReadingKept DEF SteadyInv
  <2> QED BY <2>1, <2>2 DEF SteadyInv, ShelfInv
<1>3. CASE UNCHANGED allVars
  <2>1. UNCHANGED <<products, variants, shelf, request, rpc, rows, found, status, steady>>
    BY <1>3 DEF allVars, sagas, reading
  <2>2. \A c \in Readers : ReadingFits(c)'
    BY <2>1, ReadingKept DEF SteadyInv
  <2> QED BY <2>1, <2>2 DEF SteadyInv, ShelfInv
<1> QED
  BY <1>1, <1>2, <1>3, SellKeepsSteady, WithdrawKeepsSteady, EditKeepsSteady,
     ReaderKeepsSteady DEF StorefrontNext

LEMMA SteadyInvCorrect == StorefrontSpec => []SteadyInv
BY SteadyInvInit, SteadyInvNext, StorefrontInvCorrect, PTL DEF StorefrontSpec

\* Every product stands on the shelf once, and whatever a reader is at, what it
\* holds is of the kind that its next query expects.
THEOREM StorefrontTypeOKCorrect == StorefrontSpec => []StorefrontTypeOK
<1>1. StorefrontInv /\ SteadyInv => StorefrontTypeOK
  <2> SUFFICES ASSUME StorefrontInv, SteadyInv PROVE StorefrontTypeOK
    OBVIOUS
  <2>1. Len(shelf) = Cardinality(products)
    <3>1. Len(shelf) \in Nat /\ shelf \in [1..Len(shelf) -> products]
      BY LenProperties DEF SteadyInv, ShelfInv, Range
    <3>2. shelf \in Bijection(1..Len(shelf), products)
      BY <3>1 DEF Bijection, Injection, Surjection, SteadyInv, ShelfInv, Range
    <3> QED BY <3>1, <3>2, FS_CountingElements DEF ExistsBijection
  <2>2. steady \in [Readers -> SUBSET (Products \cup Variant)]
    BY DEF SteadyInv, StorefrontInv, Inv, TypeOK
  <2> QED BY <2>1, <2>2 DEF StorefrontTypeOK, StorefrontInv, Inv, ReadersInv, SteadyInv, ShelfInv
<1> QED BY <1>1, StorefrontInvCorrect, SteadyInvCorrect, PTL

\* Whatever was added, edited and deleted between the three queries, an answer
\* has on it what has been in the catalogue all the time, up to the end of the
\* one page that is asked for; 404 is answered only of what was not.
THEOREM SteadyShownCorrect == StorefrontSpec => []SteadyShown
<1>1. StorefrontInv /\ SteadyInv => SteadyShown
  <2> SUFFICES ASSUME StorefrontInv, SteadyInv, NEW c \in Readers
               PROVE  LET wanted == request[c] IN
    /\ Answered(c, "200") /\ wanted.kind = "list" =>
         /\ products \cap steady[c] \subseteq rows[c] \/ Cardinality(rows[c]) = Limit
         /\ VariantsOf(rows[c]) \cap steady[c] \subseteq found[c]
    /\ Answered(c, "200") /\ wanted.kind = "slug" =>
         VariantsOf({wanted.product}) \cap steady[c] \subseteq found[c]
    /\ Answered(c, "404") /\ wanted.kind = "slug" => wanted.product \notin steady[c]
    /\ Answered(c, "404") /\ wanted.kind = "sku" =>
         \A v \in variants \cap steady[c] : v.sku # wanted.sku
    BY DEF SteadyShown
  <2>1. ReadingFits(c) /\ variants \subseteq Variant
    BY DEF SteadyInv, StorefrontInv, Inv, TypeOK
  <2> QED BY <2>1 DEF ReadingFits, HasRows, HasVariants, Answered, VariantsOf
<1> QED BY <1>1, StorefrontInvCorrect, SteadyInvCorrect, PTL
=============================================================================
