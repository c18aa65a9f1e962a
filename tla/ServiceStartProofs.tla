------------------------- MODULE ServiceStartProofs -------------------------
(***************************************************************************)
(* Proofs about ServiceStart: for any number of instances of each service, *)
(* any seed lists, and any number of faults, crashes and deletions.        *)
(***************************************************************************)
EXTENDS ServiceStart, TLAPS

\* An instance has rows to insert only while it seeds, and what a catalog
\* instance inserts belongs to a product that it has created.
TodoInPlace ==
  /\ \A i \in Services : todo[i] # {} => at[i] = "seeding"
  /\ \A i \in Catalogs : todo[i] \subseteq VariantSKUs /\ (todo[i] # {} => owner[i] # 0)

\* A seeding instance of inventory-service answers for the whole list, also
\* while the table is still empty.
ListAccounted ==
  \A i \in Inventories : at[i] = "seeding" =>
    \A k \in SKUs : \/ k \in stock \cup todo[i]
                    \/ [table |-> "stock", sku |-> k] \in lost

\* Each service passes its own migrations only, and a gateway none.
Places ==
  /\ \A i \in Inventories : at[i] \notin {"002", "003", "creating"}
  /\ \A i \in Catalogs : at[i] # "001" /\ (at[i] = "003" => "002" \in tables)
  /\ \A g \in Gateways :
       /\ at[g] \in {"connecting", "listening", "serving", "down"}
       /\ at[g] \in {"listening", "serving"} => (auth[g] = "verifying" <=> Keycloak)

Inv ==
  /\ TypeOK
  /\ TodoInPlace
  /\ ListAccounted
  /\ Places
  /\ MissingIsPending
  /\ StartedInOrder

LEMMA InvInit == Init => Inv
<1> SUFFICES ASSUME Init PROVE Inv
  OBVIOUS
<1> USE StartAssumption DEF Init, Instances, Services, Phases, Migrations
<1>1. TypeOK
  BY DEF TypeOK, Ids, Rows
<1>2. TodoInPlace /\ ListAccounted /\ Places
  BY DEF TodoInPlace, ListAccounted, Places
<1>3. MissingIsPending /\ StartedInOrder
  BY DEF MissingIsPending, StartedInOrder
<1> QED BY <1>1, <1>2, <1>3 DEF Inv

\* Type correctness of every action, with what it needs of the other parts.
LEMMA KeepsType ==
  ASSUME Inv, Next
  PROVE  TypeOK' /\ TodoInPlace' /\ Places'
<1> USE StartAssumption
     DEF Inv, TypeOK, TodoInPlace, Places, Instances, Services, Phases, Migrations, Ids,
         Go, Fault, database, seeding
<1>1. ASSUME NEW i \in Services, Connect(i)
      PROVE  TypeOK' /\ TodoInPlace' /\ Places'
  BY <1>1 DEF Connect
<1>2. ASSUME NEW i \in Services, Migrate(i)
      PROVE  TypeOK' /\ TodoInPlace' /\ Places'
  BY <1>2 DEF Migrate, After
<1>3. ASSUME NEW i \in Services, FailStart(i)
      PROVE  TypeOK' /\ TodoInPlace' /\ Places'
  BY <1>3 DEF FailStart
<1>4. ASSUME NEW i \in Services, CheckStock(i)
      PROVE  TypeOK' /\ TodoInPlace' /\ Places'
  BY <1>4 DEF CheckStock
<1>5. ASSUME NEW i \in Services, CheckProducts(i)
      PROVE  TypeOK' /\ TodoInPlace' /\ Places'
  BY <1>5 DEF CheckProducts
<1>6. ASSUME NEW i \in Services, SkipSeeding(i) \/ LoseCommit(i)
      PROVE  TypeOK' /\ TodoInPlace' /\ Places'
  <2>1. CASE SkipSeeding(i)
    BY <2>1 DEF SkipSeeding
  <2>2. CASE LoseCommit(i)
    <3>1. lost' \subseteq Rows
      BY <2>2 DEF LoseCommit, Rows
    <3> QED BY <2>2, <3>1 DEF LoseCommit
  <2> QED BY <1>6, <2>1, <2>2
<1>7. ASSUME NEW i \in Services, CreateProduct(i)
      PROVE  TypeOK' /\ TodoInPlace' /\ Places'
  BY <1>7 DEF CreateProduct
<1>8. ASSUME NEW i \in Services, SeedSKU(i)
      PROVE  TypeOK' /\ TodoInPlace' /\ Places'
  BY <1>8 DEF SeedSKU, Did
<1>9. ASSUME NEW i \in Services, AddVariant(i)
      PROVE  TypeOK' /\ TodoInPlace' /\ Places'
  BY <1>9 DEF AddVariant, Did
<1>10. ASSUME NEW i \in Services, FailInsert(i)
       PROVE  TypeOK' /\ TodoInPlace' /\ Places'
  BY <1>10 DEF FailInsert, Did, Lose
<1>11. ASSUME NEW i \in Services, Seeded(i)
       PROVE  TypeOK' /\ TodoInPlace' /\ Places'
  BY <1>11 DEF Seeded
<1>12. ASSUME NEW g \in Gateways, NewGatewayRuntime(g)
       PROVE  TypeOK' /\ TodoInPlace' /\ Places'
  BY <1>12 DEF NewGatewayRuntime, NewVerifier
<1>13. ASSUME NEW i \in Instances, Listen(i)
       PROVE  TypeOK' /\ TodoInPlace' /\ Places'
  BY <1>13 DEF Listen
<1>14. ASSUME NEW i \in Instances, Crash(i)
       PROVE  TypeOK' /\ TodoInPlace' /\ Places'
  BY <1>14 DEF Crash, Lose
<1>15. ASSUME NEW i \in Services, Restart(i)
       PROVE  TypeOK' /\ TodoInPlace' /\ Places'
  BY <1>15 DEF Restart
<1>16. CASE DeleteProduct
  BY <1>16 DEF DeleteProduct
<1> QED
  BY <1>1, <1>2, <1>3, <1>4, <1>5, <1>6, <1>7, <1>8, <1>9, <1>10, <1>11, <1>12,
     <1>13, <1>14, <1>15, <1>16 DEF Next, Step

\* What is missing stays accounted for: an instance takes a row from its list
\* when it has inserted it, or loses it.
LEMMA KeepsPending ==
  ASSUME Inv, Next
  PROVE  ListAccounted' /\ MissingIsPending'
<1> USE StartAssumption
     DEF Inv, TypeOK, TodoInPlace, Places, ListAccounted, MissingIsPending,
         Instances, Services, Phases, Migrations, Ids, Go, database, seeding
<1>1. ASSUME NEW i \in Services, Connect(i) \/ FailStart(i)
      PROVE  ListAccounted' /\ MissingIsPending'
  BY <1>1 DEF Connect, FailStart
<1>2. ASSUME NEW i \in Services, Migrate(i)
      PROVE  ListAccounted' /\ MissingIsPending'
  BY <1>2 DEF Migrate, After
<1>3. ASSUME NEW i \in Services, CheckStock(i)
      PROVE  ListAccounted' /\ MissingIsPending'
  BY <1>3 DEF CheckStock, HasAnyStock
<1>4. ASSUME NEW i \in Services, CheckProducts(i) \/ SkipSeeding(i)
      PROVE  ListAccounted' /\ MissingIsPending'
  BY <1>4 DEF CheckProducts, SkipSeeding
<1>5. ASSUME NEW i \in Services, CreateProduct(i)
      PROVE  ListAccounted' /\ MissingIsPending'
  BY <1>5 DEF CreateProduct
<1>6. ASSUME NEW i \in Services, SeedSKU(i)
      PROVE  ListAccounted' /\ MissingIsPending'
  BY <1>6 DEF SeedSKU, Did
<1>7. ASSUME NEW i \in Services, AddVariant(i)
      PROVE  ListAccounted' /\ MissingIsPending'
  BY <1>7 DEF AddVariant, Did
<1>8. ASSUME NEW i \in Services, FailInsert(i)
      PROVE  ListAccounted' /\ MissingIsPending'
  BY <1>8 DEF FailInsert, Did, Lose, Rows
<1>9. ASSUME NEW i \in Services, Seeded(i) \/ Restart(i)
      PROVE  ListAccounted' /\ MissingIsPending'
  BY <1>9 DEF Seeded, Restart
<1>10. ASSUME NEW i \in Instances, Listen(i)
       PROVE  ListAccounted' /\ MissingIsPending'
  BY <1>10 DEF Listen
<1>11. ASSUME NEW g \in Gateways, NewGatewayRuntime(g)
       PROVE  ListAccounted' /\ MissingIsPending'
  BY <1>11 DEF NewGatewayRuntime
<1>12. ASSUME NEW i \in Instances, Crash(i)
       PROVE  ListAccounted' /\ MissingIsPending'
  BY <1>12 DEF Crash, Lose, Rows
<1>13. CASE DeleteProduct
  BY <1>13 DEF DeleteProduct, Rows
<1>14. ASSUME NEW i \in Services, LoseCommit(i)
       PROVE  ListAccounted' /\ MissingIsPending'
  BY <1>14 DEF LoseCommit
<1> QED
  BY <1>1, <1>2, <1>3, <1>4, <1>5, <1>6, <1>7, <1>8, <1>9, <1>10, <1>11, <1>12, <1>13,
     <1>14 DEF Next, Step

\* No instance gets past its migrations without their tables.
LEMMA KeepsOrder ==
  ASSUME Inv, Next
  PROVE  StartedInOrder'
<1> USE StartAssumption
     DEF Inv, TypeOK, Places, StartedInOrder, Instances, Services, Phases, Migrations, Go,
         database, seeding
<1>1. ASSUME NEW i \in Services, Step(i)
      PROVE  StartedInOrder'
  BY <1>1 DEF Step, Connect, Migrate, After, CheckStock, CheckProducts, CreateProduct,
              SeedSKU, AddVariant, Seeded, Listen, Restart
<1>2. ASSUME NEW i \in Services, FailStart(i) \/ SkipSeeding(i) \/ LoseCommit(i) \/ FailInsert(i)
      PROVE  StartedInOrder'
  BY <1>2 DEF FailStart, SkipSeeding, LoseCommit, FailInsert
<1>3. ASSUME NEW g \in Gateways, NewGatewayRuntime(g) \/ Listen(g)
      PROVE  StartedInOrder'
  BY <1>3 DEF NewGatewayRuntime, NewVerifier, Listen
<1>4. ASSUME NEW i \in Instances, Crash(i)
      PROVE  StartedInOrder'
  BY <1>4 DEF Crash
<1>5. CASE DeleteProduct
  BY <1>5 DEF DeleteProduct
<1> QED BY <1>1, <1>2, <1>3, <1>4, <1>5 DEF Next

LEMMA InvNext == Inv /\ [Next]_vars => Inv'
<1> SUFFICES ASSUME Inv, [Next]_vars PROVE Inv'
  OBVIOUS
<1>1. CASE Next
  BY <1>1, KeepsType, KeepsPending, KeepsOrder DEF Inv
<1>2. CASE UNCHANGED vars
  BY <1>2 DEF vars, database, seeding, Inv, TypeOK, TodoInPlace, ListAccounted, Places,
              MissingIsPending, StartedInOrder
<1> QED BY <1>1, <1>2

\* The inductive invariant of the starting services: which instance still
\* answers for which row of the seed lists.
THEOREM InvCorrect == Spec => []Inv
BY InvInit, InvNext, PTL DEF Spec

\* Type correctness of the starting services.
THEOREM TypeCorrect == Spec => []TypeOK
<1>1. Inv => TypeOK
  BY DEF Inv
<1> QED BY <1>1, InvCorrect, PTL

\* However many instances seed, fail and crash side by side, a row is missing
\* only while one of them is about to insert it, or because one that should have
\* inserted it has met an error.
THEOREM MissingIsPendingCorrect == Spec => []MissingIsPending
<1>1. Inv => MissingIsPending
  BY DEF Inv
<1> QED BY <1>1, InvCorrect, PTL

\* No instance gets past its migrations before their tables exist, and a gateway
\* that serves checks tokens exactly if there is a Keycloak.
THEOREM StartedInOrderCorrect == Spec => []StartedInOrder
<1>1. Inv => StartedInOrder
  BY DEF Inv
<1> QED BY <1>1, InvCorrect, PTL
=============================================================================
