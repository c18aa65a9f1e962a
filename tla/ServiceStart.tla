---------------------------- MODULE ServiceStart ----------------------------
(***************************************************************************)
(* How the services come up: each instance connects to its database,       *)
(* applies its migrations, seeds its tables if they are empty, item by     *)
(* item and outside a transaction, and listens.  Instances start side by   *)
(* side, fail, crash and are restarted (docker-compose.yml: restart        *)
(* on-failure for inventory-service and catalog-service, no restart for    *)
(* the gateway) while others already serve admins.                         *)
(***************************************************************************)
EXTENDS Naturals

CONSTANTS
  Inventories,  \* instances of inventory-service
  Catalogs,     \* instances of catalog-service
  Gateways,     \* instances of the gateway
  SKUs,         \* the seed list of inventory-service
  VariantSKUs,  \* the variants of the product that catalog-service seeds
  Keycloak,     \* KEYCLOAK_URL is set
  MaxFaults,    \* bound: failures and crashes
  MaxDeletes    \* bound: how often an admin deletes the seeded product

ASSUME StartAssumption ==
  /\ VariantSKUs \subseteq SKUs
  /\ Keycloak \in BOOLEAN
  /\ MaxFaults \in Nat /\ MaxDeletes \in Nat
  /\ Inventories \cap Catalogs = {} /\ Gateways \cap (Inventories \cup Catalogs) = {}

VARIABLES
  at,        \* how far each instance has come
  auth,      \* what each gateway has been given to check tokens with
  tables,    \* migrations whose tables exist
  stock,     \* the SKUs that have a row in the stock table
  product,   \* the id of the seeded product, 0 while there is none
  deletes,   \* how often it has been deleted
  variants,  \* the SKUs of its variants
  todo,      \* what each seeding instance has still to insert
  owner,     \* the product that each seeding instance adds variants to
  lost,      \* history: rows that an instance has left out, by an error or its end
  faults     \* how much has gone wrong

database == <<tables, stock, product, deletes, variants>>
seeding == <<todo, owner, lost>>
vars == <<at, auth, database, seeding, faults>>

Services == Inventories \cup Catalogs
Instances == Services \cup Gateways
Migrations == {"001", "002", "003"}
Phases == {"connecting", "checking", "creating", "seeding", "listening", "serving", "down"}
Rows == [table : {"stock", "variants"}, sku : SKUs]
Ids == 0 .. MaxDeletes + 1

TypeOK ==
  /\ at \in [Instances -> Phases \cup Migrations]
  /\ auth \in [Gateways -> {"none", "permissive", "verifying"}]
  /\ tables \subseteq Migrations
  /\ stock \subseteq SKUs
  /\ product \in Ids
  /\ deletes \in 0 .. MaxDeletes
  /\ variants \subseteq VariantSKUs /\ (product = 0 => variants = {})
  /\ todo \in [Services -> SUBSET SKUs]
  /\ owner \in [Catalogs -> Ids]
  /\ lost \subseteq Rows
  /\ faults \in 0 .. MaxFaults

Init ==
  /\ at = [i \in Instances |-> "connecting"]
  /\ auth = [g \in Gateways |-> "none"]
  /\ tables = {}
  /\ stock = {}
  /\ product = 0 /\ deletes = 0 /\ variants = {}
  /\ todo = [i \in Services |-> {}]
  /\ owner = [c \in Catalogs |-> 0]
  /\ lost = {}
  /\ faults = 0

Go(i, l) == at' = [at EXCEPT ![i] = l]

Fault == faults < MaxFaults /\ faults' = faults + 1

-----------------------------------------------------------------------------
(***************************************************************************)
(* Connect: open, ping, the migrations in order                            *)
(***************************************************************************)
Connect(i) ==
  /\ at[i] = "connecting"
  /\ Go(i, IF i \in Inventories THEN "001" ELSE "002")
  /\ UNCHANGED <<auth, database, seeding, faults>>

\* CREATE TABLE IF NOT EXISTS.  (Variant for the checks: CREATE TABLE.)
After(m) == IF m = "002" THEN "003" ELSE "checking"

MigrateOnce(i) ==
  /\ at[i] \in Migrations \ tables
  /\ tables' = tables \cup {at[i]}
  /\ Go(i, After(at[i]))
  /\ UNCHANGED <<auth, stock, product, deletes, variants, seeding, faults>>

Migrate(i) ==
  /\ at[i] \in Migrations
  /\ tables' = tables \cup {at[i]}
  /\ Go(i, After(at[i]))
  /\ UNCHANGED <<auth, stock, product, deletes, variants, seeding, faults>>

\* The database does not answer, or two instances create one table at once, for
\* which IF NOT EXISTS is no remedy: os.Exit(1).  (Variant for the checks: the
\* error of a migration is ignored.)
IgnoreFailedStart(i) ==
  /\ at[i] \in {"connecting"} \cup Migrations
  /\ Fault
  /\ Go(i, IF at[i] = "connecting" THEN "down" ELSE After(at[i]))
  /\ UNCHANGED <<auth, database, seeding>>

FailStart(i) ==
  /\ at[i] \in {"connecting"} \cup Migrations
  /\ Fault
  /\ Go(i, "down")
  /\ UNCHANGED <<auth, database, seeding>>

-----------------------------------------------------------------------------
(***************************************************************************)
(* seed.Run                                                                *)
(***************************************************************************)
\* A table that is not empty is left alone.
HasAnyStock == stock # {}

CheckStock(i) ==
  /\ i \in Inventories /\ at[i] = "checking"
  /\ IF HasAnyStock THEN Go(i, "listening") /\ UNCHANGED todo
                    ELSE Go(i, "seeding") /\ todo' = [todo EXCEPT ![i] = SKUs]
  /\ UNCHANGED <<auth, database, owner, lost, faults>>

\* ListProducts: the seeded product stands for any.
CheckProducts(i) ==
  /\ i \in Catalogs /\ at[i] = "checking"
  /\ Go(i, IF product = 0 THEN "creating" ELSE "listening")
  /\ UNCHANGED <<auth, database, seeding, faults>>

\* An error of the check, or one of CreateProduct that has changed nothing, ends
\* the seeding, not the start.
SkipSeeding(i) ==
  /\ at[i] \in {"checking", "creating"}
  /\ Fault
  /\ Go(i, "listening")
  /\ UNCHANGED <<auth, database, seeding>>

\* CreateProduct, which another instance may have been faster with.
CreateProduct(i) ==
  /\ at[i] = "creating"
  /\ IF product = 0
     THEN /\ product' = deletes + 1
          /\ owner' = [owner EXCEPT ![i] = deletes + 1]
          /\ todo' = [todo EXCEPT ![i] = VariantSKUs]
          /\ Go(i, "seeding")
     ELSE Go(i, "listening") /\ UNCHANGED <<product, owner, todo>>
  /\ UNCHANGED <<auth, tables, stock, deletes, variants, lost, faults>>

\* The server commits CreateProduct and its answer is lost: the instance takes it
\* for an error, too, and leaves the product without variants.
LoseCommit(i) ==
  /\ at[i] = "creating" /\ product = 0
  /\ Fault
  /\ product' = deletes + 1
  /\ lost' = lost \cup [table : {"variants"}, sku : VariantSKUs]
  /\ Go(i, "listening")
  /\ UNCHANGED <<auth, tables, stock, deletes, variants, todo, owner>>

Did(i, k) == todo' = [todo EXCEPT ![i] = @ \ {k}]

\* SeedSKU: ON CONFLICT DO NOTHING.
SeedSKU(i) ==
  /\ i \in Inventories /\ at[i] = "seeding"
  /\ \E k \in todo[i] :
       /\ stock' = stock \cup {k}
       /\ Did(i, k)
  /\ UNCHANGED <<at, auth, tables, product, deletes, variants, owner, lost, faults>>

\* AddVariantToProduct, in vain if the product is not the one created any more
\* (the foreign key) or the SKU is there.  (Variant for the checks: no foreign
\* key.)
AddVariantAnyway(i) ==
  /\ i \in Catalogs /\ at[i] = "seeding"
  /\ \E k \in todo[i] : variants' = variants \cup {k} /\ Did(i, k)
  /\ UNCHANGED <<at, auth, tables, stock, product, deletes, owner, lost, faults>>

AddVariant(i) ==
  /\ i \in Catalogs /\ at[i] = "seeding"
  /\ \E k \in todo[i] :
       /\ variants' = IF product = owner[i] THEN variants \cup {k} ELSE variants
       /\ Did(i, k)
  /\ UNCHANGED <<at, auth, tables, stock, product, deletes, owner, lost, faults>>

\* What instance i leaves behind when it does not insert the SKUs of K.
Lose(i, K) ==
  lost' = lost \cup
    {r \in Rows : /\ r.sku \in K
                  /\ r.table = IF i \in Inventories THEN "stock" ELSE "variants"
                  /\ i \in Catalogs => product = owner[i]}

\* An INSERT fails and is logged, the next one is made.  If it is only the answer
\* that is lost, the log is all that tells it from one that succeeds.  (Variant for the
\* checks: the first failure ends the seeding.)
GiveUpSeeding(i) ==
  /\ at[i] = "seeding" /\ todo[i] # {}
  /\ Fault
  /\ \E k \in todo[i] : Lose(i, {k})
  /\ todo' = [todo EXCEPT ![i] = {}]
  /\ UNCHANGED <<at, auth, database, owner>>

FailInsert(i) ==
  /\ at[i] = "seeding"
  /\ Fault
  /\ \E k \in todo[i] : Lose(i, {k}) /\ Did(i, k)
  /\ UNCHANGED <<at, auth, database, owner>>

Seeded(i) ==
  /\ at[i] = "seeding" /\ todo[i] = {}
  /\ Go(i, "listening")
  /\ UNCHANGED <<auth, database, seeding, faults>>

-----------------------------------------------------------------------------
(***************************************************************************)
(* The gateway's runtime                                                   *)
(***************************************************************************)
\* Keycloak's metadata are asked for if there is a Keycloak.
NewVerifier(g) ==
  auth' = [auth EXCEPT ![g] = IF Keycloak THEN "verifying" ELSE "permissive"]

NewGatewayRuntime(g) ==
  /\ at[g] = "connecting"
  /\ \/ NewVerifier(g) /\ Go(g, "listening") /\ UNCHANGED faults
     \/ Keycloak /\ Fault /\ Go(g, "down") /\ UNCHANGED auth
  /\ UNCHANGED <<database, seeding>>

-----------------------------------------------------------------------------
\* srv.Start, with which all three mains end: an error of it is an os.Exit(1).
Listen(i) ==
  /\ at[i] = "listening"
  /\ \/ Go(i, "serving") /\ UNCHANGED faults
     \/ Fault /\ Go(i, "down")
  /\ UNCHANGED <<auth, database, seeding>>

Crash(i) ==
  /\ at[i] # "down"
  /\ Fault
  /\ Go(i, "down")
  /\ IF i \in Services
     THEN Lose(i, todo[i]) /\ todo' = [todo EXCEPT ![i] = {}]
     ELSE UNCHANGED <<lost, todo>>
  /\ UNCHANGED <<auth, database, owner>>

Restart(i) ==
  /\ at[i] = "down"
  /\ Go(i, "connecting")
  /\ UNCHANGED <<auth, database, seeding, faults>>

\* Admins work through a gateway that serves.
Serving(S) == \E i \in S : at[i] = "serving"

DeleteProduct ==
  /\ Serving(Gateways) /\ Serving(Catalogs)
  /\ product # 0 /\ deletes < MaxDeletes
  /\ product' = 0 /\ variants' = {}
  /\ deletes' = deletes + 1
  /\ lost' = {r \in lost : r.table = "stock"}
  /\ UNCHANGED <<at, auth, tables, stock, todo, owner, faults>>

\* What an instance does of itself, faults apart.
Step(i) ==
  \/ Connect(i) \/ Migrate(i)
  \/ CheckStock(i) \/ CheckProducts(i) \/ CreateProduct(i)
  \/ SeedSKU(i) \/ AddVariant(i) \/ Seeded(i)
  \/ Listen(i) \/ Restart(i)

Next ==
  \/ \E i \in Services : Step(i) \/ FailStart(i) \/ SkipSeeding(i) \/ LoseCommit(i) \/ FailInsert(i)
  \/ \E g \in Gateways : NewGatewayRuntime(g) \/ Listen(g)
  \/ \E i \in Instances : Crash(i)
  \/ DeleteProduct

Spec == Init /\ [][Next]_vars

\* Instances go on, and docker restarts those that fail.
Fairness == \A i \in Services : WF_vars(Step(i))

FairSpec == Spec /\ Fairness

-----------------------------------------------------------------------------
\* "seeds the stock table ... if it is empty.  It is a no-op if any stock records
\* already exist" (seed.go:30): of a table that is not empty, a row of the seed
\* list is missing only while an instance is about to insert it, or because one
\* that should have inserted it met an error: its INSERT failed, it ended before, or
\* the COMMIT of the product was not confirmed.  No later start makes that good; but
\* however many start at once, none of them keeps another from completing the list.
MissingIsPending ==
  /\ stock # {} =>
       \A k \in SKUs : \/ k \in stock
                       \/ [table |-> "stock", sku |-> k] \in lost
                       \/ \E i \in Inventories : k \in todo[i]
  /\ product # 0 =>
       \A k \in VariantSKUs : \/ k \in variants
                              \/ [table |-> "variants", sku |-> k] \in lost
                              \/ \E i \in Catalogs : k \in todo[i] /\ owner[i] = product

\* No instance touches a table before its migrations have been applied, and no
\* gateway takes a Keycloak that does not answer for one that is not configured.
StartedInOrder ==
  /\ \A i \in Services : at[i] \notin {"connecting", "down"} \cup Migrations =>
       IF i \in Inventories THEN "001" \in tables ELSE {"002", "003"} \subseteq tables
  /\ \A g \in Gateways : at[g] = "serving" => (auth[g] = "verifying" <=> Keycloak)

\* When things stop going wrong, every instance of a service that is restarted
\* on failure serves for good.
EventuallyServing == \A i \in Services : <>[](at[i] = "serving")
=============================================================================
