# go-folio in TLA+

This directory holds a formal model of go-folio, a small shop made of three Go
services, a store front, an admin client and a seeding script. It contains
TLA+ modules translated from the source, the TLC configurations that check
them on small instances, and proofs checked by TLAPS for every value of the
constants.

`PROJECT.json` is the index: components, runs, the source lines each definition
stands for, what was found, the hazards of the code, and the theorems.

## 1. The system

```
 store (Next.js) --/public--> gateway-service --REST--> catalog-service ---> PostgreSQL
 admin (React)   --/admin --> (stateless, SSE) --gRPC--> inventory-service -> PostgreSQL
 seed script     --/admin -->
 sync client (dotCMS) ------------------------- REST --> catalog-service
```

| Component | State | Operations | Hard behaviour | What makes it correct | Module |
|---|---|---|---|---|---|
| inventory-service | tables `stock`, `reservations` | AdjustStock, ReserveStock, ReleaseStock, SeedSKU; GetStock and ListStock read | two-statement transactions interleaved at READ COMMITTED, failures between statements, lost COMMIT answers | units are neither lost nor invented, never overdrawn, each call acts once or not at all | InventoryService, StockLedger |
| catalog-service, products | table `catalog_products` | CreateProduct, UpdateProduct, DeleteProduct | row locks, waits and deadlocks at two unique indexes, read-modify-write of whole rows | every request acts at once or is refused for a true reason; no edit undone, unique codes and slugs, only edits deadlock, everybody is answered | CatalogStore, ProductTable |
| catalog-service, sync | none (cursor and token travel with the client) | ListProductProjections, ListVariantInventory | rows move while a client pages; `updated_at` is the time a transaction began | nothing skipped, nothing repeated, the next round starts early enough | CatalogSync |
| catalog-service, variants and images | `product_variants`, `product_images` | addVariant, getVariantBySKU, cascade of deleteProduct | check-then-insert against deletions; pages read by several queries | SKUs unique, a refusal changes nothing, 404 is true | VariantSaga, Storefront |
| gateway, SSE | `Broker.clients`, channels of 10, RWMutex | Publish, Subscribe, Unsubscribe, streamEvents | goroutines, full buffers, close after unlock | no panic, no waiting, order kept, nobody passed over | SSEBroker, Topic |
| gateway, variant saga | none | addVariant over two services | second step fails after the first has committed; failed compensation | nobody is told that a stranded variant is fine | VariantSaga |
| gateway, stock feed | none | adjustStock = AdjustStock, then Publish | publication after the transaction; pages with stale numbers; int32 truncation | a page is old only for a reason, an edit lands on the number typed | StockFeed |
| gateway, listings | none | listProducts, getProductBySlug | five queries of two services per page, one page of 500 | what was there all the time is shown, promises are kept | Storefront |
| seeders, start-up | the same tables | Connect, Migrate and Run of both services, the gateway's runtime | partial failures, several instances, crashes, restarts | who answers for a missing row; order of start; everybody serves | ServiceStart |
| seed script | the catalogue, through the gateway | main, doJSONWithRetry, ensureToken | refusals, lost answers, kills, reruns | a product left half seeded was reported; runs end | SeedScript |
| auth, config, runtimes, metrics | none to speak of | middleware, wiring | none of their own | | what they decide is in ServiceStart and SeedScript |
| admin and store clients | the numbers on their screens | inline editor, form, EventSource | stale numbers | | StockFeed |

How they interact: the gateway calls the catalogue by HTTP and the inventory by
gRPC, passes the context of the browser's request on, and has no timeouts or
retries of its own. The two services share no tables; a SKU is the only link
between a variant and its stock. The only thing pushed is the gateway's own
event after its own AdjustStock: ReserveStock and ReleaseStock, called by
nobody in the repository but the public gRPC API, publish nothing.

## 2. Modules

Every module says at its head what it leaves out. Definitions called
"variant for the checks" are plausible bugs: each property is shown to fail
when one of them stands in for the definition of the code.

```
 what is promised           the code                        its proofs

 StockLedger  <==========   InventoryService            <-  InventoryServiceProofs
 ProductTable <==========   CatalogStore                <-  CatalogStoreProofs
                               ^                               ^
                            CatalogSync                 <-  CatalogSyncProofs
 Topic        <==========   SSEBroker                   <-  SSEBrokerProofs
 Topic        <==========   StockFeed                   <-  StockFeedProofs
                            VariantSaga <- Storefront   <-  StorefrontProofs
                            ServiceStart                <-  ServiceStartProofs
                            SeedScript                  <-  SeedScriptProofs
```

A single arrow leads from a module to one that it extends, a double one to the
abstract specification that it implements under the mapping stated in it.
`InventoryData` holds the rows and requests that the ledger and the service
share. `MCx` is `x` with the constants of its run.

### Inventory: `StockLedger`, `InventoryData`, `InventoryService`

`StockLedger` is the abstract specification, what a gRPC caller is promised: every
accepted call acts on the tables in one indivisible step between call and
answer; a refused or failed call does not act (an "internal" answer may hide a
COMMIT). `InventoryService` is the code: each call is a `Begin`, the statements
of `repository.go` one by one, and `Commit` or `Rollback`:

| Action | Code |
|---|---|
| `Begin` | `inTx`/`inTxReservation`: BeginTx |
| `UpdateScan`, `UpdateApply` | the guarded UPDATE of `adjustStock`/`reserveStock`: find the row, wait for it, evaluate the WHERE clause again on what is committed then |
| `Classify` | `classifyZeroRows` |
| `InsertReservation` | `NewID` and the INSERT |
| `DeleteScan`, `DeleteApply`, `Credit` | the DELETE and the UPDATE of `releaseStock` |
| `Commit`, `Rollback`, `Fail` | `tx.Commit`, the deferred `tx.Rollback`, an error of any statement |
| `SeedSKU` | an INSERT of the seeder of another instance |

The split of UPDATE and DELETE into a scan and an application is READ
COMMITTED's: a statement chooses its row by its snapshot and re-evaluates after
the wait for the row's lock. An uncommitted row version is the lock. INTEGER
overflow raises an error.

### Catalogue: `ProductTable`, `CatalogStore`, `CatalogSync`

`ProductTable` is what those who change products are promised: a request is
called (`Call`), acts on the row as it is committed at one moment (`Create`,
`Update`, `Delete`) or is refused for a reason that is true of the table at such
a moment (`Refuse`: 404, 400, 409, or an internal error at any time), and is
answered. `CatalogStore` implements it (`ImplementsTable`). What it takes from
another transaction that is not over, a lock, a pending index entry, is not
visible in the table at all.

`CatalogStore` has the product transactions statement by statement. An INSERT or
UPDATE is three steps, as in PostgreSQL: it writes its row (`Insert`, `Update`),
and enters it into the index of `product_code` and then into that of `slug`
(`EnterIndex`), where it waits for every transaction that holds its key, with
its row and its earlier entries in its hands. So two edits that exchange their
slugs deadlock, as do an edit and a creation that meet at one index each, the
other way round. `BreakDeadlock` is the server ending one of them (40P01);
`mapCatalogPgError` has no case for it, and the service answers 500 and does not
try again. `Fail` is every other error; an answer of COMMIT that is lost after
the server has committed is a `Commit`. Of the columns the model keeps those
with a constraint and `updated_at`; nothing waits for the others, which change
like these. `NOW()` is the time the transaction began (`began`). `CatalogSync` extends it by
the service's `ListProductProjections` (`Arrive` captures the token, `Respond`
runs the query) and a client that follows cursors, repeats lost requests and
keeps the token of a round's first page, as ADR-001 section 11 describes.
`Matches` and `Ordered` are the query's WHERE and ORDER BY; `Rows` is the one
sequence of the matching rows that is so ordered (their ids differ, so there is
one), `Items`, `HasNext` and `NextCursor` are what the LIMIT leaves of it.

### Variants and pages: `VariantSaga`, `Storefront`

`VariantSaga` has the gateway's `addVariant`, the catalogue's handler and
repository for it (`Lookup`, `Insert`, `Reload`), each a statement that commits
by itself and may fail or lose its answer (`FailStatement`, 500), the HTTP
answer that the gateway may not get (`LoseCatalog`, 502), the AdjustStock by
which it means to register the SKU, and the compensation, with deletions of
products and registrations of SKUs in between. Its constant `Accepts` says whether
`ProductVariant.Validate` lets the handler's variant pass. In the code it does
not (see section 5), which would end every saga at its first step; the rest of
the saga is checked with a catalogue that accepts, which is what the gateway's
own tests put in its place. `Faults` switches failing and lost calls on.

`Storefront` extends it by what customers and admins read meanwhile: a reader
(`Ask`) is served a list, a product by its slug, or a variant by its SKU;
`ReadProducts`, `ReadVariants`, `ReadImages`, `ReadVariant` and `ReadOwner` are
the catalogue's queries, which no transaction holds together, `FetchStock` is
one GetStock of the gateway, `ShowPage` and `LosePage` are the answers. `shelf`
is the catalogue in the order of `updated_at`, which `Edit` changes, and
`Limit` the size of the one page that is asked for. It adds readers and
changes nothing of the sagas: `ImplementsSagas` proves that every behaviour of
the shop is one of `VariantSaga`.

### The feed of one SKU: `Topic`, `SSEBroker`, `StockFeed`

`Topic` is what publishers and subscribers are promised of the broker: a publish
offers its event once to each subscriber, waits for none, passes over only full
queues, and nobody joins or leaves while some have been offered an event and
others not. `SSEBroker` implements it, with `Queue(s)` (what is in the channel
of a registered stream), `Posting(p)` (the event of a publish in progress) and
`ServedBy(p)` (the channels its loop has done with) in place of its variables.

`SSEBroker` has the broker's mutex with Go's semantics (an announced writer
stops later readers; Unlock admits the readers that waited), the range loop
over the channels one send at a time, and the stream handlers with clients
that read slowly and leave at any moment.

`StockFeed` is what it is for: sessions of the admin client that load a number,
type another over it (`SendEdit`, the difference to the screen) or a difference
(`SendDelta`), the gateway's conversion to int32 (`Int32`), the transaction
(`Adjust`, or `AnswerLost` when its answer does not come back), the publish
that follows it (`Publish`, `Send` to one channel after the other), and product
pages that were rendered from a cache (`Render`, `Open`), subscribe later, and
let each event replace their number (`Receive`). `MoveElsewhere` is every move
of the stock that nobody publishes. A transaction is one step here and the read
lock a guard, because `InventoryService` and `SSEBroker` take them apart and
show that this is how they look from outside (`ImplementsLedger`,
`ImplementsTopic`). That the feed asks no more of the broker than that is
`FollowsTopic`: the feed is a use of the same `Topic`.

### Start-up: `ServiceStart`

Each instance of the two services connects, applies its migrations, checks
whether its table is empty, seeds row by row and listens; gateways get their
verifier and listen. `FailStart` is an os.Exit(1), `SkipSeeding` and
`FailInsert` are errors that are only logged, `LoseCommit` is one of them that
leaves a product without variants (its COMMIT went through, the answer did not),
`Crash` may happen anywhere, and `Restart` is docker-compose's. Several instances share one database, and an
admin may delete the seeded product meanwhile.

### The seeding script: `SeedScript`

`main` file by file and request by request: `Start`, `TakeFile`, `NextVariant`,
`UploadImages`, what is made of each answer (`ProductExists`, `VariantAnswered`
and so on), and `doJSONWithRetry` underneath (`EnsureToken`, `SendInVain`,
`SendProduct`, `SendVariant`, `SendPatch`, `Retry`). `Kill` ends a run anywhere
and `Start` begins another; admins create, delete and complete products by
hand.

## 3. Runs

| Run | Module | Bounds | States | Shows |
|---|---|---|---|---|
| `inventory_ledger` | MCInventoryService | 2 handlers, 1 SKU, 2 reservation ids, deltas -1, 0, 2, quantities 1, 2, seeds 1, 2, INTEGER up to 3 | 124 054 | the books stay right, the transactions refine the ledger, every call is answered |
| `inventory_negative` | MCInventoryService | 1 handler, quantities -1 and 1 | | violation, section 5 |
| `sse_broker` | MCSSEBroker | 2 publishers with 2 events and 1, 2 streams of which 1 may end, buffers of 2 | 81 063 | the broker implements the topic: nobody served twice or passed over; each publisher's events in order, no send on a closed channel, publishing never waits for clients, streams end |
| `catalog_store` | MCCatalogStore | 2 writers, 2 products, 2 codes and the blank one, 2 slugs, the requests of `FewRequests` | 179 618 | the transactions implement the table; no clobbered edit, only edits deadlock, every request is answered |
| `catalog_sync` | MCCatalogSync | 1 writer, 2 products, pages of 1, 2 rounds, clock up to 2 | 1 167 946 | what pagination and token guarantee |
| `catalog_sync_token` | MCCatalogSync | as above, clock up to 3 | | violation, section 5 |
| `storefront` | MCStorefront | 2 sagas, 2 products, 2 SKUs, 1 reader, pages of 1 product, faults | 1 261 951 | stranded variants are reported, refusals change nothing, nothing steady is missing from a page, 404 is true, promises are kept |
| `stock_feed` | MCStockFeed | 2 admins, 1 page, INTEGER and int32 up to 3, channels of 1, numbers 0, 2, 8 typed, differences -1, 1, 2 moves of the stock | 1 366 345 | why a page may be old, and when an edit lands |
| `seed_script` | MCSeedScript | 2 files that share one of 2 SKUs, 2 runs | 674 608 | a half seeded product was reported, every run ends |
| `service_start` | MCServiceStart | 2 instances of each service, 1 gateway, 2 SKUs, 1 fault, 1 deletion | 425 544 | what seeding leaves out, order of start, everybody serves in the end |
| `saga_compensation`, `saga_validation` | MCVariantSaga | 1 saga, no faults | | violations, section 5 |

Why the bounds are enough. Rows of different SKUs never meet in one
transaction of the inventory, so one SKU with two concurrent transactions has
every conflict of locks; a third handler only queues behind the second. Two
ids and quantities of 1 and 2 against a seed of 1 and 2 reach the empty and the
overfull row, INTEGER up to 3 reaches overflow. In the catalogue, two writers
over two codes and two slugs meet at either index, can exchange their slugs,
and can cross at the two indexes. `FewRequests` are two creations that can stand
together, the edits of one field which make those meetings, one of them to the
blank code, and the deletion of one of the products: UPDATE writes every column,
so that an edit of both fields enters the same indexes as an edit of one. One
tick of the clock is enough in `catalog_store`, where time is of no consequence
but for what is written in `updated_at`; `catalog_sync` has two or three.
`DeadlocksAreEditsCorrect` is proved for cycles of any
length. Pages of one row make every row boundary a page boundary, and a clock of
two ticks gives ties, older and newer rows. In the broker, the two events of one
publisher can wait in one channel together, be received in between, or be passed
over one without the other, and with the other publisher's they are three for a
channel of two. One of the two streams may end: it meets the other's Subscribe at
the mutex, and two that end do to each other no more than that. In the storefront the second
product is beyond the end of the page, and of two sagas one can take the SKU
or the product of the other. In the feed, 8 is out of the range of the
three-bit int32 whichever number is on the screen, two sessions and the moves
from elsewhere give two publishes in either order, and a channel of one drops
the second. One fault in `service_start` is a failed INSERT, a crash while
seeding or a failed start; a second one adds only sums of these, and
`MissingIsPendingCorrect` is proved for any number. Two runs of the script are
one that leaves a file half seeded and one that finds it so; a file with two
SKUs of which another lists one has a conflict, a failure and a success in one
file. A dry run and a run that rejects a file may take any share of the files.
What does not depend on the instance is proved (section 4).

Symmetry is used in `storefront`, of model values that the specification does
not tell apart, and in no run with fairness. `CHECK_DEADLOCK FALSE` stands
where the system may rest: all sagas answered and pages shown, all streams
closed, all rounds of the sync client done, all runs of the script used up, the
bound of the moves reached, all services serving.

### Fairness

`InventoryService`: a statement that can run is run;
PostgreSQL queues the waiters of a row or an index entry, so one that is
enabled again and again gets its turn (strong fairness of the waiting
statements). No fairness of `Fail`, of new requests or of the seeder, so that an
answer is not owed to a statement timeout.

`CatalogStore`: the same, and a deadlock is found (PostgreSQL looks for one when
a wait has lasted `deadlock_timeout`; weak fairness of `BreakDeadlock`, whose
victim is any transaction of the cycle).

`SSEBroker`: the Go scheduler runs what can run (weak fairness of each
publisher's loop and of each stream). That `sync.RWMutex` starves no writer and
that a `select` with two ready cases takes each of them in the end is true of Go
and more than the run needs: a stream meets finitely many other writers and
events. A client need not read: a write returns only if the client reads or has
gone.

`ServiceStart`: an instance goes on with its own steps, and docker restarts
the two services on failure (docker-compose.yml; weak fairness of `Step` of
each instance). The gateway has no restart policy and gets no fairness.
Faults are bounded, so `EventuallyServing` says what happens when they stop.

`SeedScript`: a run that has begun goes on (weak fairness of `Step`), nobody
must start one. The requests to the gateway have a timeout of their own; of
Keycloak and MinIO it is assumed that they answer, because the code waits for
them without a timeout (main.go:97).

## 4. Proofs

| Module | Proves, for every value of the constants |
|---|---|
| `InventoryServiceProofs` | the inductive invariant of the transactions; TypeOK, OneWriter, PrimaryKeys, NoLostUpdate, NoDeadlyEmbrace; ImplementsLedger, UnitsConserved; NeverOverdrawn and ReservedIsHeld for quantities that are natural numbers |
| `CatalogStoreProofs` | the inductive invariant of the product transactions; TypeOK, UniqueProducts, DeadlocksAreEdits, NoClobberedEdit; ImplementsTable |
| `CatalogSyncProofs` | the sync leaves the transactions alone; its inductive invariant; SyncTypeOK, SteadyRowsDelivered, NothingRepeated, OnlyInFlightLost |
| `SSEBrokerProofs` | TypeOK, NoSendOnClosed, InOrder, EverySubscriberServed; ImplementsTopic; LoopGetsOn, WriterGetsOn |
| `StorefrontProofs` | the sagas' invariant, StrandedIsReported, RefusalsChangeNothing; Storefront implements VariantSaga; StorefrontTypeOK, NotFoundIsTrue, PromiseKept, SteadyShown |
| `StockFeedProofs` | TypeOK, EditLands, StaleForAReason; FollowsTopic |
| `ServiceStartProofs` | TypeOK, MissingIsPending, StartedInOrder |
| `SeedScriptProofs` | TypeOK, HalfSeededWasReported; RunGetsOn |

Every invariant and every action property of the runs is proved; of their
temporal properties, so are the three refinements.

**Inventory.** `Inv` says which locks a handler holds at which statement
(`versions`, `deleted` and `inserted` are empty except after the statement that
fills them), that one transaction at most has a version of a row, that a
deleted reservation is still committed and locked, and that what is written is
the effect of the request on the row as committed now. `OneWriter` and
`NoLostUpdate` are not inductive by themselves: that a commit of one handler
leaves the others' effects true follows only because the row it replaces is
one that nobody else has a version of. The refinement `Spec => Ledger!Spec`
follows: the statements before COMMIT stutter, `Commit` is the ledger's
`Adjust`, `Reserve` or `Release`, whose guard holds of the committed row. From
the ledger's single steps come `UnitsConservedCorrect` (for any quantities: only
an adjustment changes the sum of a row), and `NeverOverdrawnCorrect` and
`ReservedIsHeldCorrect` under the assumption `Quantities \subseteq Nat`, without
which both fail (section 5). The reserved counter is the cardinality of the set
of units held (`HeldUnits`), so adding and removing a reservation are the lemmas
`HeldUnitsAdd` and `HeldUnitsRemove`.

**Product transactions.** A transaction that has read a row for update still
has that very row locked and committed, and what it has written (`Effect`) is a
new id or the merge of its request into the row as committed now. In the indexes
that it has entered, the row is alone among the committed ones (`Alone`) and
among those that other transactions have entered (`Distinct`). `UniqueProducts`
is not inductive without these two: a commit keeps it only because both checks
have been made, at both indexes, for what is now written, and an index that is
entered later checks again. From `Inv` follows `NoClobberedEdit`.

`DeadlocksAreEdits` ranks those who wait (`WaitRank`): what has reached COMMIT or
ROLLBACK waits for nobody, an UPDATE has its row locked already, and SELECT FOR
UPDATE and DELETE hold nothing that another waits for. So all of a cycle stand
at an index. Without edits, one that waits at the code's index waits for one
that has its entry there and stands at the slug's, and that one waits only for
transactions that end (`IndexWaits`): no cycle. What is left is the cycle in
which an edit keeps the old key of its row while another wants it.

The step of the table that a transaction amounts to is its COMMIT, if it has
come that far, and otherwise the statement that found the reason to refuse it.
`Due` says what is needed at COMMIT: what is going to be committed is what the
table's step would do now, the rows changed by others included. Together with
the checks of the unique indexes in `Inv` that gives the guards of `Create`,
`Update` and `Delete`. A statement refuses for what is committed, never for
what another transaction may still take back.

**Sync.** `StepsAreStoreSteps` reduces the sync to the transactions, whose `Inv`
it inherits. `Stamped`: what is written bears the time at which its transaction
began. `TokenInv`: whoever is in a transaction now was in it when the token was
captured or has begun later than the token. Hence a row that appears is newer
than the token or belongs to a transaction that was open at the capture, which
is all that `OnlyInFlightLost` excepts. `CopyInv` follows each committed row
through the rounds: it is in the client's copy, or `Fresh` for the token in use.
`DeliveredInv` says that no delivered row is after the cursor, from which the
order of a whole round follows page by page (`ConcatOrdered`). That the rows of
a query have an order at all (`OrderExists`, a choice is nothing without it) is
an induction on their number; the library's induction theorems are of no use
here, so it is a least counterexample: take the smallest cardinality of a set
that has no order, remove its first row (which exists by the same argument),
and order the rest. `WFMin` over the natural numbers gives both.

**Broker.** A closed or closing channel is no longer registered, and while a
writer is in the critical section no publisher is in its loop, so the channel a
publisher has picked is still registered when it sends. `InOrder` needs that
what a stream has of a publisher is older than the event being sent, unless the
loop has been there already. `EverySubscriberServed` rests on `Served`: while
a loop runs, each registered channel that it has done with (the one in work
excepted) has taken the event or dropped it, and nobody enters the map before
the loop's end, because a writer needs the lock that the loop holds.

`ImplementsTopic` maps each `Send` that completes a channel to `Serve`, and
`RUnlock` to `Return`; the mutex, the goroutines' other steps and the choice of
a channel are stutters. `Join` and `Leave` need that no loop has served anybody
yet, which is the writer's exclusion again. `Private` (a stream that has not been
registered yet has nothing in its channel, and a publisher has a channel in
work only while it sends) lets the queue of a stream begin empty.

`LoopGetsOn` and `WriterGetsOn` are the proved half of `PublishReturns` and
`StreamEnds`: a loop has two steps at most for each stream, each step leaves
fewer, nobody lengthens it, and no reader comes while a writer waits. The
other half, that a step is always possible and is taken, is about ENABLED and
fairness.

**Sagas and pages.** A saga has made nothing before its INSERT and works on the
row it has made from there to its answer (`MadeAsAsked`), and answers once
(`AnsweredAtEnd`); with that `StrandedIsReported` is inductive. For the readers:
nothing is found before the query that finds it, an answer is given once, and
no SKU is ever unregistered (`StockGrows`), which is what keeps a promise.
`SteadyShown` rests on `ShelfInv` (the shelf has each product once, so that the
first `Limit` places hold `Limit` products or all of them, `FirstRowsCover`) and
on `ReadingFits`: what a reader has read at each of its queries covers what has
stayed since it asked. What sequences do when an element is removed or inserted
are the lemmas `RemoveFirstProperties` and `InsertAtProperties`.

**Feed.** `NoneForgotten` is the heart: every move of the stock later than the
number a live page shows has been missed by that page or is coming to it, on a
publisher's way or in its channel. With every reading dated (`ReadingsDated`)
`StaleForAReason` follows: if nothing is coming and nothing was missed, the
page's number is of the present. `EditLands` needs that the difference in work
is still that of the number typed to the screen (`SessionsInStep`).

**Start-up.** `MissingIsPending` is silent on an empty table, but the first
INSERT makes it speak of every row; `ListAccounted` says that a seeding
instance answers for the whole list from its check on, also while the table is
still empty.

**Script.** `HalfSeededWasReported` excepts the file in work, and speaks of it
when the run has done with it. `InWork` says what is known of that file: while
its product is being asked for, it is the product of an earlier run whose
variants are settled, or this run has just created it; from then on each of
its variants is settled or still to be added.

`RunGetsOn` gives a run a measure, `Left`: the files not done with, the stages of
the file in work, the variants missing, and the steps of the request with its
one repetition, compared in that order. Each step of a run makes it smaller
whatever is answered, nothing that admins do touches it, and no descent of it is
endless (the lemma `NearerWellFounded`). What `RunEnds` adds is that a run which is not at
its end has a step.

Assumptions: the named ASSUMEs of the modules alone (`DataAssumption`,
`StoreAssumption`, `SyncAssumption`, `BrokerAssumption`, `SagaAssumption`,
`StorefrontAssumption`, `FeedAssumption`, `StartAssumption`, `ScriptAssumption`,
`FiniteAssumption`): types of the constants, buffers and pages of one entry at
least, model values that are none of the values they stand beside, the
catalogue's seed SKUs among the inventory's, disjoint sets of instances, a
finite set of products in a shop, and for the script finitely many files with
finitely many variants each. TLC evaluates them in every run.

Model-checked only: the liveness properties `EveryCallAnswered`,
`EveryRequestAnswered`, `PublishReturns`, `StreamEnds`, `EventuallyServing` and `RunEnds`, because fairness
and ENABLED are out of the prover's reach. For two components the measure that
decreases is proved, as said above; for the transactions of the two services and
for start-up there is none, since a restart or a wait may take a process back.

Proved and in no run: `PrimaryKeys`, `RunGetsOn`, `LoopGetsOn`, `WriterGetsOn`,
`UniqueProducts` (which the table of `ImplementsTable` has by its guards),
`CatalogStore`'s `TypeOK` (a part of `SyncTypeOK`) and `FollowsTopic`, which TLC
confirms only on feeds with fewer moves than the run's.

## 5. What was found

* `inventory_negative`: quantities below zero are accepted by ReserveStock and
  overdraw a SKU, contrary to ADR-001 ("available must not go negative").
* `catalog_sync_token`: an update in flight when the sync token is captured is
  lost to every later round, contrary to the comment in ListProductProjections.
* `saga_compensation`: SeedSKU cannot register a SKU that has no row, and the
  compensating DELETE that follows has no route in the catalogue.
* `saga_validation`: the catalogue refuses every variant that its own handler
  builds, because no stock status is set.

What holds instead is checked beside it: `OnlyInFlightLost` says that nothing
else is lost to a sync, `StrandedIsReported` that a variant without stock is
always one whose saga is at work or was answered with an error of the servers
(500, 502 or 503), `UnitsConserved`
that also with negative quantities no unit is invented.

Five properties say what the code does promise where a reader might expect
more: `StaleForAReason` lists every reason for which a connected page shows an
old number (and an event older than the page may replace a newer number),
`EditLands` the conditions under which the inline editor's difference ends at
the number typed, `MissingIsPending` that no later start completes a list of
which an INSERT was lost or whose product was committed without an answer,
`DeadlocksAreEdits` which requests may be ended as victims of a deadlock, and `HalfSeededWasReported` that no rerun completes a product.

## 6. Not modelled

* `ListVariantInventory`: the pagination of `ListProductProjections` over
  another table, of which only UpdateVariantPricing changes `updated_at`.
* `UpdateVariantPricing` and `AddImage`: no route and no other code calls them.
  Images on pages are the time their queries take (`ReadImages`).
* What makes a token valid (a library); the gateway's answers to a bad one are
  in `SeedScript`, the choice of a verifier in `ServiceStart`.
* Metrics, health, logging, configuration, generated protobuf code, rendering
  in the two clients: nothing in the program decides by them.
* `CompositeRuntime.Close`: `Start` never returns nil, so a gateway ends in
  os.Exit past its deferred calls. ADR-001.md:375 describes the closers,
  ADR-001.md:393 says that there is no graceful shutdown: there is none to model.
* Tombstones: a deleted product leaves no trace for a sync client. The API
  promises none, so there is no property; the hazard is listed.

## 7. Plan and state

Done, in this order: the inventory with its ledger, refinement and proofs; the
broker with proofs; the product transactions with proofs; the sync; the saga;
the pages over the saga with proofs; the feed with proofs; start-up with
proofs; the script with proofs; order, service and conservation proved; the
sync and the steady shelf proved; the table and the topic as abstract
specifications, implemented and proved; the measures of loop and script.

What would come next: a composition of `StockFeed` with the ledger in place of
its one-step transactions; an abstract specification of the sync, a copy that
lags; `ListVariantInventory` when something changes variants.
