--------------------------- MODULE CatalogStore ---------------------------
(***************************************************************************)
(* The product transactions of catalog-service: CreateProduct,             *)
(* UpdateProduct and DeleteProduct, each a PostgreSQL transaction at READ  *)
(* COMMITTED that service.inTx or inTxVoid opens around the repository's   *)
(* statements, interleaved statement by statement.                         *)
(*                                                                         *)
(* Of a product's columns the model keeps the id, the two with a UNIQUE    *)
(* constraint (product_code and slug), and updated_at; the title and the   *)
(* others change as the code does, and nothing waits for them.  NOW() is   *)
(* the time a transaction began.                                           *)
(*                                                                         *)
(* INSERT and UPDATE write the row first and then enter it into the unique *)
(* indexes one after the other, in the order of their creation.  Who meets *)
(* an entry there whose transaction is not over waits for its end, with    *)
(* all that it has written in its hands.                                   *)
(***************************************************************************)
EXTENDS Naturals

CONSTANTS
  Writers,      \* concurrent requests that change products
  Codes,        \* values of product_code
  Slugs,        \* values of slug
  Keep,         \* a field that an update leaves alone (a nil pointer)
  Blank,        \* the empty string, which Product.Validate rejects
  Requests,     \* bound of the model: what the writers may ask for
  MaxProducts,  \* bound of the model: ids the BIGSERIAL sequence gives out
  MaxTime       \* bound of the model: the clock

VARIABLES
  clock,     \* the time
  products,  \* committed rows of catalog_products
  nextID,    \* the next id of the sequence
  job,       \* the request each writer serves
  pc,        \* the statement each writer runs next
  outcome,   \* the error each writer is going to answer with
  began,     \* NOW() of each writer's transaction
  locked,    \* ids of the committed rows each transaction has locked
  existing,  \* the row UpdateProduct has read
  written    \* the row each transaction has written and not committed

vars == <<clock, products, nextID, job, pc, outcome, began, locked, existing, written>>

Product == [id : 1..MaxProducts, code : Codes, slug : Slugs, updatedAt : 0..MaxTime]

CreateJob == [op : {"create"}, code : Codes \cup {Blank}, slug : Slugs]
UpdateJob == [op : {"update"}, id : 1..MaxProducts,
              code : Codes \cup {Blank, Keep}, slug : Slugs \cup {Keep}]
DeleteJob == [op : {"delete"}, id : 1..MaxProducts]
Job == CreateJob \cup UpdateJob \cup DeleteJob
NoJob == [op |-> "none"]

ASSUME StoreAssumption ==
  /\ MaxProducts \in Nat /\ MaxTime \in Nat
  /\ Requests \subseteq Job
  /\ Keep \notin Codes \cup Slugs \cup {Blank}
  /\ Blank \notin Codes \cup Slugs

\* The unique indexes, as the places where a statement enters its row into them.
Indexes == {"code", "slug"}
Locations == {"idle", "insert", "select", "update", "delete", "commit", "rollback"} \cup Indexes
Outcomes == {"none", "notFound", "invalid", "conflict", "internal"}

TypeOK ==
  /\ clock \in 0..MaxTime
  /\ products \subseteq Product
  /\ nextID \in 1..(MaxProducts + 1)
  /\ job \in [Writers -> Job \cup {NoJob}]
  /\ pc \in [Writers -> Locations]
  /\ outcome \in [Writers -> Outcomes]
  /\ began \in [Writers -> 0..MaxTime]
  /\ locked \in [Writers -> SUBSET (1..MaxProducts)]
  /\ existing \in [Writers -> SUBSET Product]
  /\ written \in [Writers -> SUBSET Product]

Init ==
  /\ clock = 0
  /\ products = {}
  /\ nextID = 1
  /\ job = [w \in Writers |-> NoJob]
  /\ pc = [w \in Writers |-> "idle"]
  /\ outcome = [w \in Writers |-> "none"]
  /\ began = [w \in Writers |-> 0]
  /\ locked = [w \in Writers |-> {}]
  /\ existing = [w \in Writers |-> {}]
  /\ written = [w \in Writers |-> {}]

-----------------------------------------------------------------------------
Goto(w, l) == pc' = [pc EXCEPT ![w] = l]

\* A statement, a check or the transaction fails; the answer will be o.
GiveUp(w, o) ==
  /\ Goto(w, "rollback")
  /\ outcome' = [outcome EXCEPT ![w] = o]

\* (Variant for the checks: the deferred Rollback is missing, and the connection
\* goes back to the pool with its transaction open.)
KeepLocks(w) == UNCHANGED <<locked, written>>
CloseTx(w) ==
  /\ locked' = [locked EXCEPT ![w] = {}]
  /\ written' = [written EXCEPT ![w] = {}]

\* The server refuses a statement, and with it undoes the transaction.
Abort(w, o) == GiveUp(w, o) /\ CloseTx(w)

\* Product.Validate.
Valid(p) == p.code # Blank /\ p.slug # Blank

\* Another transaction has locked or written the row.
RowLocked(w, i) == \E v \in Writers \ {w} : i \in locked[v]

\* What index k knows a row by.
Key(k, p) == IF k = "code" THEN p.code ELSE p.slug

\* The row that v has written is in index k.
Entered(v, k) == pc[v] = "commit" \/ (k = "code" /\ pc[v] = "slug")

\* v has deleted the row that it has locked, or written a new version of it.
Replaces(v) == job[v].op = "delete" \/ written[v] # {}

\* Whether another row has this key in index k depends on how the transaction of
\* v ends: it has entered one that has, or has replaced it.
KeyHeld(v, k, x) ==
  \/ Entered(v, k) /\ \E p \in written[v] : Key(k, p) = x
  \/ Replaces(v) /\ \E p \in products : p.id \in locked[v] /\ Key(k, p) = x

\* The UNIQUE constraint of index k.  (Variant for the checks: an index that is
\* not unique.)
NeverTaken(k, q) == FALSE
KeyTaken(k, q) == \E p \in products : Key(k, p) = Key(k, q) /\ p.id # q.id

\* Variant for the checks: nil fields are written as well.
Overwrite(change, old) == change

\* One field of UpdateProduct: applied unless nil.
Merge(change, old) == IF change = Keep THEN old ELSE change

\* The existing product with the fields of the request applied.
Merged(w, p) ==
  [p EXCEPT !.code = Merge(job[w].code, p.code), !.slug = Merge(job[w].slug, p.slug)]

\* BeginTx.  CreateProduct validates first and answers without a transaction.
Begin(w, j) ==
  /\ pc[w] = "idle"
  /\ job' = [job EXCEPT ![w] = j]
  /\ began' = [began EXCEPT ![w] = clock]
  /\ IF j.op = "create" /\ ~Valid(j)
     THEN GiveUp(w, "invalid")
     ELSE /\ Goto(w, CASE j.op = "create" -> "insert"
                       [] j.op = "update" -> "select"
                       [] j.op = "delete" -> "delete")
          /\ UNCHANGED outcome
  /\ UNCHANGED <<clock, products, nextID, locked, existing, written>>

\* createProduct: the sequence gives an id, which no other row has in the primary
\* key's index, even if the row is then refused; and fails when it is exhausted.
Insert(w) ==
  /\ pc[w] = "insert"
  /\ \/ /\ nextID <= MaxProducts
        /\ nextID' = nextID + 1
        /\ written' = [written EXCEPT ![w] =
             {[id |-> nextID, code |-> job[w].code, slug |-> job[w].slug,
               updatedAt |-> began[w]]}]
        /\ Goto(w, "code")
        /\ UNCHANGED <<outcome, locked>>
     \/ /\ nextID > MaxProducts
        /\ Abort(w, "internal")
        /\ UNCHANGED nextID
  /\ UNCHANGED <<clock, products, job, began, existing>>

\* getProductByIDForUpdate: waits for the row's lock, then reads what is
\* committed by then.  (Variant for the checks: getProductByID in its place.)
SelectUnlocked(w) ==
  /\ pc[w] = "select"
  /\ \/ \E p \in products :
          /\ p.id = job[w].id
          /\ existing' = [existing EXCEPT ![w] = {p}]
          /\ Goto(w, "update")
          /\ UNCHANGED outcome
     \/ /\ \A p \in products : p.id # job[w].id
        /\ GiveUp(w, "notFound")
        /\ UNCHANGED existing
  /\ UNCHANGED <<clock, products, nextID, job, began, locked, written>>

SelectForUpdate(w) ==
  /\ pc[w] = "select"
  /\ ~RowLocked(w, job[w].id)
  /\ \/ \E p \in products :
          /\ p.id = job[w].id
          /\ existing' = [existing EXCEPT ![w] = {p}]
          /\ locked' = [locked EXCEPT ![w] = {p.id}]
          /\ Goto(w, "update")
          /\ UNCHANGED outcome
     \/ /\ \A p \in products : p.id # job[w].id
        /\ GiveUp(w, "notFound")
        /\ UNCHANGED <<existing, locked>>
  /\ UNCHANGED <<clock, products, nextID, job, began, written>>

\* The fields are applied, Validate, and updateProduct's UPDATE of every column
\* writes the new version of the row.
Update(w) ==
  /\ pc[w] = "update"
  /\ \E p \in existing[w] :
       LET m == Merged(w, p) IN
       \/ /\ ~Valid(m)
          /\ GiveUp(w, "invalid")
          /\ UNCHANGED <<locked, written>>
       \/ /\ Valid(m) /\ ~RowLocked(w, p.id)
          /\ \A q \in products : q.id # p.id
          /\ GiveUp(w, "notFound")
          /\ UNCHANGED <<locked, written>>
       \/ /\ Valid(m) /\ ~RowLocked(w, p.id)
          /\ \E q \in products : q.id = p.id
          /\ written' = [written EXCEPT ![w] = {[m EXCEPT !.updatedAt = began[w]]}]
          /\ locked' = [locked EXCEPT ![w] = {p.id}]
          /\ Goto(w, "code")
          /\ UNCHANGED outcome
  /\ UNCHANGED <<clock, products, nextID, job, began, existing>>

\* The INSERT or UPDATE enters its row into a unique index, as soon as it is
\* certain whether another row has the key.  The last one ends the statement.
EnterIndex(w) ==
  /\ pc[w] \in Indexes
  /\ \E q \in written[w] :
       /\ \A v \in Writers \ {w} : ~KeyHeld(v, pc[w], Key(pc[w], q))
       /\ IF KeyTaken(pc[w], q)
          THEN Abort(w, "conflict")
          ELSE /\ Goto(w, IF pc[w] = "code" THEN "slug" ELSE "commit")
               /\ UNCHANGED <<outcome, locked, written>>
  /\ UNCHANGED <<clock, products, nextID, job, began, existing>>

\* deleteProduct; the row's variants go with it by ON DELETE CASCADE.
Delete(w) ==
  /\ pc[w] = "delete"
  /\ ~RowLocked(w, job[w].id)
  /\ \/ /\ \E p \in products : p.id = job[w].id
        /\ locked' = [locked EXCEPT ![w] = {job[w].id}]
        /\ Goto(w, "commit")
        /\ UNCHANGED outcome
     \/ /\ \A p \in products : p.id # job[w].id
        /\ GiveUp(w, "notFound")
        /\ UNCHANGED locked
  /\ UNCHANGED <<clock, products, nextID, job, began, existing, written>>

\* The transaction has ended and the request is answered.
EndTx(w) ==
  /\ job' = [job EXCEPT ![w] = NoJob]
  /\ outcome' = [outcome EXCEPT ![w] = "none"]
  /\ CloseTx(w)
  /\ existing' = [existing EXCEPT ![w] = {}]
  /\ began' = [began EXCEPT ![w] = 0]
  /\ Goto(w, "idle")
  /\ UNCHANGED <<clock, nextID>>

\* tx.Commit.  Its answer may be lost after the server has committed: the
\* request is answered then with an error that its caller cannot interpret.
Commit(w) ==
  /\ pc[w] = "commit"
  /\ products' = {p \in products : p.id \notin locked[w]} \cup written[w]
  /\ EndTx(w)

\* The deferred tx.Rollback, or an answer that needed no transaction.
Rollback(w) ==
  /\ pc[w] = "rollback"
  /\ EndTx(w)
  /\ UNCHANGED products

\* A statement or COMMIT fails: a lost connection, a done context, a product
\* that deleteProduct cannot delete because an image of its own refers to it.
Fail(w) ==
  /\ pc[w] \notin {"idle", "rollback"}
  /\ Abort(w, "internal")
  /\ UNCHANGED <<clock, products, nextID, job, began, existing>>

\* The statement of w waits for the end of the transaction of v.
WaitsFor(w, v) ==
  /\ v # w
  /\ \/ pc[w] \in {"select", "delete"} /\ job[w].id \in locked[v]
     \/ pc[w] = "update" /\ \E p \in existing[w] : p.id \in locked[v]
     \/ pc[w] \in Indexes /\ \E q \in written[w] : KeyHeld(v, pc[w], Key(pc[w], q))

Cycle(W) == W # {} /\ \A w \in W : (\E v \in W : WaitsFor(w, v)) /\ (\E v \in W : WaitsFor(v, w))

\* PostgreSQL finds a deadlock and ends one of its transactions (40P01), which the
\* service takes for an error like any other and does not repeat.
BreakDeadlock(w) ==
  /\ \E W \in SUBSET Writers : w \in W /\ Cycle(W)
  /\ Abort(w, "internal")
  /\ UNCHANGED <<clock, products, nextID, job, began, existing>>

Tick ==
  /\ clock < MaxTime
  /\ clock' = clock + 1
  /\ UNCHANGED <<products, nextID, job, pc, outcome, began, locked, existing, written>>

Statement(w) == Insert(w) \/ SelectForUpdate(w) \/ Update(w) \/ EnterIndex(w) \/ Delete(w)

Step(w) == Statement(w) \/ Commit(w) \/ Rollback(w)

Next ==
  \/ \E w \in Writers :
       \/ \E j \in Requests : Begin(w, j)
       \/ Step(w)
       \/ Fail(w) \/ BreakDeadlock(w)
  \/ Tick

Spec == Init /\ [][Next]_vars

\* A statement that can run is run, one that waits gets its turn (PostgreSQL
\* queues who waits for a transaction), and a deadlock is found.
Fairness ==
  \A w \in Writers :
    WF_vars(Step(w)) /\ SF_vars(Statement(w)) /\ WF_vars(BreakDeadlock(w))

FairSpec == Spec /\ Fairness

-----------------------------------------------------------------------------
\* The unique columns are unique, among the committed rows and after every
\* transaction that has written has committed, however their checks interleave.
UniqueProducts ==
  /\ \A p, q \in products : p.id = q.id \/ p.code = q.code \/ p.slug = q.slug => p = q
  /\ \A v, w \in Writers : v # w /\ pc[v] = "commit" /\ pc[w] = "commit" =>
       \A p \in written[v], q \in written[w] :
         p.id # q.id /\ p.code # q.code /\ p.slug # q.slug

\* A committed row becomes another one by the commit of an update of it, in the
\* fields that the request names.
EditMerges ==
  \A p \in products, q \in products' : p.id = q.id /\ p # q =>
    \E w \in Writers :
      /\ pc[w] = "commit" /\ pc'[w] = "idle"
      /\ job[w].op = "update" /\ job[w].id = p.id
      /\ q.code = Merge(job[w].code, p.code) /\ q.slug = Merge(job[w].slug, p.slug)

\* "A SELECT FOR UPDATE is used on the initial fetch to prevent races between
\* concurrent edits" (default_catalog_service.go:139): a committed edit changes
\* the fields its request names and no field that another edit has set, although
\* the UPDATE writes every column back.
NoClobberedEdit == [][EditMerges]_vars

\* Deadlocks need an edit: row locks alone, INSERTs among themselves, and
\* deletions never wait in a cycle.  In each one is an UPDATE which waits at an
\* index while another waits there for a key of the row that the UPDATE replaces,
\* as when two edits exchange their slugs, or one takes the code that an INSERT
\* has and gives up the slug that the INSERT wants.
DeadlocksAreEdits ==
  \A W \in SUBSET Writers : Cycle(W) =>
    \E v, w \in W :
      /\ job[v].op = "update" /\ pc[v] \in Indexes /\ pc[w] \in Indexes
      /\ \E p \in products, q \in written[w] :
           p.id \in locked[v] /\ Key(pc[w], p) = Key(pc[w], q)

\* Every request is answered, those in a deadlock too: nobody waits for a
\* transaction that has been left open.
EveryRequestAnswered == \A w \in Writers : pc[w] # "idle" ~> pc[w] = "idle"

-----------------------------------------------------------------------------
\* The transactions implement the table: a request takes effect at its COMMIT,
\* and is refused at the statement or check that fails.
Phase(w) == IF pc[w] = "idle" THEN "idle" ELSE "called"

Table == INSTANCE ProductTable
  WITH Ids <- 1..MaxProducts, phase <- [w \in Writers |-> Phase(w)]

\* Every behaviour of the transactions is one of the table: each request acts at
\* once, on the row as it is then, or is refused for a reason that held.
ImplementsTable == Table!Spec
=============================================================================
