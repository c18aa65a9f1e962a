------------------------ MODULE CatalogStoreProofs ------------------------
(***************************************************************************)
(* Proofs about CatalogStore, for any number of writers and products: its  *)
(* invariant, what follows from it, and that it implements ProductTable.   *)
(***************************************************************************)
EXTENDS CatalogStore, TLAPS

\* What w has written and not committed is a row with a new id, or an edit of
\* the committed row that w has locked.
Effect(w, q) ==
  /\ q.id < nextID
  /\ \/ \A p \in products : p.id # q.id
     \/ /\ job[w] \in UpdateJob /\ job[w].id = q.id
        /\ q.id \in locked[w]
        /\ \E p \in products :
             /\ p.id = q.id
             /\ q.code = Merge(job[w].code, p.code) /\ q.slug = Merge(job[w].slug, p.slug)

\* An index that q of w is in has it for no other committed row.
Alone(w, q) ==
  \A k \in Indexes : Entered(w, k) =>
    \A p \in products : Key(k, p) = Key(k, q) => p.id = q.id

\* What a writer serves, has read, locked and written fits where it stands.
JobFits(w) ==
  /\ pc[w] = "insert" => job[w] \in CreateJob /\ Valid(job[w])
  /\ pc[w] \in {"select", "update"} => job[w] \in UpdateJob
  /\ pc[w] = "delete" => job[w] \in DeleteJob
  /\ pc[w] \in Indexes => job[w] \in CreateJob \cup UpdateJob

ReadFits(w) ==
  pc[w] = "update" =>
    \E p \in products : existing[w] = {p} /\ p.id = job[w].id /\ locked[w] = {p.id}

LocksFit(w) ==
  /\ locked[w] # {} => pc[w] \in {"update", "commit", "rollback"} \cup Indexes
  /\ locked[w] # {} => job[w] \notin CreateJob
  /\ \A i \in locked[w] : \E p \in products : p.id = i

WritesFit(w) ==
  /\ written[w] # {} => pc[w] \in {"commit"} \cup Indexes
  /\ \A q \in written[w] : Effect(w, q) /\ Alone(w, q) /\ written[w] = {q}

FitsWell(w) == JobFits(w) /\ ReadFits(w) /\ LocksFit(w) /\ WritesFit(w)
Fits == \A w \in Writers : FitsWell(w)

\* No row is locked by two transactions.
Exclusive == \A v, w \in Writers : v # w => locked[v] \cap locked[w] = {}

\* Nor are two rows with the same key being written, once both are in its index.
Apart(v, p, w, q) ==
  /\ p.id # q.id
  /\ \A k \in Indexes : Entered(v, k) /\ Entered(w, k) => Key(k, p) # Key(k, q)
Distinct ==
  \A v, w \in Writers : v # w => \A p \in written[v], q \in written[w] : Apart(v, p, w, q)

KnownIds == \A p \in products : p.id < nextID

UniqueRows ==
  \A p, q \in products : p.id = q.id \/ p.code = q.code \/ p.slug = q.slug => p = q

Inv == TypeOK /\ Fits /\ Exclusive /\ Distinct /\ KnownIds /\ UniqueRows

LEMMA InitInv == Init => Inv
  BY StoreAssumption
  DEF Init, Inv, TypeOK, Fits, FitsWell, JobFits, ReadFits, LocksFit, WritesFit, Exclusive,
      Distinct, KnownIds, UniqueRows, Locations, Indexes, Outcomes

-----------------------------------------------------------------------------
\* A step of w that commits nothing leaves what it says of the others true.
LEMMA OthersFit ==
  ASSUME Inv, NEW w \in Writers,
         products' = products, nextID' \in Nat, nextID <= nextID',
         \A v \in Writers \ {w} :
           /\ pc'[v] = pc[v] /\ job'[v] = job[v] /\ existing'[v] = existing[v]
           /\ locked'[v] = locked[v] /\ written'[v] = written[v]
  PROVE  \A v \in Writers \ {w} : FitsWell(v)'
<1> SUFFICES ASSUME NEW v \in Writers \ {w}
             PROVE  FitsWell(v)'
  OBVIOUS
<1>1. JobFits(v) /\ ReadFits(v) /\ LocksFit(v) /\ WritesFit(v)
  BY DEF Inv, Fits, FitsWell
<1>2. JobFits(v)' /\ ReadFits(v)' /\ LocksFit(v)'
  BY <1>1 DEF JobFits, ReadFits, LocksFit, Valid
<1>3. ASSUME NEW q \in written[v]
      PROVE  Effect(v, q)' /\ Alone(v, q)'
  <2>1. Effect(v, q) /\ Alone(v, q) /\ q.id \in Nat /\ nextID \in Nat
    BY <1>1 DEF WritesFit, Inv, TypeOK, Product
  <2>. QED  BY <2>1 DEF Effect, Alone, Entered, Key
<1>. QED  BY <1>1, <1>2, <1>3 DEF WritesFit, FitsWell

\* What the others have written is still apart, and from what w has written if
\* that has not changed and is in no further index.
LEMMA StillDistinct ==
  ASSUME Inv, NEW w \in Writers,
         \A v \in Writers \ {w} : pc'[v] = pc[v] /\ written'[v] = written[v],
         \/ written'[w] = {}
         \/ written'[w] = written[w] /\ \A k \in Indexes : Entered(w, k)' => Entered(w, k)
  PROVE  Distinct'
<1> SUFFICES ASSUME NEW u \in Writers, NEW v \in Writers, u # v,
                    NEW p \in written'[u], NEW q \in written'[v]
             PROVE  Apart(u, p, v, q)'
  BY DEF Distinct
<1>1. p \in written[u] /\ q \in written[v]
  OBVIOUS
<1>2. \A x \in Writers, k \in Indexes : Entered(x, k)' /\ (x = u \/ x = v) => Entered(x, k)
  BY DEF Entered
<1>3. Apart(u, p, v, q)
  BY <1>1 DEF Inv, Distinct
<1>. QED  BY <1>2, <1>3 DEF Apart, Key

LEMMA BeginInv ==
  ASSUME Inv, NEW w \in Writers, NEW j \in Job, Begin(w, j)
  PROVE  Inv'
<1> USE DEF Inv, Begin, Goto, GiveUp
<1>1. TypeOK'
  BY DEF TypeOK, Locations, Outcomes, Job, CreateJob, UpdateJob, DeleteJob
<1>2. Exclusive' /\ KnownIds' /\ UniqueRows'
  BY DEF Exclusive, KnownIds, UniqueRows
<1>3. \A v \in Writers \ {w} : FitsWell(v)'
  BY OthersFit DEF TypeOK
<1>4. locked[w] = {} /\ written[w] = {}
  BY DEF Fits, FitsWell, LocksFit, WritesFit, Indexes
<1>5. FitsWell(w)'
  BY <1>4 DEF FitsWell, JobFits, ReadFits, LocksFit, WritesFit, TypeOK, Job, CreateJob, UpdateJob,
              DeleteJob, Indexes, Valid
<1>6. Distinct'
  BY <1>4, StillDistinct DEF TypeOK
<1>. QED  BY <1>1, <1>2, <1>3, <1>5, <1>6 DEF Fits

\* A transaction that the server undoes.
LEMMA AbortInv ==
  ASSUME Inv, NEW w \in Writers, NEW o \in Outcomes, Abort(w, o),
         UNCHANGED <<clock, products, nextID, job, began, existing>>
  PROVE  Inv'
<1> USE DEF Inv, Abort, GiveUp, Goto, CloseTx
<1>1. TypeOK'
  BY DEF TypeOK, Locations
<1>2. Exclusive' /\ KnownIds' /\ UniqueRows'
  BY DEF Exclusive, KnownIds, UniqueRows, TypeOK
<1>3. \A v \in Writers \ {w} : FitsWell(v)'
  BY OthersFit DEF TypeOK
<1>4. FitsWell(w)'
  BY DEF FitsWell, JobFits, ReadFits, LocksFit, WritesFit, TypeOK, Indexes
<1>5. Distinct'
  BY StillDistinct DEF TypeOK
<1>. QED  BY <1>1, <1>2, <1>3, <1>4, <1>5 DEF Fits

LEMMA InsertInv ==
  ASSUME Inv, NEW w \in Writers, Insert(w)
  PROVE  Inv'
<1>1. CASE nextID > MaxProducts
  <2>1. Abort(w, "internal") /\ UNCHANGED <<clock, products, nextID, job, began, existing>>
    BY <1>1, StoreAssumption DEF Insert, Inv, TypeOK
  <2>. QED  BY <2>1, AbortInv DEF Outcomes
<1>2. CASE ~(nextID > MaxProducts)
  <2> USE DEF Inv
  <2> DEFINE new == [id |-> nextID, code |-> job[w].code, slug |-> job[w].slug,
                     updatedAt |-> began[w]]
  <2>0. PICK r : r = new
    OBVIOUS
  <2>1. /\ pc[w] = "insert" /\ nextID' = nextID + 1 /\ written' = [written EXCEPT ![w] = {r}]
        /\ pc' = [pc EXCEPT ![w] = "code"]
        /\ UNCHANGED <<clock, products, job, began, existing, outcome, locked>>
    BY <1>2, <2>0 DEF Insert, Goto
  <2>2. job[w] \in CreateJob /\ Valid(job[w]) /\ locked[w] = {}
    BY <2>1 DEF Fits, FitsWell, JobFits, LocksFit, Indexes
  <2>3. r \in Product /\ r.id = nextID /\ nextID \in Nat /\ nextID' > nextID /\ nextID' \in Nat
    BY <1>2, <2>0, <2>1, <2>2, StoreAssumption DEF TypeOK, Product, CreateJob, Valid
  <2>4. TypeOK'
    BY <1>2, <2>1, <2>3, StoreAssumption DEF TypeOK, Locations, Indexes
  <2>5. Exclusive' /\ KnownIds' /\ UniqueRows'
    BY <2>1, <2>3 DEF Exclusive, KnownIds, UniqueRows, TypeOK, Product
  <2>6. \A v \in Writers \ {w} : FitsWell(v)'
    <3>1. nextID <= nextID'
      BY <2>3
    <3>. QED  BY <2>1, <2>3, <3>1, OthersFit DEF TypeOK
  <2>7. FitsWell(w)'
    <3>1. Effect(w, r)'
      <4>1. \A p \in products : p.id # r.id
        BY <2>3 DEF KnownIds, TypeOK, Product
      <4>. QED  BY <2>1, <2>3, <4>1 DEF Effect
    <3>2. Alone(w, r)'
      BY <2>1 DEF Alone, Entered, TypeOK, Indexes
    <3>3. WritesFit(w)'
      BY <2>1, <3>1, <3>2 DEF WritesFit, TypeOK, Indexes
    <3>4. JobFits(w)' /\ ReadFits(w)' /\ LocksFit(w)'
      BY <2>1, <2>2 DEF JobFits, ReadFits, LocksFit, TypeOK, Indexes
    <3>. QED  BY <3>3, <3>4 DEF FitsWell
  <2>8. Distinct'
    <3>1. ASSUME NEW v \in Writers \ {w}, NEW q \in written[v] PROVE q.id # r.id
      BY <2>3, <3>1 DEF Fits, FitsWell, WritesFit, Effect, TypeOK, Product
    <3>2. \A k \in Indexes : ~Entered(w, k)'
      BY <2>1 DEF Entered, Indexes, TypeOK
    <3>3. ASSUME NEW u \in Writers, NEW v \in Writers, u # v,
                 NEW p \in written'[u], NEW q \in written'[v]
          PROVE  Apart(u, p, v, q)'
      <4>1. CASE u = w \/ v = w
        BY <2>1, <3>1, <3>2, <3>3, <4>1 DEF Apart, TypeOK
      <4>2. CASE u # w /\ v # w
        <5>1. p \in written[u] /\ q \in written[v] /\ pc'[u] = pc[u] /\ pc'[v] = pc[v]
          BY <2>1, <3>3, <4>2 DEF TypeOK
        <5>2. Apart(u, p, v, q)
          BY <3>3, <5>1 DEF Distinct
        <5>. QED  BY <5>1, <5>2 DEF Apart, Entered, Key
      <4>. QED  BY <4>1, <4>2
    <3>. QED  BY <3>3 DEF Distinct
  <2>. QED  BY <2>4, <2>5, <2>6, <2>7, <2>8 DEF Fits
<1>. QED  BY <1>1, <1>2

LEMMA SelectForUpdateInv ==
  ASSUME Inv, NEW w \in Writers, SelectForUpdate(w)
  PROVE  Inv'
<1> USE DEF Inv, SelectForUpdate, Goto, GiveUp
<1>1. job[w] \in UpdateJob /\ written[w] = {} /\ locked[w] = {}
  BY DEF Fits, FitsWell, JobFits, LocksFit, WritesFit, Indexes
<1>2. TypeOK'
  BY DEF TypeOK, Locations, Outcomes, Product
<1>3. KnownIds' /\ UniqueRows'
  BY DEF KnownIds, UniqueRows
<1>4. \A v \in Writers \ {w} : FitsWell(v)'
  BY OthersFit DEF TypeOK
<1>5. Exclusive'
  BY <1>1 DEF Exclusive, RowLocked, TypeOK
<1>6. job[w] \notin CreateJob
  BY <1>1 DEF UpdateJob, CreateJob
<1>7. FitsWell(w)'
  BY <1>1, <1>6 DEF FitsWell, JobFits, ReadFits, LocksFit, WritesFit, TypeOK, Indexes
<1>8. Distinct'
  BY <1>1, StillDistinct DEF TypeOK
<1>. QED  BY <1>2, <1>3, <1>4, <1>5, <1>7, <1>8 DEF Fits

LEMMA UpdateInv ==
  ASSUME Inv, NEW w \in Writers, Update(w)
  PROVE  Inv'
<1> USE DEF Inv, Goto, GiveUp
<1>1. /\ job[w] \in UpdateJob /\ written[w] = {} /\ pc[w] = "update"
      /\ UNCHANGED <<clock, products, nextID, job, began, existing>>
  BY DEF Update, Fits, FitsWell, JobFits, LocksFit, WritesFit, Indexes
<1>2. PICK p \in products : existing[w] = {p} /\ p.id = job[w].id /\ locked[w] = {p.id}
  BY <1>1 DEF Fits, FitsWell, ReadFits
<1>3. CASE /\ GiveUp(w, outcome'[w]) /\ outcome'[w] \in Outcomes
           /\ UNCHANGED <<locked, written>>
  <2>1. TypeOK'
    BY <1>1, <1>3 DEF TypeOK, Locations
  <2>2. Exclusive' /\ KnownIds' /\ UniqueRows'
    BY <1>1, <1>3 DEF Exclusive, KnownIds, UniqueRows
  <2>3. \A v \in Writers \ {w} : FitsWell(v)'
    BY <1>1, <1>3, OthersFit DEF TypeOK
  <2>4. FitsWell(w)'
    BY <1>1, <1>2, <1>3
    DEF Fits, FitsWell, JobFits, ReadFits, LocksFit, WritesFit, TypeOK, Indexes
  <2>5. Distinct'
    BY <1>1, <1>3, StillDistinct DEF TypeOK
  <2>. QED  BY <2>1, <2>2, <2>3, <2>4, <2>5 DEF Fits
<1>4. CASE /\ Valid(Merged(w, p))
           /\ written' = [written EXCEPT ![w] = {[Merged(w, p) EXCEPT !.updatedAt = began[w]]}]
           /\ locked' = [locked EXCEPT ![w] = {p.id}]
           /\ Goto(w, "code") /\ UNCHANGED outcome
  <2>0. PICK r : r = [Merged(w, p) EXCEPT !.updatedAt = began[w]]
    OBVIOUS
  <2>1. /\ r \in Product /\ r.id = p.id
        /\ r.code = Merge(job[w].code, p.code) /\ r.slug = Merge(job[w].slug, p.slug)
    BY <1>1, <1>4, <2>0, StoreAssumption DEF TypeOK, Product, Merged, Merge, UpdateJob, Valid
  <2>2. /\ written' = [written EXCEPT ![w] = {r}] /\ pc' = [pc EXCEPT ![w] = "code"]
        /\ locked' = locked
    BY <1>2, <1>4, <2>0 DEF TypeOK
  <2>3. TypeOK'
    BY <1>1, <1>4, <2>1, <2>2 DEF TypeOK, Locations, Indexes
  <2>4. Effect(w, r)'
    <3>1. p.id < nextID
      BY DEF KnownIds
    <3>. QED  BY <1>1, <1>2, <2>1, <2>2, <3>1 DEF Effect
  <2>5. \A v \in Writers \ {w} : FitsWell(v)'
    BY <1>1, <2>2, OthersFit DEF TypeOK
  <2>6. \A k \in Indexes : ~Entered(w, k)'
    BY <2>2 DEF Entered, Indexes, TypeOK
  <2>7. FitsWell(w)'
    <3>1. WritesFit(w)'
      BY <2>2, <2>4, <2>6 DEF WritesFit, Alone, TypeOK, Indexes
    <3>2. job[w] \notin CreateJob
      BY <1>1 DEF UpdateJob, CreateJob
    <3>3. JobFits(w)' /\ ReadFits(w)' /\ LocksFit(w)'
      BY <1>1, <1>2, <2>2, <3>2 DEF JobFits, ReadFits, LocksFit, TypeOK, Indexes
    <3>. QED  BY <3>1, <3>3 DEF FitsWell
  <2>8. ASSUME NEW v \in Writers \ {w}, NEW q \in written[v] PROVE q.id # r.id
    <3>1. Effect(v, q)
      BY DEF Fits, FitsWell, WritesFit
    <3>. QED  BY <1>2, <2>1, <3>1 DEF Effect, Exclusive
  <2>9. Distinct'
    <3>1. ASSUME NEW u \in Writers, NEW v \in Writers, u # v,
                 NEW x \in written'[u], NEW y \in written'[v]
          PROVE  Apart(u, x, v, y)'
      <4>1. CASE u = w \/ v = w
        BY <2>2, <2>6, <2>8, <3>1, <4>1 DEF Apart, TypeOK
      <4>2. CASE u # w /\ v # w
        <5>1. x \in written[u] /\ y \in written[v] /\ pc'[u] = pc[u] /\ pc'[v] = pc[v]
          BY <2>2, <3>1, <4>2 DEF TypeOK
        <5>2. Apart(u, x, v, y)
          BY <3>1, <5>1 DEF Distinct
        <5>. QED  BY <5>1, <5>2 DEF Apart, Entered, Key
      <4>. QED  BY <4>1, <4>2
    <3>. QED  BY <3>1 DEF Distinct
  <2>10. Exclusive' /\ KnownIds' /\ UniqueRows'
    BY <1>1, <2>2 DEF Exclusive, KnownIds, UniqueRows, TypeOK
  <2>. QED  BY <2>3, <2>5, <2>7, <2>9, <2>10 DEF Fits
<1>5. outcome \in [Writers -> Outcomes] /\ {"notFound", "invalid"} \subseteq Outcomes
  BY DEF TypeOK, Outcomes
<1>. QED  BY <1>2, <1>3, <1>4, <1>5 DEF Update

\* The row enters an index when nobody else's row there has its key, or may yet.
LEMMA EnterIndexInv ==
  ASSUME Inv, NEW w \in Writers, EnterIndex(w)
  PROVE  Inv'
<1>0. PICK q \in written[w] :
        /\ \A v \in Writers \ {w} : ~KeyHeld(v, pc[w], Key(pc[w], q))
        /\ IF KeyTaken(pc[w], q)
           THEN Abort(w, "conflict")
           ELSE /\ Goto(w, IF pc[w] = "code" THEN "slug" ELSE "commit")
                /\ UNCHANGED <<outcome, locked, written>>
  BY DEF EnterIndex
<1>1. pc[w] \in Indexes /\ UNCHANGED <<clock, products, nextID, job, began, existing>>
  BY DEF EnterIndex
<1>2. CASE KeyTaken(pc[w], q)
  BY <1>0, <1>1, <1>2, AbortInv DEF Outcomes
<1>3. CASE ~KeyTaken(pc[w], q)
  <2> USE DEF Inv
  <2> DEFINE to == IF pc[w] = "code" THEN "slug" ELSE "commit"
  <2>1. pc' = [pc EXCEPT ![w] = to] /\ UNCHANGED <<outcome, locked, written>>
    BY <1>0, <1>3 DEF Goto
  <2>2. TypeOK'
    BY <1>1, <2>1 DEF TypeOK, Locations, Indexes
  <2>3. Exclusive' /\ KnownIds' /\ UniqueRows'
    BY <1>1, <2>1 DEF Exclusive, KnownIds, UniqueRows
  <2>4. \A v \in Writers \ {w} : FitsWell(v)'
    BY <1>1, <2>1, OthersFit DEF TypeOK
  <2>5. JobFits(w) /\ LocksFit(w) /\ WritesFit(w) /\ written[w] = {q} /\ Effect(w, q) /\ Alone(w, q)
    BY DEF Fits, FitsWell, WritesFit
  <2>6. \A k \in Indexes : Entered(w, k)' <=> Entered(w, k) \/ k = pc[w]
    BY <1>1, <2>1 DEF Entered, Indexes, TypeOK
  <2>7. FitsWell(w)'
    <3>1. Effect(w, q)'
      BY <1>1, <2>1, <2>5 DEF Effect
    <3>2. Alone(w, q)'
      BY <1>1, <1>3, <2>5, <2>6 DEF Alone, KeyTaken, Key
    <3>3. WritesFit(w)'
      BY <1>1, <2>1, <2>5, <3>1, <3>2 DEF WritesFit, TypeOK, Indexes
    <3>4. JobFits(w)' /\ ReadFits(w)' /\ LocksFit(w)'
      BY <1>1, <2>1, <2>5 DEF JobFits, ReadFits, LocksFit, TypeOK, Indexes
    <3>. QED  BY <3>3, <3>4 DEF FitsWell
  <2>8. Distinct'
    <3>1. ASSUME NEW v \in Writers \ {w}, NEW x \in written[v], Entered(v, pc[w])
          PROVE  Key(pc[w], x) # Key(pc[w], q)
      BY <1>0, <3>1 DEF KeyHeld
    <3>2. ASSUME NEW u \in Writers, NEW v \in Writers, u # v,
                 NEW x \in written'[u], NEW y \in written'[v]
          PROVE  Apart(u, x, v, y)'
      <4>1. x \in written[u] /\ y \in written[v] /\ Apart(u, x, v, y)
        BY <2>1, <3>2 DEF Distinct
      <4>2. ASSUME NEW k \in Indexes, Entered(u, k)', Entered(v, k)'
            PROVE  Key(k, x) # Key(k, y)
        <5>1. \A z \in Writers \ {w} : Entered(z, k)' <=> Entered(z, k)
          BY <2>1 DEF Entered, TypeOK
        <5>2. CASE k # pc[w]
          BY <2>6, <3>2, <4>1, <4>2, <5>1, <5>2 DEF Apart
        <5>3. CASE k = pc[w] /\ u = w
          BY <2>5, <3>1, <3>2, <4>1, <4>2, <5>1, <5>3
        <5>4. CASE k = pc[w] /\ v = w
          BY <2>5, <3>1, <3>2, <4>1, <4>2, <5>1, <5>4
        <5>5. CASE u # w /\ v # w
          BY <4>1, <4>2, <5>1, <5>5 DEF Apart
        <5>. QED  BY <5>2, <5>3, <5>4, <5>5
      <4>. QED  BY <4>1, <4>2 DEF Apart, Key
    <3>. QED  BY <3>2 DEF Distinct
  <2>. QED  BY <2>2, <2>3, <2>4, <2>7, <2>8 DEF Fits
<1>. QED  BY <1>2, <1>3

LEMMA DeleteInv ==
  ASSUME Inv, NEW w \in Writers, Delete(w)
  PROVE  Inv'
<1> USE DEF Inv, Delete, Goto, GiveUp
<1>1. job[w] \in DeleteJob /\ written[w] = {} /\ locked[w] = {} /\ job[w] \notin CreateJob
  BY DEF Fits, FitsWell, JobFits, LocksFit, WritesFit, Indexes, DeleteJob, CreateJob
<1>2. TypeOK'
  BY <1>1 DEF TypeOK, Locations, Outcomes, DeleteJob
<1>3. KnownIds' /\ UniqueRows'
  BY DEF KnownIds, UniqueRows
<1>4. \A v \in Writers \ {w} : FitsWell(v)'
  BY OthersFit DEF TypeOK
<1>5. Exclusive'
  BY <1>1 DEF Exclusive, RowLocked, TypeOK
<1>6. FitsWell(w)'
  BY <1>1 DEF FitsWell, JobFits, ReadFits, LocksFit, WritesFit, TypeOK, Indexes
<1>7. Distinct'
  BY <1>1, StillDistinct DEF TypeOK
<1>. QED  BY <1>2, <1>3, <1>4, <1>5, <1>6, <1>7 DEF Fits

LEMMA TickInv ==
  ASSUME Inv, Tick
  PROVE  Inv'
<1> USE DEF Inv, Tick
<1>1. TypeOK'
  BY StoreAssumption DEF TypeOK
<1>2. Exclusive' /\ KnownIds' /\ UniqueRows'
  BY DEF Exclusive, KnownIds, UniqueRows
<1>3. Fits'
  BY DEF Fits, FitsWell, JobFits, ReadFits, LocksFit, WritesFit, Effect, Alone, Entered, Key, Valid
<1>4. Distinct'
  BY DEF Distinct, Apart, Entered, Key
<1>. QED  BY <1>1, <1>2, <1>3, <1>4

LEMMA RollbackInv ==
  ASSUME Inv, NEW w \in Writers, Rollback(w)
  PROVE  Inv'
<1> USE DEF Inv, Rollback, EndTx, CloseTx, Goto
<1>1. TypeOK'
  BY StoreAssumption DEF TypeOK, Locations, Outcomes
<1>2. Exclusive' /\ KnownIds' /\ UniqueRows'
  BY DEF Exclusive, KnownIds, UniqueRows, TypeOK
<1>3. \A v \in Writers \ {w} : FitsWell(v)'
  BY OthersFit DEF TypeOK
<1>4. FitsWell(w)'
  BY DEF FitsWell, JobFits, ReadFits, LocksFit, WritesFit, TypeOK, Indexes
<1>5. Distinct'
  BY StillDistinct DEF TypeOK
<1>. QED  BY <1>1, <1>2, <1>3, <1>4, <1>5 DEF Fits

\* A commit.  What another transaction has written keeps its effect: it concerns
\* another row, and in an index that it is in it has a key that no row of this
\* transaction has, which is in both.
LEMMA CommitInv ==
  ASSUME Inv, NEW w \in Writers, Commit(w)
  PROVE  Inv'
<1> USE DEF Inv, Commit, EndTx, CloseTx, Goto
<1>1. TypeOK'
  BY StoreAssumption DEF TypeOK, Locations, Outcomes
<1>2. WritesFit(w) /\ LocksFit(w) /\ locked[w] \subseteq Nat /\ nextID \in Nat
  BY DEF Fits, FitsWell, TypeOK
<1>3. KnownIds'
  BY <1>2 DEF KnownIds, WritesFit, Effect
<1>4. Exclusive'
  BY DEF Exclusive, TypeOK
<1>5. \A k \in Indexes : Entered(w, k)
  BY DEF Entered
<1>6. UniqueRows'
  <2>1. ASSUME NEW p \in products', NEW q \in products',
               p.id = q.id \/ p.code = q.code \/ p.slug = q.slug
        PROVE  p = q
    <3>1. CASE p \in written[w] /\ q \in written[w]
      BY <1>2, <3>1 DEF WritesFit
    <3>2. CASE p \notin written[w] /\ q \notin written[w]
      BY <2>1, <3>2 DEF UniqueRows
    <3>3. ASSUME NEW a \in written[w], NEW b \in products, b.id \notin locked[w]
          PROVE  a.id # b.id /\ a.code # b.code /\ a.slug # b.slug
      <4>1. Effect(w, a) /\ Alone(w, a)
        BY <1>2 DEF WritesFit
      <4>2. a.id # b.id
        BY <3>3, <4>1 DEF Effect
      <4>3. \A k \in Indexes : Key(k, b) # Key(k, a)
        BY <1>5, <4>1, <4>2 DEF Alone
      <4>. QED  BY <4>2, <4>3 DEF Key, Indexes
    <3>. QED  BY <2>1, <3>1, <3>2, <3>3
  <2>. QED  BY <2>1 DEF UniqueRows
<1>7. ASSUME NEW v \in Writers \ {w}
      PROVE  FitsWell(v)'
  <2>1. /\ JobFits(v) /\ ReadFits(v) /\ LocksFit(v) /\ WritesFit(v)
        /\ locked[v] \cap locked[w] = {}
    BY DEF Fits, FitsWell, Exclusive
  <2>2. /\ job'[v] = job[v] /\ pc'[v] = pc[v] /\ existing'[v] = existing[v]
        /\ locked'[v] = locked[v] /\ written'[v] = written[v]
    BY DEF TypeOK
  <2>3. \A p \in products : p.id \in locked[v] => p \in products'
    BY <2>1
  <2>4. JobFits(v)' /\ LocksFit(v)'
    BY <2>1, <2>2, <2>3 DEF JobFits, LocksFit, Valid
  <2>5. ReadFits(v)'
    BY <2>1, <2>2, <2>3 DEF ReadFits
  <2>6. ASSUME NEW q \in written[v]
        PROVE  Effect(v, q)' /\ Alone(v, q)'
    <3>1. Effect(v, q) /\ Alone(v, q) /\ q.id < nextID
      BY <2>1 DEF WritesFit, Effect
    <3>2. \A r \in written[w] : Apart(w, r, v, q)
      BY DEF Distinct
    <3>3. Alone(v, q)'
      <4>1. ASSUME NEW k \in Indexes, Entered(v, k), NEW p \in products', Key(k, p) = Key(k, q)
            PROVE  p.id = q.id
        <5>1. CASE p \in products
          BY <3>1, <4>1, <5>1 DEF Alone
        <5>2. CASE p \in written[w]
          BY <1>5, <3>2, <4>1, <5>2 DEF Apart
        <5>. QED  BY <5>1, <5>2
      <4>. QED  BY <2>2, <4>1 DEF Alone, Entered, Key
    <3>4. CASE \A p \in products : p.id # q.id
      BY <2>2, <3>1, <3>2, <3>3, <3>4 DEF Effect, Apart
    <3>5. CASE \E p \in products : p.id = q.id
      BY <2>2, <2>3, <3>1, <3>3, <3>5 DEF Effect
    <3>. QED  BY <3>4, <3>5
  <2>. QED  BY <2>1, <2>2, <2>4, <2>5, <2>6 DEF WritesFit, FitsWell
<1>8. FitsWell(w)'
  BY DEF FitsWell, JobFits, ReadFits, LocksFit, WritesFit, TypeOK, Indexes
<1>9. Distinct'
  BY StillDistinct DEF TypeOK
<1>. QED  BY <1>1, <1>3, <1>4, <1>6, <1>7, <1>8, <1>9 DEF Fits

LEMMA NextInv == Inv /\ [Next]_vars => Inv'
<1> SUFFICES ASSUME Inv, [Next]_vars PROVE Inv'
  OBVIOUS
<1>1. CASE UNCHANGED vars
  BY <1>1 DEF vars, Inv, TypeOK, Fits, FitsWell, JobFits, ReadFits, LocksFit, WritesFit, Effect,
              Alone, Entered, Key, Valid, Exclusive, Distinct, Apart, KnownIds, UniqueRows
<1>2. ASSUME NEW w \in Writers, Fail(w) \/ BreakDeadlock(w) PROVE Inv'
  BY <1>2, AbortInv DEF Fail, BreakDeadlock, Outcomes
<1>. QED  BY <1>1, <1>2, StoreAssumption, BeginInv, InsertInv, SelectForUpdateInv, UpdateInv,
             EnterIndexInv, DeleteInv, CommitInv, RollbackInv, TickInv DEF Next, Step, Statement

\* The strengthening is an invariant of the product transactions.
THEOREM InvCorrect == Spec => []Inv
  BY InitInv, NextInv, PTL DEF Spec

\* Rows, jobs, locks and buffered writes keep their types, and the id sequence
\* its range, with any number of writers.
THEOREM TypeCorrect == Spec => []TypeOK
<1>1. Inv => TypeOK
  BY DEF Inv
<1>. QED  BY <1>1, InvCorrect, PTL

\* Ids, codes and slugs are unique among the committed rows, and no two open
\* transactions of createProduct and updateProduct can commit the same one,
\* however their statements interleave.
THEOREM UniqueProductsCorrect == Spec => []UniqueProducts
<1>1. ASSUME Inv PROVE UniqueProducts
  <2>1. ASSUME NEW v \in Writers, NEW w \in Writers, v # w, pc[v] = "commit", pc[w] = "commit",
               NEW p \in written[v], NEW q \in written[w]
        PROVE  p.id # q.id /\ p.code # q.code /\ p.slug # q.slug
    <3>1. Apart(v, p, w, q)
      BY <1>1, <2>1 DEF Inv, Distinct
    <3>2. \A k \in Indexes : Key(k, p) # Key(k, q)
      BY <2>1, <3>1 DEF Apart, Entered
    <3>. QED  BY <3>1, <3>2 DEF Apart, Key, Indexes
  <2>. QED  BY <1>1, <2>1 DEF Inv, UniqueRows, UniqueProducts
<1>. QED  BY <1>1, InvCorrect, PTL

-----------------------------------------------------------------------------
\* Who is waited for holds a row, or has one in an index: it is about to UPDATE,
\* waits at an index itself, or is about to end.
LEMMA WaitRank ==
  ASSUME Inv, NEW v \in Writers, NEW w \in Writers, WaitsFor(w, v)
  PROVE  /\ pc[w] \in {"select", "delete"} \cup Indexes
         /\ pc[v] \in {"update", "commit", "rollback"} \cup Indexes
<1>1. FitsWell(v) /\ FitsWell(w)
  BY DEF Inv, Fits
<1>2. locked[v] # {} \/ written[v] # {} => pc[v] \in {"update", "commit", "rollback"} \cup Indexes
  BY <1>1 DEF FitsWell, LocksFit, WritesFit
<1>3. CASE pc[w] \in {"select", "delete"} /\ job[w].id \in locked[v]
  BY <1>2, <1>3
<1>4. CASE pc[w] = "update" /\ \E p \in existing[w] : p.id \in locked[v]
  BY <1>1, <1>4 DEF FitsWell, ReadFits, Inv, Exclusive, WaitsFor
<1>5. CASE pc[w] \in Indexes /\ \E q \in written[w] : KeyHeld(v, pc[w], Key(pc[w], q))
  BY <1>2, <1>5 DEF KeyHeld
<1>. QED  BY <1>3, <1>4, <1>5 DEF WaitsFor

\* v waits at an index, and w there for a key of the row that v replaces.
EditKeeps(v, w) ==
  /\ job[v].op = "update" /\ pc[v] \in Indexes /\ pc[w] \in Indexes
  /\ \E p \in products, q \in written[w] : p.id \in locked[v] /\ Key(pc[w], p) = Key(pc[w], q)

\* Among those who wait at an index, one waits for an edit to give up the key of
\* the row it replaces, or waits for the code of another which waits for a slug.
LEMMA IndexWaits ==
  ASSUME Inv, NEW v \in Writers, NEW w \in Writers, WaitsFor(w, v),
         pc[v] \in Indexes
  PROVE  EditKeeps(v, w) \/ pc[w] \in {"select", "delete"} \/ (pc[w] = "code" /\ pc[v] = "slug")
<1>1. CASE pc[w] \in {"select", "delete"}
  BY <1>1
<1>2. CASE pc[w] \in Indexes
  <2>1. PICK q \in written[w] : KeyHeld(v, pc[w], Key(pc[w], q))
    BY <1>2 DEF WaitsFor, Indexes
  <2>2. CASE Entered(v, pc[w])
    BY <2>2 DEF Entered, Indexes
  <2>3. CASE \E p \in products : p.id \in locked[v] /\ Key(pc[w], p) = Key(pc[w], q)
    <3>1. job[v] \in UpdateJob
      BY <2>3 DEF Inv, Fits, FitsWell, JobFits, LocksFit
    <3>. QED  BY <1>2, <2>3, <3>1 DEF EditKeeps, UpdateJob
  <2>. QED  BY <2>1, <2>2, <2>3 DEF KeyHeld
<1>. QED  BY <1>1, <1>2, WaitRank

\* In every deadlock an edit waits at an index while another waits there for a key
\* that the edit gives up: whoever is waited for and waits itself stands at an
\* index, and but for edits those at the code's wait only for those at the slug's,
\* and these only for transactions that end.
THEOREM DeadlocksAreEditsCorrect == Spec => []DeadlocksAreEdits
<1>1. ASSUME Inv PROVE DeadlocksAreEdits
  <2>1. ASSUME NEW W \in SUBSET Writers, Cycle(W) PROVE \E v, w \in W : EditKeeps(v, w)
    <3>1. \A w \in W : \E v \in W : WaitsFor(w, v)
      BY <2>1 DEF Cycle
    <3>2. PICK t \in W, u \in W, v \in W, w \in W :
            WaitsFor(t, u) /\ WaitsFor(u, v) /\ WaitsFor(v, w)
      BY <2>1, <3>1 DEF Cycle
    <3>3. PICK x \in W : WaitsFor(w, x)
      BY <3>1
    <3>4. pc[u] \in Indexes /\ pc[v] \in Indexes /\ pc[w] \in Indexes
      BY <1>1, <3>2, <3>3, WaitRank DEF Indexes
    <3>5. EditKeeps(v, u) \/ (pc[u] = "code" /\ pc[v] = "slug")
      BY <1>1, <3>2, <3>4, IndexWaits DEF Indexes
    <3>6. EditKeeps(w, v) \/ (pc[v] = "code" /\ pc[w] = "slug")
      BY <1>1, <3>2, <3>4, IndexWaits DEF Indexes
    <3>. QED  BY <3>5, <3>6
  <2>. QED  BY <2>1 DEF DeadlocksAreEdits, EditKeeps
<1>. QED  BY <1>1, InvCorrect, PTL

\* A committed row changes only by the commit of an update of it, and then only
\* in the fields that the request names: the row that UpdateProduct writes back
\* whole is still the one it read.
LEMMA EditClobbersNothing ==
  ASSUME Inv, [Next]_vars, NEW p \in products, NEW q \in products', p.id = q.id, p # q
  PROVE  \E w \in Writers :
           /\ pc[w] = "commit" /\ pc'[w] = "idle"
           /\ job[w].op = "update" /\ job[w].id = p.id
           /\ q.code = Merge(job[w].code, p.code) /\ q.slug = Merge(job[w].slug, p.slug)
<1>1. q \notin products
  BY DEF Inv, UniqueRows
<1>2. PICK w \in Writers : Commit(w)
  <2>1. products' # products
    BY <1>1
  <2>. QED  BY <2>1 DEF Next, Step, Statement, vars, Begin, Insert, SelectForUpdate, Update,
                        EnterIndex, Delete, Rollback, Fail, BreakDeadlock, Tick
<1>3. q \in written[w] /\ Effect(w, q) /\ pc[w] = "commit" /\ pc'[w] = "idle"
  BY <1>1, <1>2 DEF Commit, EndTx, Goto, Inv, Fits, FitsWell, WritesFit, TypeOK
<1>4. /\ job[w] \in UpdateJob /\ job[w].id = q.id
      /\ \E r \in products :
           /\ r.id = q.id
           /\ q.code = Merge(job[w].code, r.code) /\ q.slug = Merge(job[w].slug, r.slug)
  BY <1>3 DEF Effect
<1>5. /\ q.code = Merge(job[w].code, p.code) /\ q.slug = Merge(job[w].slug, p.slug)
  BY <1>4 DEF Inv, UniqueRows
<1>. QED  BY <1>3, <1>4, <1>5 DEF UpdateJob

\* SELECT FOR UPDATE prevents lost updates: no edit is overwritten by another
\* that has read the row before it.
THEOREM NoClobberedEditCorrect == Spec => NoClobberedEdit
<1>1. Inv /\ [Next]_vars => [EditMerges]_vars
  BY EditClobbersNothing DEF EditMerges
<1>. QED  BY <1>1, InvCorrect, PTL DEF Spec, NoClobberedEdit

-----------------------------------------------------------------------------
(***************************************************************************)
(* The transactions implement ProductTable.                                *)
(***************************************************************************)
\* What w is going to commit does to the table what the request asks, and it has
\* found a reason if it is going to refuse.
CreateDue(w) ==
  /\ job[w] \in CreateJob /\ Valid(job[w]) /\ locked[w] = {}
  /\ \E i \in 1..MaxProducts :
       /\ \A p \in products : p.id # i
       /\ written[w] = {[id |-> i, code |-> job[w].code, slug |-> job[w].slug,
                         updatedAt |-> began[w]]}

UpdateDue(w) ==
  /\ job[w] \in UpdateJob
  /\ \E p \in products :
       /\ p.id = job[w].id /\ locked[w] = {p.id}
       /\ Valid(Merged(w, p))
       /\ written[w] = {[Merged(w, p) EXCEPT !.updatedAt = began[w]]}

DeleteDue(w) == job[w] \in DeleteJob /\ locked[w] = {job[w].id} /\ written[w] = {}

Due(w) ==
  /\ pc[w] = "rollback" <=> outcome[w] # "none"
  /\ pc[w] \in {"commit"} \cup Indexes =>
       CreateDue(w) \/ UpdateDue(w) \/ (DeleteDue(w) /\ pc[w] = "commit")

AllDue == \A w \in Writers : Due(w)

LEMMA DueInit == Init => AllDue
  BY DEF Init, AllDue, Due, Indexes

\* What a transaction is going to do is none of the others' business, until one of
\* them commits; and that one has locked other rows and written other ids.
LEMMA OthersDue ==
  ASSUME Inv, AllDue, NEW w \in Writers,
         \/ Step(w) \/ Fail(w) \/ BreakDeadlock(w)
         \/ \E j \in Job : Begin(w, j),
         NEW v \in Writers \ {w}
  PROVE  Due(v)'
<1>1. /\ pc'[v] = pc[v] /\ job'[v] = job[v] /\ outcome'[v] = outcome[v] /\ began'[v] = began[v]
      /\ locked'[v] = locked[v] /\ written'[v] = written[v]
  <2>1. CASE Fail(w) \/ BreakDeadlock(w) \/ \E j \in Job : Begin(w, j)
    BY <2>1 DEF Fail, BreakDeadlock, Begin, Abort, CloseTx, Goto, GiveUp, Inv, TypeOK
  <2>2. CASE Insert(w) \/ SelectForUpdate(w) \/ Delete(w)
    BY <2>2 DEF Insert, SelectForUpdate, Delete, Abort, CloseTx, Goto, GiveUp, Inv, TypeOK
  <2>3. CASE Update(w)
    BY <2>3 DEF Update, Goto, GiveUp, Inv, TypeOK
  <2>4. CASE EnterIndex(w)
    BY <2>4 DEF EnterIndex, Abort, CloseTx, Goto, GiveUp, Inv, TypeOK
  <2>5. CASE Commit(w) \/ Rollback(w)
    BY <2>5 DEF Commit, Rollback, EndTx, CloseTx, Goto, Inv, TypeOK
  <2>. QED  BY <2>1, <2>2, <2>3, <2>4, <2>5 DEF Step, Statement
<1>2. products' = products \/ products' = {p \in products : p.id \notin locked[w]} \cup written[w]
  BY DEF Step, Statement, Commit, Rollback, Fail, BreakDeadlock, Begin, Insert, SelectForUpdate,
         Update, EnterIndex, Delete
<1>3. Due(v)
  BY DEF AllDue
<1>4. CreateDue(v) => CreateDue(v)'
  <2>1. \A p \in written[w], q \in written[v] : p.id # q.id
    BY DEF Inv, Distinct, Apart
  <2>. QED  BY <1>1, <1>2, <2>1 DEF CreateDue, Valid
<1>5. UpdateDue(v) => UpdateDue(v)'
  <2>1. \A p \in products : locked[v] = {p.id} => p \in products'
    BY <1>2 DEF Inv, Exclusive
  <2>2. \A p : Merged(v, p)' = Merged(v, p)
    BY <1>1 DEF Merged
  <2>. QED  BY <1>1, <2>1, <2>2 DEF UpdateDue, Valid
<1>6. DeleteDue(v) => DeleteDue(v)'
  BY <1>1 DEF DeleteDue
<1>. QED  BY <1>1, <1>3, <1>4, <1>5, <1>6 DEF Due

\* A step of w does what makes its own commit due, or finds a reason against it.
LEMMA OwnDue ==
  ASSUME Inv, AllDue, NEW w \in Writers,
         \/ Step(w) \/ Fail(w) \/ BreakDeadlock(w)
         \/ \E j \in Job : Begin(w, j)
  PROVE  Due(w)'
<1>0. Due(w) /\ JobFits(w) /\ ReadFits(w) /\ LocksFit(w) /\ WritesFit(w)
  BY DEF AllDue, Inv, Fits, FitsWell
<1> USE DEF Inv, TypeOK
<1>1. ASSUME NEW o \in Outcomes \ {"none"}, GiveUp(w, o) PROVE Due(w)'
  BY <1>1 DEF GiveUp, Goto, Due, Indexes
<1>2. CASE Commit(w) \/ Rollback(w)
  BY <1>2 DEF Commit, Rollback, EndTx, CloseTx, Goto, Due, Indexes
<1>3. CASE Fail(w) \/ BreakDeadlock(w)
  BY <1>1, <1>3 DEF Fail, BreakDeadlock, Abort, Outcomes
<1>4. ASSUME NEW j \in Job, Begin(w, j) PROVE Due(w)'
  <2>1. CASE GiveUp(w, "invalid")
    BY <1>1, <2>1 DEF Outcomes
  <2>2. CASE /\ UNCHANGED outcome
             /\ Goto(w, CASE j.op = "create" -> "insert"
                          [] j.op = "update" -> "select"
                          [] j.op = "delete" -> "delete")
    <3>1. j.op = "create" \/ j.op = "update" \/ j.op = "delete"
      BY DEF Job, CreateJob, UpdateJob, DeleteJob
    <3>2. pc'[w] \notin {"commit", "rollback"} \cup Indexes /\ pc[w] = "idle"
      BY <1>4, <2>2, <3>1 DEF Begin, Goto, Indexes
    <3>. QED  BY <1>0, <2>2, <3>2 DEF Due
  <2>. QED  BY <1>4, <2>1, <2>2 DEF Begin
<1>5. CASE Insert(w)
  <2>1. job[w] \in CreateJob /\ Valid(job[w]) /\ locked[w] = {}
    BY <1>0, <1>5 DEF Insert, JobFits, LocksFit, Indexes
  <2>2. CASE Abort(w, "internal")
    BY <1>1, <2>2 DEF Abort, Outcomes
  <2>3. CASE /\ nextID <= MaxProducts /\ Goto(w, "code") /\ UNCHANGED <<outcome, locked>>
             /\ written' = [written EXCEPT ![w] =
                  {[id |-> nextID, code |-> job[w].code, slug |-> job[w].slug,
                    updatedAt |-> began[w]]}]
    <3>1. CreateDue(w)'
      <4>1. nextID \in 1..MaxProducts
        BY <2>3, StoreAssumption
      <4>2. \A p \in products : p.id # nextID
        BY <4>1, StoreAssumption DEF KnownIds, Product
      <4>3. /\ written'[w] = {[id |-> nextID, code |-> job'[w].code, slug |-> job'[w].slug,
                               updatedAt |-> began'[w]]}
            /\ job'[w] \in CreateJob /\ Valid(job[w])' /\ locked'[w] = {} /\ products' = products
        BY <1>5, <2>1, <2>3 DEF Insert, Valid
      <4>. QED  BY <4>1, <4>2, <4>3 DEF CreateDue
    <3>. QED  BY <1>0, <1>5, <2>3, <3>1 DEF Insert, Goto, Due
  <2>. QED  BY <1>5, <2>2, <2>3 DEF Insert
<1>6. CASE SelectForUpdate(w)
  <2>1. CASE GiveUp(w, "notFound")
    BY <1>1, <2>1 DEF Outcomes
  <2>2. CASE Goto(w, "update") /\ UNCHANGED outcome
    BY <1>0, <1>6, <2>2 DEF SelectForUpdate, Goto, Due, Indexes
  <2>. QED  BY <1>6, <2>1, <2>2 DEF SelectForUpdate
<1>7. CASE Update(w)
  <2>1. PICK p \in products : existing[w] = {p} /\ p.id = job[w].id /\ locked[w] = {p.id}
    BY <1>0, <1>7 DEF Update, ReadFits
  <2>2. job[w] \in UpdateJob
    BY <1>0, <1>7 DEF Update, JobFits
  <2>3. CASE GiveUp(w, "invalid") \/ GiveUp(w, "notFound")
    BY <1>1, <2>3 DEF Outcomes
  <2>4. CASE /\ Valid(Merged(w, p)) /\ Goto(w, "code") /\ outcome' = outcome
             /\ written' = [written EXCEPT ![w] = {[Merged(w, p) EXCEPT !.updatedAt = began[w]]}]
             /\ locked' = [locked EXCEPT ![w] = {p.id}]
    <3>1. /\ job' = job /\ began' = began /\ products' = products
          /\ Merged(w, p)' = Merged(w, p) /\ Valid(Merged(w, p))'
      BY <1>7, <2>4 DEF Update, Merged, Valid
    <3>2. UpdateDue(w)'
      BY <2>1, <2>2, <2>4, <3>1 DEF UpdateDue
    <3>. QED  BY <1>0, <1>7, <2>4, <3>2 DEF Due, Update, Goto
  <2>. QED  BY <1>7, <2>1, <2>3, <2>4 DEF Update
<1>8. CASE EnterIndex(w)
  <2>1. CASE Abort(w, "conflict")
    BY <1>1, <2>1 DEF Abort, Outcomes
  <2>2. CASE /\ Goto(w, IF pc[w] = "code" THEN "slug" ELSE "commit")
             /\ UNCHANGED <<outcome, locked, written>>
    <3>1. pc[w] \in Indexes /\ UNCHANGED <<products, job, began>>
      BY <1>8 DEF EnterIndex
    <3>2. CreateDue(w) \/ UpdateDue(w)
      BY <1>0, <3>1 DEF Due, Indexes
    <3>3. CreateDue(w) => CreateDue(w)'
      BY <2>2, <3>1 DEF CreateDue, Valid
    <3>4. UpdateDue(w) => UpdateDue(w)'
      <4>1. \A p : Merged(w, p)' = Merged(w, p)
        BY <3>1 DEF Merged
      <4>. QED  BY <2>2, <3>1, <4>1 DEF UpdateDue, Valid
    <3>5. pc'[w] # "rollback" /\ pc[w] # "rollback" /\ outcome' = outcome
      BY <2>2, <3>1 DEF Goto, Indexes
    <3>. QED  BY <1>0, <3>2, <3>3, <3>4, <3>5 DEF Due
  <2>. QED  BY <1>8, <2>1, <2>2 DEF EnterIndex
<1>9. CASE Delete(w)
  <2>1. job[w] \in DeleteJob /\ written[w] = {}
    BY <1>0, <1>9 DEF Delete, JobFits, WritesFit, Indexes
  <2>2. CASE GiveUp(w, "notFound")
    BY <1>1, <2>2 DEF Outcomes
  <2>3. CASE locked' = [locked EXCEPT ![w] = {job[w].id}] /\ Goto(w, "commit") /\ UNCHANGED outcome
    <3>1. DeleteDue(w)'
      BY <1>9, <2>1, <2>3 DEF Delete, DeleteDue
    <3>. QED  BY <1>0, <1>9, <2>3, <3>1 DEF Delete, Goto, Due, Indexes
  <2>. QED  BY <1>9, <2>2, <2>3 DEF Delete
<1>. QED  BY <1>2, <1>3, <1>4, <1>5, <1>6, <1>7, <1>8, <1>9 DEF Step, Statement

LEMMA DueNext == Inv /\ AllDue /\ [Next]_vars => AllDue'
<1> SUFFICES ASSUME Inv, AllDue, [Next]_vars PROVE AllDue'
  OBVIOUS
<1>1. CASE Tick \/ UNCHANGED vars
  <2>1. UNCHANGED <<products, job, pc, outcome, began, locked, written>>
    BY <1>1 DEF Tick, vars
  <2>2. ASSUME NEW w \in Writers PROVE Due(w)'
    <3>1. Due(w)
      BY DEF AllDue
    <3>2. CreateDue(w) => CreateDue(w)'
      BY <2>1 DEF CreateDue, Valid
    <3>3. \A p : Merged(w, p)' = Merged(w, p)
      BY <2>1 DEF Merged
    <3>4. UpdateDue(w) => UpdateDue(w)'
      BY <2>1, <3>3 DEF UpdateDue, Valid
    <3>5. DeleteDue(w) => DeleteDue(w)'
      BY <2>1 DEF DeleteDue
    <3>. QED  BY <2>1, <3>1, <3>2, <3>4, <3>5 DEF Due
  <2>. QED  BY <2>2 DEF AllDue
<1>2. ASSUME NEW w \in Writers,
             \/ Step(w) \/ Fail(w) \/ BreakDeadlock(w)
             \/ \E j \in Job : Begin(w, j)
      PROVE  AllDue'
  BY <1>2, OthersDue, OwnDue DEF AllDue
<1>. QED  BY <1>1, <1>2, StoreAssumption DEF Next

-----------------------------------------------------------------------------
\* The phase of every request, as the table sees it.
phases == [w \in Writers |-> Phase(w)]

\* COMMIT is the moment at which a request acts.
LEMMA CommitActs ==
  ASSUME Inv, AllDue, NEW w \in Writers, Commit(w)
  PROVE  Table!Create(w) \/ Table!Update(w) \/ Table!Delete(w)
<1> USE DEF Inv, TypeOK
<1>1. /\ pc[w] = "commit" /\ products' = {p \in products : p.id \notin locked[w]} \cup written[w]
      /\ outcome[w] = "none"
  BY DEF Commit, AllDue, Due
<1>2. Table!Open(w)
  BY <1>1 DEF Table!Open, Phase
<1>3. Table!Return(w)
  <2>1. phases' = [phases EXCEPT ![w] = "idle"]
    BY DEF Commit, EndTx, Goto, phases, Phase
  <2>. QED  BY <2>1 DEF Commit, EndTx, phases, Table!Return
<1>4. CASE CreateDue(w)
  <2>1. PICK i, q :
          /\ i \in 1..MaxProducts
          /\ q = [id |-> i, code |-> job[w].code, slug |-> job[w].slug, updatedAt |-> began[w]]
          /\ \A p \in products : p.id # i
          /\ written[w] = {q}
    BY <1>4 DEF CreateDue
  <2>2. Alone(w, q)
    BY <2>1 DEF Fits, FitsWell, WritesFit
  <2>3. Table!Found(i) = {} /\ Table!Rivals(i, job[w]) = {}
    <3>1. \A p \in products : p.code # q.code /\ p.slug # q.slug
      BY <1>1, <2>1, <2>2 DEF Alone, Entered, Key, Indexes
    <3>. QED  BY <2>1, <3>1 DEF Table!Found, Table!Rivals
  <2>4. products' = products \cup {q} /\ job[w].op = "create" /\ Table!Valid(job[w])
    BY <1>1, <1>4, <2>1 DEF CreateDue, CreateJob, Valid, Table!Valid
  <2>. QED  BY <1>2, <1>3, <2>1, <2>3, <2>4 DEF Table!Create
<1>5. CASE UpdateDue(w)
  <2>1. PICK p \in products :
          /\ p.id = job[w].id /\ locked[w] = {p.id}
          /\ Valid(Merged(w, p))
          /\ written[w] = {[Merged(w, p) EXCEPT !.updatedAt = began[w]]}
    BY <1>5 DEF UpdateDue
  <2>2. PICK q : q = Merged(w, p)
    OBVIOUS
  <2>3. q = Table!Edited(job[w], p) /\ q.id = p.id
    BY <2>2 DEF Merged, Merge, Table!Edited, Table!Choose, Product
  <2>4. PICK r : r = [q EXCEPT !.updatedAt = began[w]]
    OBVIOUS
  <2>5. r = [q EXCEPT !.updatedAt = began[w]] /\ r.id = q.id /\ r.code = q.code /\ r.slug = q.slug
    <3>1. q = [id |-> p.id, code |-> q.code, slug |-> q.slug, updatedAt |-> p.updatedAt]
      BY <2>2 DEF Merged, Product
    <3>. QED  BY <2>4, <3>1
  <2>6. Alone(w, r)
    BY <2>1, <2>2, <2>5 DEF Fits, FitsWell, WritesFit
  <2>7. Table!Rivals(q.id, q) = {} /\ p \in Table!Found(job[w].id)
    <3>1. \A x \in products : x.code = q.code \/ x.slug = q.slug => x.id = q.id
      BY <1>1, <2>5, <2>6 DEF Alone, Entered, Key, Indexes
    <3>. QED  BY <2>1, <3>1 DEF Table!Found, Table!Rivals
  <2>8. products' = (products \ {p}) \cup {r}
    BY <1>1, <2>1, <2>2, <2>5 DEF UniqueRows
  <2>9. job[w].op = "update" /\ Table!Valid(q)
    BY <1>5, <2>1, <2>2 DEF UpdateDue, UpdateJob, Valid, Table!Valid
  <2>. QED  BY <1>2, <1>3, <2>3, <2>5, <2>7, <2>8, <2>9 DEF Table!Update
<1>6. CASE DeleteDue(w)
  <2>1. PICK p \in products : p.id = job[w].id
    BY <1>6 DEF DeleteDue, Fits, FitsWell, LocksFit
  <2>2. products' = products \ {p} /\ job[w].op = "delete" /\ p \in Table!Found(job[w].id)
    BY <1>1, <1>6, <2>1 DEF DeleteDue, DeleteJob, UniqueRows, Table!Found
  <2>. QED  BY <1>2, <1>3, <2>2 DEF Table!Delete
<1>. QED  BY <1>1, <1>4, <1>5, <1>6 DEF AllDue, Due

\* A statement or check that fails has the reason that the caller is told.
LEMMA StatementRefuses ==
  ASSUME Inv, AllDue, NEW w \in Writers, Statement(w) \/ Fail(w) \/ BreakDeadlock(w)
  PROVE  Table!Refuse(w) \/ UNCHANGED Table!vars
<1> USE DEF Inv, TypeOK
<1>0. /\ JobFits(w) /\ ReadFits(w) /\ WritesFit(w) /\ pc[w] \notin {"idle", "rollback"}
      /\ outcome[w] = "none" /\ UNCHANGED <<clock, products, job, began>>
  <2>1. CASE BreakDeadlock(w)
    <3>1. pc[w] \notin {"idle", "rollback"}
      <4>1. \E v \in Writers : WaitsFor(w, v)
        BY <2>1 DEF BreakDeadlock, Cycle
      <4>. QED  BY <4>1 DEF WaitsFor, Indexes
    <3>. QED  BY <2>1, <3>1 DEF BreakDeadlock, AllDue, Due, Fits, FitsWell
  <2>2. CASE Statement(w) \/ Fail(w)
    BY <2>2 DEF Statement, Insert, SelectForUpdate, Update, EnterIndex, Delete, Fail, AllDue, Due,
                Fits, FitsWell, Indexes
  <2>. QED  BY <2>1, <2>2
<1>1. Table!Open(w)
  BY <1>0 DEF Table!Open, Phase
<1>2. ASSUME NEW o, GiveUp(w, o),
             \/ o = "internal"
             \/ o = "notFound" /\ Table!NotFound(w)
             \/ o = "invalid" /\ Table!Invalid(w)
             \/ o = "conflict" /\ Table!Conflict(w)
      PROVE  Table!Refuse(w)
  <2>1. phases' = phases
    BY <1>0, <1>2 DEF GiveUp, Goto, phases, Phase
  <2>. QED  BY <1>0, <1>1, <1>2, <2>1 DEF GiveUp, phases, Table!Refuse, Table!Judge
<1>3. ASSUME NEW l \in Locations \ {"idle"}, Goto(w, l), UNCHANGED outcome
      PROVE  UNCHANGED Table!vars
  <2>1. phases' = phases
    BY <1>0, <1>3 DEF Goto, phases, Phase
  <2>. QED  BY <1>0, <1>3, <2>1 DEF phases, Table!vars
<1>4. CASE Fail(w) \/ BreakDeadlock(w)
  BY <1>2, <1>4 DEF Fail, BreakDeadlock, Abort
<1>5. CASE Insert(w)
  BY <1>2, <1>3, <1>5 DEF Insert, Abort, Locations, Indexes
<1>6. CASE SelectForUpdate(w)
  <2>1. job[w].op = "update"
    BY <1>0, <1>6 DEF SelectForUpdate, JobFits, UpdateJob
  <2>2. (\A p \in products : p.id # job[w].id) => Table!NotFound(w)
    BY <2>1 DEF Table!NotFound, Table!Found
  <2>. QED  BY <1>2, <1>3, <1>6, <2>2 DEF SelectForUpdate, Locations
<1>7. CASE Delete(w)
  <2>1. job[w].op = "delete"
    BY <1>0, <1>7 DEF Delete, JobFits, DeleteJob
  <2>2. (\A p \in products : p.id # job[w].id) => Table!NotFound(w)
    BY <2>1 DEF Table!NotFound, Table!Found
  <2>. QED  BY <1>2, <1>3, <1>7, <2>2 DEF Delete, Locations
<1>8. CASE Update(w)
  <2>1. PICK p \in products : existing[w] = {p} /\ p.id = job[w].id
    BY <1>0, <1>8 DEF Update, ReadFits
  <2>2. job[w].op = "update" /\ p \in Table!Found(job[w].id)
    BY <1>0, <1>8, <2>1 DEF Update, JobFits, UpdateJob, Table!Found
  <2>3. PICK q : q = Merged(w, p) /\ q = Table!Edited(job[w], p)
    BY DEF Merged, Merge, Table!Edited, Table!Choose
  <2>4. ~Valid(q) => Table!Invalid(w)
    BY <2>2, <2>3 DEF Valid, Table!Valid, Table!Invalid
  <2>5. \/ ~Valid(q) /\ GiveUp(w, "invalid")
        \/ Goto(w, "code") /\ UNCHANGED outcome
    BY <1>8, <2>1, <2>3 DEF Update
  <2>. QED  BY <1>2, <1>3, <2>4, <2>5 DEF Locations, Indexes
<1>9. CASE EnterIndex(w)
  <2>1. PICK q \in written[w] :
          IF KeyTaken(pc[w], q)
          THEN Abort(w, "conflict")
          ELSE /\ Goto(w, IF pc[w] = "code" THEN "slug" ELSE "commit")
               /\ UNCHANGED <<outcome, locked, written>>
    BY <1>9 DEF EnterIndex
  <2>2. CASE KeyTaken(pc[w], q)
    <3>1. PICK r \in products : (r.code = q.code \/ r.slug = q.slug) /\ r.id # q.id
      BY <1>9, <2>2 DEF KeyTaken, Key, EnterIndex, Indexes
    <3>2. CreateDue(w) \/ UpdateDue(w)
      BY <1>9 DEF AllDue, Due, EnterIndex, Indexes
    <3>3. ASSUME CreateDue(w) PROVE Table!Conflict(w)
      <4>1. PICK i \in 1..MaxProducts :
              written[w] = {[id |-> i, code |-> job[w].code, slug |-> job[w].slug,
                             updatedAt |-> began[w]]}
        BY <3>3 DEF CreateDue
      <4>2. q.id = i /\ q.code = job[w].code /\ q.slug = job[w].slug
        BY <4>1
      <4>3. r \in Table!Rivals(i, job[w]) /\ job[w].op = "create"
        BY <3>1, <3>3, <4>2 DEF Table!Rivals, CreateDue, CreateJob
      <4>. QED  BY <4>3 DEF Table!Conflict
    <3>4. ASSUME UpdateDue(w) PROVE Table!Conflict(w)
      <4>1. PICK p \in products :
              /\ p.id = job[w].id
              /\ written[w] = {[Merged(w, p) EXCEPT !.updatedAt = began[w]]}
        BY <3>4 DEF UpdateDue
      <4>2. PICK m : m = Merged(w, p)
        OBVIOUS
      <4>3. m = [id |-> p.id, code |-> Merge(job[w].code, p.code),
                 slug |-> Merge(job[w].slug, p.slug), updatedAt |-> p.updatedAt]
        BY <4>2 DEF Merged, Product
      <4>4. q = [m EXCEPT !.updatedAt = began[w]]
        BY <4>1, <4>2
      <4>5. q.id = p.id /\ q.code = m.code /\ q.slug = m.slug
        BY <4>3, <4>4
      <4>6. m = Table!Edited(job[w], p)
        BY <4>2 DEF Merged, Merge, Table!Edited, Table!Choose
      <4>7. r \in Table!Rivals(p.id, m) /\ job[w].op = "update" /\ p \in Table!Found(job[w].id)
        BY <3>1, <3>4, <4>1, <4>5 DEF Table!Rivals, Table!Found, UpdateDue, UpdateJob
      <4>. QED  BY <4>6, <4>7 DEF Table!Conflict
    <3>5. Table!Conflict(w)
      BY <3>2, <3>3, <3>4
    <3>. QED  BY <1>2, <2>1, <2>2, <3>5 DEF Abort
  <2>3. CASE ~KeyTaken(pc[w], q)
    BY <1>3, <2>1, <2>3 DEF Locations, Indexes
  <2>. QED  BY <2>2, <2>3
<1>. QED  BY <1>4, <1>5, <1>6, <1>7, <1>8, <1>9 DEF Statement

\* BeginTx, or the answer that needs none, is the call.
LEMMA BeginCalls ==
  ASSUME Inv, NEW w \in Writers, NEW j \in Job, Begin(w, j)
  PROVE  Table!Call(w, j)
<1> USE DEF Inv, TypeOK
<1>1. phases[w] = "idle" /\ phases' = [phases EXCEPT ![w] = "called"]
  BY DEF Begin, Goto, GiveUp, phases, Phase, Job, CreateJob, UpdateJob, DeleteJob
<1>2. IF j.op = "create" /\ ~Table!Valid(j) THEN Table!Judge(w, "invalid") ELSE UNCHANGED outcome
  BY DEF Begin, GiveUp, Valid, Table!Valid, Table!Judge
<1>. QED  BY <1>1, <1>2 DEF Begin, phases, Table!Call

\* The answer of a request that is refused.
LEMMA RollbackAnswers ==
  ASSUME Inv, AllDue, NEW w \in Writers, Rollback(w)
  PROVE  Table!Answer(w)
<1> USE DEF Inv, TypeOK
<1>1. phases' = [phases EXCEPT ![w] = "idle"]
  BY DEF Rollback, EndTx, Goto, phases, Phase
<1>2. outcome[w] # "none"
  BY DEF Rollback, AllDue, Due
<1>. QED  BY <1>1, <1>2 DEF Rollback, EndTx, phases, Table!Return, Table!Answer

\* Every step of the transactions is one of the table, or is not seen in it.
LEMMA StepsAreTableSteps == Inv /\ AllDue /\ [Next]_vars => [Table!Next]_(Table!vars)
<1> SUFFICES ASSUME Inv, AllDue, [Next]_vars PROVE [Table!Next]_(Table!vars)
  OBVIOUS
<1>1. ASSUME NEW w \in Writers, NEW j \in Job, Begin(w, j) PROVE Table!Next
  BY <1>1, BeginCalls DEF Table!Next
<1>2. ASSUME NEW w \in Writers, Statement(w) \/ Fail(w) \/ BreakDeadlock(w)
      PROVE Table!Next \/ UNCHANGED Table!vars
  BY <1>2, StatementRefuses DEF Table!Next
<1>3. ASSUME NEW w \in Writers, Commit(w) PROVE Table!Next
  BY <1>3, CommitActs DEF Table!Next
<1>4. ASSUME NEW w \in Writers, Rollback(w) PROVE Table!Next
  BY <1>4, RollbackAnswers DEF Table!Next
<1>5. CASE Tick
  <2>1. phases' = phases
    BY <1>5 DEF Tick, phases, Phase
  <2>. QED  BY <1>5, <2>1 DEF Tick, phases, Table!Tick, Table!Next
<1>6. CASE UNCHANGED vars
  <2>1. phases' = phases
    BY <1>6 DEF vars, phases, Phase
  <2>. QED  BY <1>6, <2>1 DEF vars, phases, Table!vars
<1>. QED  BY <1>1, <1>2, <1>3, <1>4, <1>5, <1>6, StoreAssumption DEF Next, Step

\* The product transactions implement the table: whatever the order in which their
\* statements run, each acts in one step, or is refused for a reason that held.
THEOREM ImplementsTableCorrect == Spec => ImplementsTable
<1>1. Init => Table!Init
  BY DEF Init, Phase, Table!Init
<1>2. Spec => []AllDue
  BY DueInit, DueNext, InvCorrect, PTL DEF Spec
<1>. QED  BY <1>1, <1>2, InvCorrect, StepsAreTableSteps, PTL DEF Spec, ImplementsTable, Table!Spec
=============================================================================
