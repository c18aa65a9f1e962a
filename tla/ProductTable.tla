---------------------------- MODULE ProductTable ----------------------------
(***************************************************************************)
(* What catalog-service promises to those who change products: a table on  *)
(* which every request acts in one indivisible step, at some moment        *)
(* between the call and its answer, on the row as it is committed then; or *)
(* is refused, for a reason that was true at such a moment, and does not   *)
(* act.  CatalogStore.tla describes the transactions that implement it.    *)
(***************************************************************************)
EXTENDS Naturals

CONSTANTS
  Writers,  \* concurrent requests that change products
  Job,      \* what a request may ask for
  NoJob,    \* no request
  Ids,      \* ids of products
  Keep,     \* a field that an update leaves alone
  Blank,    \* the empty string
  MaxTime   \* bound of the model: the clock

VARIABLES
  clock,     \* the time
  products,  \* the rows of the table
  job,       \* the request each writer serves
  phase,     \* how far it has come
  outcome,   \* why it is refused
  began      \* the time of the call, which the row it writes will bear

vars == <<clock, products, job, phase, outcome, began>>

Init ==
  /\ clock = 0
  /\ products = {}
  /\ job = [w \in Writers |-> NoJob]
  /\ phase = [w \in Writers |-> "idle"]
  /\ outcome = [w \in Writers |-> "none"]
  /\ began = [w \in Writers |-> 0]

-----------------------------------------------------------------------------
Valid(p) == p.code # Blank /\ p.slug # Blank

\* The product that an update makes of p.
Choose(new, old) == IF new = Keep THEN old ELSE new
Edited(j, p) == [p EXCEPT !.code = Choose(j.code, p.code), !.slug = Choose(j.slug, p.slug)]

\* The row with id i, if there is one.
Found(i) == {p \in products : p.id = i}

\* Products other than i that have the code or the slug of q.
Rivals(i, q) == {p \in products : (p.code = q.code \/ p.slug = q.slug) /\ p.id # i}

Judge(w, o) == outcome' = [outcome EXCEPT ![w] = o]

\* CreateProduct validates before anything else.
Call(w, j) ==
  /\ phase[w] = "idle"
  /\ phase' = [phase EXCEPT ![w] = "called"]
  /\ job' = [job EXCEPT ![w] = j]
  /\ began' = [began EXCEPT ![w] = clock]
  /\ IF j.op = "create" /\ ~Valid(j) THEN Judge(w, "invalid") ELSE UNCHANGED outcome
  /\ UNCHANGED <<clock, products>>

Open(w) == phase[w] = "called" /\ outcome[w] = "none"

Return(w) ==
  /\ phase' = [phase EXCEPT ![w] = "idle"]
  /\ job' = [job EXCEPT ![w] = NoJob]
  /\ outcome' = [outcome EXCEPT ![w] = "none"]
  /\ began' = [began EXCEPT ![w] = 0]
  /\ UNCHANGED clock

Create(w) ==
  /\ Open(w) /\ job[w].op = "create"
  /\ Valid(job[w])
  /\ \E i \in Ids :
       /\ Found(i) = {} /\ Rivals(i, job[w]) = {}
       /\ products' = products \cup
            {[id |-> i, code |-> job[w].code, slug |-> job[w].slug, updatedAt |-> began[w]]}
  /\ Return(w)

Update(w) ==
  /\ Open(w) /\ job[w].op = "update"
  /\ \E p \in Found(job[w].id) :
       LET q == Edited(job[w], p) IN
       /\ Valid(q) /\ Rivals(q.id, q) = {}
       /\ products' = (products \ {p}) \cup {[q EXCEPT !.updatedAt = began[w]]}
  /\ Return(w)

Delete(w) ==
  /\ Open(w) /\ job[w].op = "delete"
  /\ \E p \in Found(job[w].id) : products' = products \ {p}
  /\ Return(w)

\* 404: there is no such product.
NotFound(w) == job[w].op \in {"update", "delete"} /\ Found(job[w].id) = {}

\* 400: the update would make it invalid.
Invalid(w) == job[w].op = "update" /\ \E p \in Found(job[w].id) : ~Valid(Edited(job[w], p))

\* 409: another product has the code or the slug.
Conflict(w) ==
  \/ job[w].op = "create" /\ \E i \in Ids : Rivals(i, job[w]) # {}
  \/ /\ job[w].op = "update"
     /\ \E p \in Found(job[w].id) : Rivals(p.id, Edited(job[w], p)) # {}

\* What the request asks cannot be done as the table is now; or something else
\* went wrong, at any time.
Refuse(w) ==
  /\ Open(w)
  /\ \/ NotFound(w) /\ Judge(w, "notFound")
     \/ Invalid(w) /\ Judge(w, "invalid")
     \/ Conflict(w) /\ Judge(w, "conflict")
     \/ Judge(w, "internal")
  /\ UNCHANGED <<clock, products, job, phase, began>>

Answer(w) == outcome[w] # "none" /\ Return(w) /\ UNCHANGED products

Tick == clock < MaxTime /\ clock' = clock + 1 /\ UNCHANGED <<products, job, phase, outcome, began>>

Next ==
  \/ \E w \in Writers :
       \/ \E j \in Job : Call(w, j)
       \/ Create(w) \/ Update(w) \/ Delete(w)
       \/ Refuse(w) \/ Answer(w)
  \/ Tick

Spec == Init /\ [][Next]_vars
=============================================================================
