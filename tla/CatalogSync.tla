---------------------------- MODULE CatalogSync ----------------------------
(***************************************************************************)
(* The incremental sync of the product catalogue: a client (the dotCMS     *)
(* integration of docs/adr/ADR-001.md, section 11) repeats rounds of       *)
(* GET /catalog/product-projections.  A round asks with the sync token of  *)
(* the round before as updatedSince, follows nextCursor to the last page   *)
(* and keeps the token of its first page for the next round.  The products *)
(* change meanwhile, through the transactions of CatalogStore.             *)
(*                                                                         *)
(* Only product rows are modelled: the variants and images of a page are   *)
(* read by two further queries and have no part in pagination.             *)
(***************************************************************************)
EXTENDS CatalogStore, Sequences, SequencesExt

CONSTANTS
  PageSize,   \* rows of a page
  MaxRounds,  \* bound of the model: rounds of the client
  Never,      \* no updatedSince
  Start       \* no cursor

ASSUME SyncAssumption ==
  /\ PageSize \in Nat \ {0} /\ MaxRounds \in Nat
  /\ Never \notin Nat
  /\ Start \notin [at : Nat, id : Nat]

VARIABLES
  arrived,   \* the service is serving a request of the client
  since,     \* updatedSince of the client's round
  cursor,    \* cursor of its next request
  token,     \* syncToken captured for the first page of the round
  rounds,    \* rounds the client has finished
  copy,      \* the client's copy of the catalogue
  delivered, \* rows delivered in the round, or in the last one if none is on
  steady,    \* rows committed since before the round's first query
  inFlight,  \* transactions that were open when the round's token was captured
  late       \* row versions that such transactions have committed

sync == <<arrived, since, cursor, token, rounds, copy, delivered, steady, inFlight, late>>
syncVars == <<vars, sync>>

SyncTypeOK ==
  /\ TypeOK
  /\ arrived \in BOOLEAN
  /\ since \in 0..MaxTime \cup {Never}
  /\ cursor \in [at : 0..MaxTime, id : 1..MaxProducts] \cup {Start}
  /\ token \in 0..MaxTime
  /\ rounds \in 0..MaxRounds
  /\ copy \subseteq Product
  /\ delivered \in Seq(Product)
  /\ steady \subseteq Product
  /\ inFlight \subseteq Writers
  /\ late \subseteq Product

SyncInit ==
  /\ Init
  /\ arrived = FALSE
  /\ since = Never /\ cursor = Start /\ token = 0
  /\ rounds = 0
  /\ copy = {} /\ delivered = <<>> /\ steady = {}
  /\ inFlight = {} /\ late = {}

-----------------------------------------------------------------------------
(***************************************************************************)
(* One page                                                                *)
(***************************************************************************)
\* ORDER BY updated_at ASC, id ASC
Before(p, q) ==
  p.updatedAt < q.updatedAt \/ (p.updatedAt = q.updatedAt /\ p.id < q.id)

\* updated_at > $1 OR (updated_at = $1 AND id > $2).  (Variants for the checks:
\* no tie-break, and a comparison that is not strict.)
AfterWithoutTie(p, c) == p.updatedAt > c.at
AfterOrAt(p, c) == p.updatedAt > c.at \/ (p.updatedAt = c.at /\ p.id >= c.id)
After(p, c) == p.updatedAt > c.at \/ (p.updatedAt = c.at /\ p.id > c.id)

\* The WHERE clause of ListProductProjectionPage.
Matches(p) ==
  /\ since # Never => p.updatedAt > since
  /\ cursor # Start => After(p, cursor)

Ordered(s) == \A i, j \in DOMAIN s : i < j => Before(s[i], s[j])

\* The rows that match, in the one order they have: their ids differ.
Rows == CHOOSE s \in SetToSeqs({p \in products : Matches(p)}) : Ordered(s)

\* LIMIT PageSize + 1, of which PageSize are kept.
Items == SubSeq(Rows, 1, IF Len(Rows) < PageSize THEN Len(Rows) ELSE PageSize)
HasNext == Len(Rows) > PageSize

\* encodeCursor of the last row delivered.
NextCursor ==
  IF HasNext THEN [at |-> Last(Items).updatedAt, id |-> Last(Items).id] ELSE Start

-----------------------------------------------------------------------------
(***************************************************************************)
(* The service and its client                                              *)
(***************************************************************************)
FirstPage == cursor = Start

\* The request arrives and ListProductProjections captures its sync token, of
\* which the client keeps that of the first page.  The clock has moved on
\* before any other transaction begins.
Arrive ==
  /\ ~arrived
  /\ rounds < MaxRounds
  /\ arrived' = TRUE
  /\ IF FirstPage
     THEN /\ clock < MaxTime
          /\ token' = clock
          /\ clock' = clock + 1
          /\ inFlight' = {w \in Writers : pc[w] # "idle"}
          /\ delivered' = <<>>
     ELSE UNCHANGED <<clock, token, inFlight, delivered>>
  /\ UNCHANGED <<products, nextID, job, pc, outcome, began, locked, existing, written,
                 since, cursor, rounds, copy, steady, late>>

\* The syncToken of a round's first page.  (Variant for the checks: the time at
\* which the response is made.)
TokenOfResponse == clock
SyncToken == token

\* The query of ListProductProjectionPage and the response, by which the client
\* replaces its copy of each row.
Respond ==
  /\ arrived
  /\ arrived' = FALSE
  /\ copy' = {p \in copy : \A q \in Range(Items) : q.id # p.id} \cup Range(Items)
  /\ delivered' = delivered \o Items
  /\ cursor' = NextCursor
  /\ IF HasNext
     THEN UNCHANGED <<since, rounds>>
     ELSE since' = SyncToken /\ rounds' = rounds + 1
  /\ steady' = IF FirstPage THEN products ELSE steady
  /\ UNCHANGED <<vars, token, inFlight, late>>

\* The query fails or the response is lost; the client repeats the request.
Lose ==
  /\ arrived
  /\ arrived' = FALSE
  /\ UNCHANGED <<vars, since, cursor, token, rounds, copy, delivered, steady, inFlight, late>>

\* The transactions go on; what they commit is recorded for the properties.
StoreStep ==
  /\ Next
  /\ steady' = steady \cap products'
  /\ late' = late \cup UNION {written[w] : w \in {v \in inFlight : pc[v] = "commit" /\ pc'[v] = "idle"}}
  /\ inFlight' = {w \in inFlight : pc'[w] # "idle"}
  /\ UNCHANGED <<arrived, since, cursor, token, rounds, copy, delivered>>

SyncNext == StoreStep \/ Arrive \/ Respond \/ Lose

SyncSpec == SyncInit /\ [][SyncNext]_syncVars

-----------------------------------------------------------------------------
\* The client has finished a round and begun no other.
RoundOver == ~arrived /\ cursor = Start /\ rounds > 0

\* Keyset pages skip nothing (ADR-001.md:511-516): whatever is inserted, updated
\* or deleted between the pages of a round, a row that stays as it is from the
\* first query on is delivered.
SteadyRowsDelivered ==
  cursor # Start =>
    \A p \in steady : p \in Range(delivered) \/ After(p, cursor)
                      \/ (since # Never /\ p.updatedAt <= since)

\* ... and repeat nothing: the rows of a round come in the order of their keys,
\* although transactions that began earlier may commit smaller ones meanwhile.
NothingRepeated == Ordered(delivered)

\* At the end of a round every row is in the client's copy as it is committed,
\* or is newer than the token the next round asks with, or was committed by a
\* transaction that was open when the token was captured: nothing else is lost.
OnlyInFlightLost ==
  RoundOver => \A p \in products : p \in copy \/ p.updatedAt > since \/ p \in late

\* "Capture syncToken before any DB query so concurrent updates are not lost."
\* (default_catalog_service.go:252)
ConcurrentUpdatesKept ==
  RoundOver => \A p \in products : p \in copy \/ p.updatedAt > since
=============================================================================
