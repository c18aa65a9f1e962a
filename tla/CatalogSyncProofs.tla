------------------------- MODULE CatalogSyncProofs -------------------------
(***************************************************************************)
(* Proofs about CatalogSync, for any number of writers and products, any   *)
(* size of the pages and any number of rounds.                             *)
(***************************************************************************)
EXTENDS CatalogSync, CatalogStoreProofs, FiniteSetTheorems, SequenceTheorems

-----------------------------------------------------------------------------
(***************************************************************************)
(* The order of the rows                                                   *)
(***************************************************************************)
\* Of some numbers one is the least.
LEMMA LeastNat ==
  ASSUME NEW T \in SUBSET Nat, T # {}
  PROVE  \E n \in T : \A k \in T : n <= k
<1>1. PICK n \in T : \A k \in T : ~(<<k, n>> \in OpToRel(<, Nat))
  BY WFMin, NatLessThanWellFounded
<1>2. \A k \in T : ~(k < n)
  BY <1>1 DEF OpToRel
<1> QED BY <1>2

\* Some rows of which no two have the same id.
KeysDiffer(S) == \A p, q \in S : p.id = q.id => p = q

\* One of them comes before all the others.
LEMMA FirstRow ==
  ASSUME NEW S \in SUBSET Product, S # {}, KeysDiffer(S)
  PROVE  \E m \in S : \A p \in S \ {m} : Before(m, p)
<1>1. \A p \in S : p.id \in Nat /\ p.updatedAt \in Nat
  BY StoreAssumption DEF Product
<1>2. PICK t \in {p.updatedAt : p \in S} : \A u \in {p.updatedAt : p \in S} : t <= u
  <2>1. {p.updatedAt : p \in S} \in SUBSET Nat /\ {p.updatedAt : p \in S} # {}
    BY <1>1
  <2> QED BY <2>1, LeastNat
<1> DEFINE oldest == {p \in S : p.updatedAt = t}
<1>3. PICK i \in {p.id : p \in oldest} : \A j \in {p.id : p \in oldest} : i <= j
  <2>1. {p.id : p \in oldest} \in SUBSET Nat /\ {p.id : p \in oldest} # {}
    BY <1>1, <1>2
  <2> QED BY <2>1, LeastNat
<1>4. PICK m \in S : m.updatedAt = t /\ m.id = i
  BY <1>3
<1>5. ASSUME NEW p \in S \ {m} PROVE Before(m, p)
  <2>1. p.id # m.id /\ t <= p.updatedAt /\ (p.updatedAt = t => i <= p.id)
    BY <1>2, <1>3 DEF KeysDiffer
  <2> QED BY <1>1, <1>4, <2>1 DEF Before
<1> QED BY <1>5

\* Putting the first row before the others in order puts them all in order.
LEMMA PrependFirst ==
  ASSUME NEW T \in SUBSET Product, IsFiniteSet(T), NEW m \in T,
         \A p \in T \ {m} : Before(m, p),
         NEW s \in SetToSeqs(T \ {m}), Ordered(s)
  PROVE  \E t \in SetToSeqs(T) : Ordered(t)
<1> DEFINE n == Cardinality(T)
           t == [i \in 1..n |-> IF i = 1 THEN m ELSE s[i - 1]]
<1>1. n \in Nat /\ n >= 1 /\ Cardinality(T \ {m}) = n - 1
  BY FS_CardinalityType, FS_RemoveElement, FS_EmptySet
<1>2. /\ s \in [1..(n - 1) -> T \ {m}]
      /\ \A i, j \in 1..(n - 1) : i # j => s[i] # s[j]
      /\ \A i, j \in 1..(n - 1) : i < j => Before(s[i], s[j])
  BY <1>1 DEF SetToSeqs, Ordered
<1> HIDE DEF n
<1>3. /\ \A i \in 2..n : t[i] = s[i - 1] /\ i - 1 \in 1..(n - 1) /\ t[i] \in T \ {m}
      /\ t[1] = m /\ 1..n = {1} \cup 2..n
  BY <1>1, <1>2
<1>4. t \in [1..n -> T]
  BY <1>1, <1>2
<1> HIDE DEF t
<1>5. ASSUME NEW i \in 1..n, NEW j \in 1..n, i < j
      PROVE  t[i] # t[j] /\ Before(t[i], t[j])
  <2>0. j \in 2..n
    BY <1>1, <1>5
  <2>1. CASE i = 1
    BY <1>3, <2>0, <2>1
  <2>2. CASE i \in 2..n
    <3>1. i - 1 \in 1..(n - 1) /\ j - 1 \in 1..(n - 1) /\ i - 1 < j - 1 /\ i - 1 # j - 1
      BY <1>1, <1>5, <2>0, <2>2
    <3> QED BY <1>2, <1>3, <2>0, <2>2, <3>1
  <2> QED BY <1>1, <2>1, <2>2
<1>6. \A i, j \in 1..n : i # j => t[i] # t[j]
  <2>1. \A i, j \in 1..n : i # j => i < j \/ j < i
    BY <1>1
  <2> QED BY <1>5, <2>1
<1>7. Ordered(t)
  BY <1>4, <1>5 DEF Ordered
<1> QED BY <1>4, <1>6, <1>7 DEF SetToSeqs, n

\* Any finite set of them can be put in order: were there a set that cannot, there
\* would be a smallest one, and it would have a first row.
LEMMA OrderExists ==
  ASSUME NEW S \in SUBSET Product, IsFiniteSet(S), KeysDiffer(S)
  PROVE  \E s \in SetToSeqs(S) : Ordered(s)
<1> DEFINE Orderable(T) == \E s \in SetToSeqs(T) : Ordered(s)
           Bad == {n \in Nat : \E T \in SUBSET S : Cardinality(T) = n /\ ~Orderable(T)}
<1>1. SUFFICES ASSUME ~Orderable(S) PROVE FALSE
  OBVIOUS
<1>2. Cardinality(S) \in Bad
  BY <1>1, FS_CardinalityType
<1>3. PICK n \in Bad : \A k \in Bad : n <= k
  <2>1. Bad \in SUBSET Nat /\ Bad # {}
    BY <1>2
  <2> HIDE DEF Bad
  <2> QED BY <2>1, LeastNat
<1>4. PICK T \in SUBSET S : Cardinality(T) = n /\ ~Orderable(T)
  BY <1>3
<1>5. IsFiniteSet(T) /\ n \in Nat
  BY <1>3, FS_Subset
<1>6. T # {}
  <2>1. SUFFICES Orderable({})
    BY <1>4
  <2>2. Cardinality({}) = 0
    BY FS_EmptySet
  <2>3. << >> \in SetToSeqs({}) /\ Ordered(<< >>)
    BY <2>2 DEF SetToSeqs, Ordered
  <2> QED BY <2>3
<1>7. PICK m \in T : \A p \in T \ {m} : Before(m, p)
  <2>1. T \in SUBSET Product /\ KeysDiffer(T)
    BY DEF KeysDiffer
  <2> QED BY <1>6, <2>1, FirstRow
<1>8. Cardinality(T \ {m}) = n - 1
  BY <1>4, <1>5, FS_RemoveElement
<1>9. Orderable(T \ {m})
  <2>1. n - 1 \notin Bad
    BY <1>3, <1>5
  <2>2. n - 1 \in Nat
    BY <1>5, <1>8, FS_RemoveElement, FS_CardinalityType
  <2> QED BY <1>8, <2>1, <2>2
<1>10. Orderable(T)
  BY <1>5, <1>7, <1>9, PrependFirst
<1> QED BY <1>4, <1>10

\* The cursor of a row is passed by those that come after it in the order.
LEMMA AfterBefore ==
  ASSUME NEW p \in Product, NEW q \in Product
  PROVE  /\ After(q, [at |-> p.updatedAt, id |-> p.id]) <=> Before(p, q)
         /\ Before(p, q) => ~Before(q, p)
         /\ ~Before(p, p)
BY StoreAssumption DEF After, Before, Product

\* What lies before a cursor lies before all that comes after it, and before the
\* cursor of any of that.
LEMMA CursorOrder ==
  ASSUME NEW d \in Product, NEW q \in Product, NEW c \in [at : 0..MaxTime, id : 1..MaxProducts],
         ~After(d, c), After(q, c)
  PROVE  Before(d, q) /\ ~After(d, [at |-> q.updatedAt, id |-> q.id])
BY StoreAssumption DEF After, Before, Product

\* What the first elements of a sequence are.
LEMMA PrefixElements ==
  ASSUME NEW S, NEW s \in Seq(S), NEW n \in 0..Len(s)
  PROVE  /\ SubSeq(s, 1, n) \in Seq(S) /\ Len(SubSeq(s, 1, n)) = n
         /\ \A i \in 1..n : SubSeq(s, 1, n)[i] = s[i]
<1>1. Len(s) \in Nat /\ n \in Int /\ \A i \in 1..n : s[i] \in S
  BY LenProperties, ElementOfSeq
<1>2. /\ SubSeq(s, 1, n) \in Seq(S) /\ Len(SubSeq(s, 1, n)) = IF 1 <= n THEN n - 1 + 1 ELSE 0
      /\ \A i \in 1..(n - 1 + 1) : SubSeq(s, 1, n)[i] = s[1 + i - 1]
  BY <1>1, SubSeqProperties
<1> QED BY <1>1, <1>2

\* The first elements of an ordered sequence come before the others.
LEMMA PrefixOrdered ==
  ASSUME NEW s \in Seq(Product), Ordered(s), NEW n \in 0..Len(s)
  PROVE  LET items == SubSeq(s, 1, n) IN
           /\ items \in Seq(Product) /\ Ordered(items)
           /\ Range(items) \subseteq Range(s)
           /\ n = Len(s) => Range(items) = Range(s)
           /\ n > 0 =>
                /\ Last(items) \in Range(items)
                /\ \A p \in Range(items) : ~Before(Last(items), p)
                /\ \A p \in Range(s) \ Range(items) : Before(Last(items), p)
<1> DEFINE items == SubSeq(s, 1, n)
<1>1. /\ Len(s) \in Nat /\ DOMAIN s = 1..Len(s) /\ \A i \in 1..Len(s) : s[i] \in Product
      /\ n \in Nat /\ n <= Len(s)
  BY LenProperties, ElementOfSeq
<1>2. items \in Seq(Product) /\ Len(items) = n /\ \A i \in 1..n : items[i] = s[i]
  BY PrefixElements
<1>3. DOMAIN items = 1..n
  BY <1>2, LenProperties
<1> HIDE DEF items
<1>4. Ordered(items)
  <2>1. ASSUME NEW i \in 1..n, NEW j \in 1..n, i < j PROVE Before(items[i], items[j])
    <3>1. i \in 1..Len(s) /\ j \in 1..Len(s)
      BY <1>1
    <3>2. Before(s[i], s[j])
      BY <1>1, <2>1, <3>1 DEF Ordered
    <3> QED BY <1>2, <3>2
  <2> QED BY <1>3, <2>1 DEF Ordered
<1>5. Range(items) = {s[i] : i \in 1..n} /\ Range(s) = {s[i] : i \in 1..Len(s)}
  BY <1>1, <1>2, <1>3 DEF Range
<1>6. Range(items) \subseteq Range(s) /\ (n = Len(s) => Range(items) = Range(s))
  <2>1. \A i \in 1..n : i \in 1..Len(s)
    BY <1>1
  <2> QED BY <1>5, <2>1
<1>7. ASSUME n > 0
      PROVE  /\ Last(items) \in Range(items)
             /\ \A p \in Range(items) : ~Before(Last(items), p)
             /\ \A p \in Range(s) \ Range(items) : Before(Last(items), p)
  <2>1. n \in 1..n /\ n \in 1..Len(s) /\ s[n] \in Product
    BY <1>1, <1>7
  <2>2. Last(items) = s[n]
    BY <1>2, <2>1 DEF Last
  <2>3. ASSUME NEW p \in Range(items) PROVE ~Before(s[n], p)
    <3>1. PICK i \in 1..n : p = s[i]
      BY <1>5
    <3>2. i \in 1..Len(s) /\ p \in Product
      BY <1>1, <3>1
    <3>3. CASE i = n
      BY <2>1, <3>1, <3>3, AfterBefore
    <3>4. CASE i < n
      <4>1. Before(p, s[n])
        BY <1>1, <2>1, <3>1, <3>2, <3>4 DEF Ordered
      <4> QED BY <2>1, <3>2, <4>1, AfterBefore
    <3> QED BY <1>1, <3>3, <3>4
  <2>4. ASSUME NEW p \in Range(s) \ Range(items) PROVE Before(s[n], p)
    <3>1. PICK i \in 1..Len(s) : p = s[i]
      BY <1>5
    <3>2. i \notin 1..n
      BY <1>5, <3>1
    <3>3. n < i
      BY <1>1, <3>2
    <3> QED BY <1>1, <2>1, <3>1, <3>3 DEF Ordered
  <2>5. s[n] \in Range(items)
    BY <1>5, <2>1
  <2> QED BY <2>2, <2>3, <2>4, <2>5
<1> QED BY <1>2, <1>4, <1>6, <1>7 DEF items

\* One sequence after another: ordered, if both are and the one comes before the
\* other.
LEMMA ConcatOrdered ==
  ASSUME NEW s \in Seq(Product), NEW t \in Seq(Product)
  PROVE  /\ s \o t \in Seq(Product)
         /\ Range(s \o t) = Range(s) \cup Range(t)
         /\ Ordered(s) /\ Ordered(t) /\ (\A p \in Range(s), q \in Range(t) : Before(p, q))
              => Ordered(s \o t)
<1> DEFINE u == s \o t
<1>1. PICK m \in Nat, n \in Nat : m = Len(s) /\ n = Len(t)
  BY LenProperties
<1>2. DOMAIN s = 1..m /\ DOMAIN t = 1..n
  BY <1>1, LenProperties
<1>3. /\ u \in Seq(Product) /\ Len(u) = m + n
      /\ \A i \in 1..(m + n) : u[i] = IF i <= m THEN s[i] ELSE t[i - m]
  BY <1>1, ConcatProperties
<1>4. DOMAIN u = 1..(m + n)
  BY <1>3, LenProperties
<1> HIDE DEF u
<1>5. \A i \in 1..(m + n) : \/ i \in 1..m /\ u[i] = s[i]
                            \/ i > m /\ i - m \in 1..n /\ u[i] = t[i - m]
  BY <1>1, <1>3
<1>6. Range(s) = {s[i] : i \in 1..m} /\ Range(t) = {t[i] : i \in 1..n}
      /\ Range(u) = {u[i] : i \in 1..(m + n)}
  BY <1>2, <1>4 DEF Range
<1>7. Range(u) = Range(s) \cup Range(t)
  <2>1. ASSUME NEW i \in 1..m PROVE s[i] \in Range(u)
    <3>1. i \in 1..(m + n) /\ u[i] = s[i]
      BY <1>1, <1>3
    <3> QED BY <1>6, <3>1
  <2>2. ASSUME NEW i \in 1..n PROVE t[i] \in Range(u)
    <3>1. i + m \in 1..(m + n) /\ ~(i + m <= m) /\ i + m - m = i
      BY <1>1
    <3>2. u[i + m] = t[i]
      BY <1>3, <3>1
    <3> QED BY <1>6, <3>1, <3>2
  <2>3. ASSUME NEW i \in 1..(m + n) PROVE u[i] \in Range(s) \cup Range(t)
    BY <1>5, <1>6
  <2> QED BY <1>6, <2>1, <2>2, <2>3
<1>8. ASSUME Ordered(s), Ordered(t), \A p \in Range(s), q \in Range(t) : Before(p, q)
      PROVE  Ordered(u)
  <2>1. ASSUME NEW i \in 1..(m + n), NEW j \in 1..(m + n), i < j
        PROVE  Before(u[i], u[j])
    <3>1. CASE i \in 1..m /\ j \in 1..m
      <4>1. u[i] = s[i] /\ u[j] = s[j]
        BY <1>1, <1>3, <3>1
      <4> QED BY <1>2, <1>8, <2>1, <3>1, <4>1 DEF Ordered
    <3>2. CASE i > m /\ j > m
      <4>1. i - m \in 1..n /\ j - m \in 1..n /\ i - m < j - m
        BY <1>1, <2>1, <3>2
      <4>2. u[i] = t[i - m] /\ u[j] = t[j - m]
        BY <1>1, <1>3, <3>2
      <4> QED BY <1>2, <1>8, <4>1, <4>2 DEF Ordered
    <3>3. CASE i \in 1..m /\ j > m
      <4>1. u[i] = s[i] /\ u[j] = t[j - m] /\ j - m \in 1..n
        BY <1>1, <1>3, <3>3
      <4> QED BY <1>6, <1>8, <3>3, <4>1
    <3> QED BY <1>1, <2>1, <3>1, <3>2, <3>3
  <2> QED BY <1>4, <2>1 DEF Ordered
<1> QED BY <1>3, <1>7, <1>8 DEF u

-----------------------------------------------------------------------------
(***************************************************************************)
(* A page                                                                  *)
(***************************************************************************)
\* The rows that the query selects.
Selected == {p \in products : Matches(p)}

\* There are no more rows than ids, and no two with the same one.
LEMMA ProductsFinite ==
  ASSUME Inv
  PROVE  IsFiniteSet(products) /\ KeysDiffer(products)
<1>1. KeysDiffer(products)
  BY DEF Inv, UniqueRows, KeysDiffer
<1> DEFINE f == [p \in products |-> p.id]
<1>2. f \in Injection(products, 1..MaxProducts)
  BY <1>1 DEF Injection, IsInjective, KeysDiffer, Inv, TypeOK, Product
<1>3. IsFiniteSet(1..MaxProducts)
  BY StoreAssumption, FS_Interval
<1> QED BY <1>1, <1>2, <1>3, FS_Injection

\* The rows that the query selects, each once and in order.
LEMMA RowsProperties ==
  ASSUME Inv
  PROVE  /\ Rows \in Seq(Product) /\ Ordered(Rows)
         /\ Range(Rows) = Selected
<1>1. IsFiniteSet(Selected) /\ KeysDiffer(Selected) /\ Selected \in SUBSET Product
  <2>1. Selected \in SUBSET products
    BY DEF Selected
  <2> QED BY <2>1, ProductsFinite, FS_Subset DEF KeysDiffer, Inv, TypeOK
<1>2. Rows \in SetToSeqs(Selected) /\ Ordered(Rows)
  <2>1. \E s \in SetToSeqs(Selected) : Ordered(s)
    BY <1>1, OrderExists
  <2> QED BY <2>1 DEF Rows, Selected
<1> DEFINE n == Cardinality(Selected)
<1>3. n \in Nat
  BY <1>1, FS_CardinalityType
<1>4. Rows \in [1..n -> Selected] /\ \A i, j \in 1..n : i # j => Rows[i] # Rows[j]
  BY <1>2 DEF SetToSeqs
<1>5. Rows \in Injection(1..n, Selected)
  BY <1>4 DEF Injection, IsInjective
<1>6. Cardinality(1..n) = n
  BY <1>3, FS_Interval
<1>7. Rows \in Surjection(1..n, Selected)
  BY <1>1, <1>5, <1>6, FS_Injection
<1> HIDE DEF n
<1>8. Range(Rows) = Selected
  BY <1>4, <1>7 DEF Surjection, Range
<1>9. Rows \in [1..n -> Product]
  BY <1>1, <1>4
<1> QED BY <1>2, <1>3, <1>8, <1>9, SeqDef

\* The page holds the first rows of those selected; its cursor is the key of its
\* last row, and is passed by the rows selected that are not on it.
LEMMA PageProperties ==
  ASSUME Inv
  PROVE  /\ Items \in Seq(Product) /\ Ordered(Items)
         /\ Range(Items) \subseteq Selected
         /\ ~HasNext => Range(Items) = Selected /\ NextCursor = Start
         /\ HasNext =>
              /\ NextCursor \in [at : 0..MaxTime, id : 1..MaxProducts]
              /\ \E r \in Range(Items) : NextCursor = [at |-> r.updatedAt, id |-> r.id]
              /\ \A p \in Range(Items) : ~After(p, NextCursor)
              /\ \A p \in Selected \ Range(Items) : After(p, NextCursor)
<1>1. Rows \in Seq(Product) /\ Ordered(Rows) /\ Range(Rows) = Selected
  BY RowsProperties
<1>2. PICK len \in Nat : len = Len(Rows)
  BY <1>1, LenProperties
<1>3. PICK n \in 0..len : n = IF len < PageSize THEN len ELSE PageSize
  BY <1>2, SyncAssumption
<1>4. len > PageSize => n > 0 /\ n = PageSize
  BY <1>2, <1>3, SyncAssumption
<1>5. ~(len > PageSize) => n = len
  BY <1>2, <1>3, SyncAssumption
<1>6. Items = SubSeq(Rows, 1, n) /\ (HasNext <=> len > PageSize)
  BY <1>2, <1>3 DEF Items, HasNext
<1> DEFINE items == SubSeq(Rows, 1, n)
<1>7. /\ items \in Seq(Product) /\ Ordered(items)
      /\ Range(items) \subseteq Selected
      /\ n = len => Range(items) = Selected
      /\ n > 0 =>
           /\ Last(items) \in Range(items)
           /\ \A p \in Range(items) : ~Before(Last(items), p)
           /\ \A p \in Selected \ Range(items) : Before(Last(items), p)
  BY <1>1, <1>2, PrefixOrdered
<1> HIDE DEF items
<1>8. Selected \subseteq Product
  BY DEF Selected, Inv, TypeOK
<1>9. CASE ~(len > PageSize)
  <2>1. ~HasNext
    BY <1>6, <1>9
  <2>2. NextCursor = Start
    BY <2>1, Zenon DEF NextCursor
  <2>3. Items = items /\ Range(items) = Selected
    BY <1>5, <1>6, <1>7, <1>9 DEF items
  <2> QED BY <1>6, <1>7, <2>1, <2>2, <2>3
<1>10. CASE len > PageSize
  <2>1. HasNext /\ Items = items /\ n > 0
    BY <1>4, <1>6, <1>10 DEF items
  <2>2. PICK r \in Range(items) : r = Last(items)
    BY <1>7, <2>1
  <2>0. r \in Product
    BY <1>7, <1>8
  <2>3. NextCursor = [at |-> r.updatedAt, id |-> r.id]
    BY <2>1, <2>2 DEF NextCursor
  <2>4. ASSUME NEW p \in Product PROVE After(p, NextCursor) <=> Before(r, p)
    BY <2>0, <2>3, AfterBefore
  <2>5. NextCursor \in [at : 0..MaxTime, id : 1..MaxProducts]
    BY <2>0, <2>3 DEF Product
  <2>6. \E q \in Range(Items) : NextCursor = [at |-> q.updatedAt, id |-> q.id]
    BY <2>1, <2>3
  <2> QED BY <1>6, <1>7, <1>8, <2>1, <2>2, <2>4, <2>5, <2>6
<1> QED BY <1>9, <1>10

-----------------------------------------------------------------------------
(***************************************************************************)
(* The store under the sync                                                *)
(***************************************************************************)
\* The client takes part in no transaction; that it asks takes time.
LEMMA StepsAreStoreSteps == [SyncNext]_syncVars => [Next]_vars
<1> SUFFICES ASSUME [SyncNext]_syncVars PROVE [Next]_vars
  OBVIOUS
<1>1. CASE Arrive
  BY <1>1 DEF Arrive, Next, Tick, vars
<1>2. CASE Respond \/ Lose
  BY <1>2 DEF Respond, Lose
<1> QED BY <1>1, <1>2 DEF SyncNext, StoreStep, syncVars

\* The store of a catalogue that is synced is the store of CatalogStore: whatever
\* is proved of its transactions holds beside the sync.
THEOREM ImplementsStore == SyncSpec => Spec
<1>1. SyncInit => Init
  BY DEF SyncInit
<1> QED BY <1>1, StepsAreStoreSteps, PTL DEF SyncSpec, Spec

\* What a transaction writes bears the time at which it began (NOW()).
Stamped == \A w \in Writers : \A p \in written[w] : p.updatedAt = began[w]

LEMMA StampedInit == Init => Stamped
BY DEF Init, Stamped

LEMMA StampedNext ==
  ASSUME Inv, Stamped, [Next]_vars
  PROVE  Stamped'
<1> USE DEF Stamped
<1>1. ASSUME NEW w \in Writers, NEW j \in Requests, Begin(w, j) PROVE Stamped'
  <2>1. written[w] = {}
    BY <1>1 DEF Begin, Inv, Fits, FitsWell, WritesFit, Indexes
  <2> QED BY <1>1, <2>1 DEF Begin, Inv, TypeOK
<1>2. ASSUME NEW w \in Writers, Insert(w) PROVE Stamped'
  BY <1>2 DEF Insert, Abort, CloseTx, Inv, TypeOK
<1>3. ASSUME NEW w \in Writers, Update(w) PROVE Stamped'
  <2>1. PICK p \in existing[w] :
          \/ written' = written
          \/ written' = [written EXCEPT ![w] = {[Merged(w, p) EXCEPT !.updatedAt = began[w]]}]
    BY <1>3 DEF Update
  <2>2. PICK r : r = [Merged(w, p) EXCEPT !.updatedAt = began[w]]
    OBVIOUS
  <2>3. r.updatedAt = began[w]
    BY <2>2 DEF Merged, Inv, TypeOK, Product
  <2>4. began' = began
    BY <1>3 DEF Update
  <2>5. written' = written \/ written' = [written EXCEPT ![w] = {r}]
    BY <2>1, <2>2
  <2> QED BY <2>3, <2>4, <2>5 DEF Inv, TypeOK
<1>4. ASSUME NEW w \in Writers, EndTx(w) PROVE Stamped'
  BY <1>4 DEF EndTx, CloseTx, Inv, TypeOK
<1>5. ASSUME NEW w \in Writers, SelectForUpdate(w) \/ Delete(w) PROVE Stamped'
  BY <1>5 DEF SelectForUpdate, Delete
<1>6. ASSUME NEW w \in Writers, EnterIndex(w) \/ Fail(w) \/ BreakDeadlock(w) PROVE Stamped'
  BY <1>6 DEF EnterIndex, Fail, BreakDeadlock, Abort, CloseTx, Inv, TypeOK
<1>7. CASE Tick \/ UNCHANGED vars
  BY <1>7 DEF Tick, vars
<1> QED BY <1>1, <1>2, <1>3, <1>4, <1>5, <1>6, <1>7
        DEF Next, Step, Statement, Commit, Rollback

\* A row appears when the transaction commits that has written it, with the time
\* at which it began.
LEMMA RowsAppear ==
  ASSUME Inv, Stamped, Next, NEW p \in products', p \notin products
  PROVE  \E w \in Writers :
           /\ pc[w] = "commit" /\ pc'[w] = "idle"
           /\ p \in written[w] /\ p.updatedAt = began[w]
<1>1. PICK w \in Writers : Commit(w)
  <2>1. products' # products
    OBVIOUS
  <2> QED BY <2>1 DEF Next, Step, Statement, Begin, Insert, SelectForUpdate, Update,
                      EnterIndex, Delete, Rollback, Fail, BreakDeadlock, Tick
<1> QED BY <1>1 DEF Commit, EndTx, Goto, Inv, TypeOK, Stamped

-----------------------------------------------------------------------------
(***************************************************************************)
(* The invariant of the sync                                               *)
(***************************************************************************)
\* A row that the next round will ask for, or that was committed by a
\* transaction that was open when a token was captured.
Fresh(p, t) == p.updatedAt > t \/ p \in late

\* A round is on, or one is over: the token is that of its first page.
Captured == arrived \/ cursor # Start \/ rounds > 0

\* The token lies in the past, and a transaction that is open was so when it was
\* captured, or has begun later.
TokenInv ==
  /\ arrived => rounds < MaxRounds
  /\ since # Never <=> rounds > 0
  /\ since # Never => since <= token
  /\ Captured => token < clock
  /\ Captured => \A w \in Writers : pc[w] # "idle" => w \in inFlight \/ began[w] > token

\* What the round has delivered lies before its cursor, in order.
DeliveredInv ==
  /\ arrived /\ cursor = Start => delivered = <<>>
  /\ cursor # Start => \A i \in DOMAIN delivered : ~After(delivered[i], cursor)
  /\ NothingRepeated

\* What is committed is in the client's copy, will come with this round, or will
\* come with the next one.
CopyInv ==
  /\ steady \subseteq products
  /\ SteadyRowsDelivered
  /\ cursor # Start =>
       \A p \in products :
         /\ p \in steady \/ Fresh(p, token)
         /\ p \in Range(delivered) => p \in copy \/ Fresh(p, token)
  /\ since # Never => \A p \in products : p \in copy \/ Fresh(p, since)

SyncInv ==
  SyncTypeOK /\ Inv /\ Stamped /\ TokenInv /\ DeliveredInv /\ CopyInv

LEMMA SyncInitInv == SyncInit => SyncInv
<1> SUFFICES ASSUME SyncInit PROVE SyncInv
  OBVIOUS
<1> USE DEF SyncInit
<1>1. Inv /\ Stamped
  BY InitInv, StampedInit
<1>2. << >> \in Seq(Product) /\ Ordered(<< >>)
  BY DEF Ordered
<1>3. SyncTypeOK
  <2>1. TypeOK /\ 0 \in 0..MaxTime /\ 0 \in 0..MaxRounds
    BY <1>1, StoreAssumption, SyncAssumption DEF Inv
  <2>2. delivered \in Seq(Product)
    BY <1>2
  <2> QED BY <2>1, <2>2 DEF SyncTypeOK
<1>4. TokenInv
  BY SyncAssumption DEF TokenInv, Captured
<1>5. DeliveredInv
  BY <1>2 DEF DeliveredInv, NothingRepeated
<1>6. CopyInv
  BY DEF CopyInv, SteadyRowsDelivered
<1> QED BY <1>1, <1>3, <1>4, <1>5, <1>6 DEF SyncInv

\* What a step of the transactions does to the clock and to those that are open.
LEMMA OpenTransactions ==
  ASSUME Inv, Next
  PROVE  /\ clock' >= clock
         /\ \A w \in Writers : pc'[w] # "idle" =>
              \/ pc[w] # "idle" /\ began'[w] = began[w]
              \/ pc[w] = "idle" /\ began'[w] = clock
<1> USE DEF Inv, TypeOK
<1>1. ASSUME NEW v \in Writers, NEW j \in Requests, Begin(v, j)
      PROVE  /\ clock' = clock
             /\ \A w \in Writers \ {v} : pc'[w] = pc[w] /\ began'[w] = began[w]
             /\ pc[v] = "idle" /\ began'[v] = clock
  BY <1>1 DEF Begin, Goto, GiveUp
<1>2. ASSUME NEW v \in Writers, Statement(v) \/ Fail(v) \/ BreakDeadlock(v)
      PROVE  /\ clock' = clock /\ began' = began /\ pc[v] # "idle"
             /\ \A w \in Writers \ {v} : pc'[w] = pc[w]
  <2>1. CASE Insert(v) \/ SelectForUpdate(v) \/ Update(v) \/ Delete(v)
    BY <2>1 DEF Insert, SelectForUpdate, Update, Delete, Abort, Goto, GiveUp
  <2>2. CASE EnterIndex(v)
    BY <2>2 DEF EnterIndex, Abort, Goto, GiveUp, Indexes
  <2>3. CASE Fail(v)
    BY <2>3 DEF Fail, Abort, Goto, GiveUp
  <2>4. CASE BreakDeadlock(v)
    <3>1. \E w \in Writers : WaitsFor(v, w)
      BY <2>4 DEF BreakDeadlock, Cycle
    <3>2. pc[v] # "idle"
      BY <3>1 DEF WaitsFor, Indexes
    <3> QED BY <2>4, <3>2 DEF BreakDeadlock, Abort, Goto, GiveUp
  <2> QED BY <1>2, <2>1, <2>2, <2>3, <2>4 DEF Statement
<1>3. ASSUME NEW v \in Writers, Commit(v) \/ Rollback(v)
      PROVE  /\ clock' = clock /\ pc'[v] = "idle"
             /\ \A w \in Writers \ {v} : pc'[w] = pc[w] /\ began'[w] = began[w]
  BY <1>3 DEF Commit, Rollback, EndTx, Goto
<1>4. CASE Tick
  BY <1>4 DEF Tick
<1>5. clock \in Nat
  BY StoreAssumption
<1>6. CASE \E v \in Writers, j \in Requests : Begin(v, j)
  <2>1. PICK v \in Writers, j \in Requests : Begin(v, j)
    BY <1>6
  <2> QED BY <1>1, <1>5, <2>1
<1>7. CASE \E v \in Writers : Statement(v) \/ Fail(v) \/ BreakDeadlock(v)
  <2>1. PICK v \in Writers : Statement(v) \/ Fail(v) \/ BreakDeadlock(v)
    BY <1>7
  <2> QED BY <1>2, <1>5, <2>1
<1>8. CASE \E v \in Writers : Commit(v) \/ Rollback(v)
  <2>1. PICK v \in Writers : Commit(v) \/ Rollback(v)
    BY <1>8
  <2> QED BY <1>3, <1>5, <2>1
<1> QED BY <1>4, <1>5, <1>6, <1>7, <1>8 DEF Next, Step, Tick

\* What the transactions commit while a round is on will come with the next one,
\* or is from a transaction that was open when the token was captured.
LEMMA NewIsFresh ==
  ASSUME SyncInv, Captured, StoreStep, NEW p \in products', p \notin products
  PROVE  Fresh(p, token)'
<1>1. PICK w \in Writers : /\ pc[w] = "commit" /\ pc'[w] = "idle"
                           /\ p \in written[w] /\ p.updatedAt = began[w]
  BY RowsAppear DEF SyncInv, StoreStep
<1>2. w \in inFlight \/ began[w] > token
  BY <1>1 DEF SyncInv, TokenInv
<1>3. token' = token
  BY DEF StoreStep
<1>4. CASE w \in inFlight
  <2>1. p \in late'
    BY <1>1, <1>4 DEF StoreStep
  <2> QED BY <2>1 DEF Fresh
<1>5. CASE began[w] > token
  BY <1>1, <1>3, <1>5 DEF Fresh
<1> QED BY <1>2, <1>4, <1>5

\* The transactions disturb nothing of the round: a row they change is no longer
\* steady, and is fresh.
LEMMA StoreStepInv ==
  ASSUME SyncInv, StoreStep
  PROVE  TokenInv' /\ DeliveredInv' /\ CopyInv'
<1>0. Inv /\ Next /\ TokenInv /\ DeliveredInv /\ CopyInv
  BY DEF SyncInv, StoreStep
<1>1. /\ arrived' = arrived /\ since' = since /\ cursor' = cursor /\ token' = token
      /\ rounds' = rounds /\ copy' = copy /\ delivered' = delivered
      /\ steady' = steady \cap products' /\ late \subseteq late'
      /\ inFlight' = {w \in inFlight : pc'[w] # "idle"}
  BY DEF StoreStep
<1>2. clock \in Nat /\ clock' \in Nat /\ token \in Nat /\ \A w \in Writers : began[w] \in Nat
  <2>1. TypeOK' /\ TypeOK
    BY <1>0, NextInv DEF Inv
  <2> QED BY <2>1, StoreAssumption DEF TypeOK, SyncInv, SyncTypeOK
<1>3. Captured' <=> Captured
  BY <1>1 DEF Captured
<1>4. TokenInv'
  <2>1. ASSUME Captured PROVE token < clock'
    BY <1>0, <1>2, <2>1, OpenTransactions DEF TokenInv
  <2>2. ASSUME Captured, NEW w \in Writers, pc'[w] # "idle"
        PROVE  w \in inFlight' \/ began'[w] > token
    BY <1>0, <1>1, <1>2, <2>2, OpenTransactions DEF TokenInv
  <2> QED BY <1>0, <1>1, <1>3, <2>1, <2>2 DEF TokenInv
<1>5. DeliveredInv'
  BY <1>0, <1>1 DEF DeliveredInv, NothingRepeated
<1>6. ASSUME NEW p \in products, NEW t, Fresh(p, t) PROVE Fresh(p, t)'
  BY <1>1, <1>6 DEF Fresh
<1>7. CopyInv'
  <2>1. (steady \subseteq products)'
    BY <1>1
  <2>2. SteadyRowsDelivered'
    BY <1>0, <1>1 DEF CopyInv, SteadyRowsDelivered
  <2>3. ASSUME cursor # Start, NEW p \in products'
        PROVE  /\ p \in steady' \/ Fresh(p, token)'
               /\ p \in Range(delivered) => p \in copy \/ Fresh(p, token)'
    <3>1. CASE p \in products
      BY <1>0, <1>1, <2>3, <3>1 DEF CopyInv, Fresh
    <3>2. CASE p \notin products
      <4>1. Captured
        BY <2>3 DEF Captured
      <4> QED BY <3>2, <4>1, NewIsFresh
    <3> QED BY <3>1, <3>2
  <2>4. ASSUME since # Never, NEW p \in products'
        PROVE  p \in copy \/ Fresh(p, since)'
    <3>1. CASE p \in products
      BY <1>0, <1>1, <2>4, <3>1 DEF CopyInv, Fresh
    <3>2. CASE p \notin products
      <4>1. Captured /\ since <= token /\ since \in Nat
        BY <1>0, <2>4 DEF Captured, TokenInv, SyncInv, SyncTypeOK
      <4>2. Fresh(p, token)'
        BY <3>2, <4>1, NewIsFresh
      <4>3. p.updatedAt \in Nat
        BY <1>0, NextInv, StoreAssumption DEF Inv, TypeOK, Product
      <4> QED BY <1>1, <1>2, <4>1, <4>2, <4>3 DEF Fresh
    <3> QED BY <3>1, <3>2
  <2> QED BY <1>1, <2>1, <2>2, <2>3, <2>4 DEF CopyInv
<1> QED BY <1>4, <1>5, <1>7

\* The transactions keep what the client has, and its types.
LEMMA StoreStepTypeOK ==
  ASSUME SyncInv, StoreStep
  PROVE  SyncTypeOK'
<1>1. TypeOK' /\ TypeOK
  BY NextInv DEF SyncInv, Inv, StoreStep
<1>2. \A w \in Writers : written[w] \subseteq Product
  BY <1>1 DEF TypeOK
<1>3. late' \subseteq Product /\ inFlight' \subseteq Writers /\ steady' \subseteq Product
  BY <1>2 DEF SyncInv, SyncTypeOK, StoreStep
<1> QED BY <1>1, <1>3 DEF SyncInv, SyncTypeOK, StoreStep

\* A first request captures a token; a later one changes nothing.
LEMMA ArriveInv ==
  ASSUME SyncInv, Arrive
  PROVE  SyncTypeOK' /\ Stamped' /\ TokenInv' /\ DeliveredInv' /\ CopyInv'
<1>0. Inv /\ SyncTypeOK /\ Stamped /\ TokenInv /\ DeliveredInv /\ CopyInv
  BY DEF SyncInv
<1>1. [Next]_vars
  BY StepsAreStoreSteps DEF SyncNext
<1>2. Inv' /\ Stamped' /\ TypeOK'
  BY <1>0, <1>1, NextInv, StampedNext DEF Inv
<1>3. /\ arrived' /\ rounds < MaxRounds /\ rounds' = rounds /\ since' = since
      /\ cursor' = cursor /\ copy' = copy /\ steady' = steady /\ late' = late
      /\ pc' = pc /\ began' = began /\ products' = products
  BY DEF Arrive
<1>4. CopyInv'
  <2>1. ASSUME cursor # Start PROVE token' = token /\ delivered' = delivered
    BY <2>1 DEF Arrive, FirstPage
  <2>2. SteadyRowsDelivered'
    BY <1>0, <1>3, <2>1 DEF CopyInv, SteadyRowsDelivered
  <2> QED BY <1>0, <1>3, <2>1, <2>2 DEF CopyInv, Fresh
<1>5. clock \in Nat /\ token \in Nat /\ (since # Never => since \in Nat)
  BY <1>0, StoreAssumption DEF SyncTypeOK, TypeOK
<1>6. CASE cursor = Start
  <2>1. /\ clock < MaxTime /\ token' = clock /\ clock' = clock + 1
        /\ inFlight' = {w \in Writers : pc[w] # "idle"} /\ delivered' = <<>>
    BY <1>6 DEF Arrive, FirstPage
  <2>2. SyncTypeOK'
    <3>1. clock \in 0..MaxTime
      BY <1>0 DEF SyncTypeOK, TypeOK
    <3>2. << >> \in Seq(Product)
      OBVIOUS
    <3> QED BY <1>0, <1>2, <1>3, <2>1, <3>1, <3>2 DEF SyncTypeOK
  <2>3. since # Never => since <= clock
    BY <1>0, <1>5 DEF TokenInv, Captured
  <2>4. clock < clock + 1
    BY <1>5
  <2>5. TokenInv'
    BY <1>0, <1>3, <2>1, <2>3, <2>4 DEF TokenInv
  <2>6. DeliveredInv'
    BY <1>3, <1>6, <2>1 DEF DeliveredInv, NothingRepeated, Ordered
  <2> QED BY <1>2, <1>4, <2>2, <2>5, <2>6
<1>7. CASE cursor # Start
  <2>1. /\ token' = token /\ clock' = clock /\ inFlight' = inFlight /\ delivered' = delivered
    BY <1>7 DEF Arrive, FirstPage
  <2>2. SyncTypeOK'
    BY <1>0, <1>2, <1>3, <2>1 DEF SyncTypeOK
  <2>3. TokenInv'
    BY <1>0, <1>3, <1>7, <2>1 DEF TokenInv, Captured
  <2>4. DeliveredInv'
    BY <1>0, <1>3, <1>7, <2>1 DEF DeliveredInv, NothingRepeated
  <2> QED BY <1>2, <1>4, <2>2, <2>3, <2>4
<1> QED BY <1>6, <1>7

\* A response that is lost leaves the round where it was.
LEMMA LoseInv ==
  ASSUME SyncInv, Lose \/ UNCHANGED syncVars
  PROVE  SyncTypeOK' /\ Stamped' /\ TokenInv' /\ DeliveredInv' /\ CopyInv'
<1>0. Inv /\ SyncTypeOK /\ Stamped /\ TokenInv /\ DeliveredInv /\ CopyInv
  BY DEF SyncInv
<1>1. /\ UNCHANGED <<vars, since, cursor, token, rounds, copy, delivered, steady, inFlight, late>>
      /\ arrived' \in BOOLEAN /\ (arrived' => arrived)
  <2>1. CASE Lose
    BY <2>1 DEF Lose
  <2>2. CASE UNCHANGED syncVars
    <3>1. arrived' = arrived /\ arrived \in BOOLEAN
      BY <1>0, <2>2 DEF syncVars, sync, SyncTypeOK
    <3>2. arrived' \in BOOLEAN /\ (arrived' => arrived)
      BY <3>1, Zenon
    <3>3. UNCHANGED <<vars, since, cursor, token, rounds, copy, delivered, steady, inFlight, late>>
      BY <2>2 DEF syncVars, sync
    <3> QED BY <3>2, <3>3
  <2> QED BY <2>1, <2>2
<1>2. SyncTypeOK' /\ Stamped'
  <2>1. TypeOK' /\ Stamped'
    BY <1>0, <1>1 DEF SyncTypeOK, TypeOK, Stamped, vars
  <2> QED BY <1>0, <1>1, <2>1 DEF SyncTypeOK
<1>3. TokenInv'
  BY <1>0, <1>1 DEF TokenInv, Captured, vars
<1>4. DeliveredInv' /\ CopyInv'
  BY <1>0, <1>1 DEF DeliveredInv, NothingRepeated, CopyInv, SteadyRowsDelivered, Fresh, vars
<1> QED BY <1>2, <1>3, <1>4

-----------------------------------------------------------------------------
\* The client's copy of a row that is as it is committed stays so.
LEMMA CopyKeeps ==
  ASSUME SyncInv, Respond, NEW p \in products, p \in copy \/ p \in Range(Items)
  PROVE  p \in copy'
<1>1. Range(Items) \subseteq products
  BY PageProperties DEF SyncInv, Selected
<1>2. \A q \in Range(Items) : q.id = p.id => q = p
  BY <1>1 DEF SyncInv, Inv, UniqueRows
<1>3. copy' = {r \in copy : \A q \in Range(Items) : q.id # r.id} \cup Range(Items)
  BY DEF Respond
<1> QED BY <1>2, <1>3

\* What a page delivers and where it leaves the cursor.
LEMMA RespondDelivers ==
  ASSUME SyncInv, Respond
  PROVE  /\ delivered' \in Seq(Product) /\ NothingRepeated'
         /\ Range(delivered') = Range(delivered) \cup Range(Items)
         /\ HasNext => \A p \in Range(delivered') : ~After(p, NextCursor)
<1>0. Inv /\ SyncTypeOK /\ DeliveredInv
  BY DEF SyncInv
<1>1. /\ Items \in Seq(Product) /\ Ordered(Items) /\ Range(Items) \subseteq Selected
      /\ Range(Items) \subseteq Product
  <2>1. Selected \subseteq Product
    BY <1>0 DEF Selected, Inv, TypeOK
  <2> QED BY <1>0, <2>1, PageProperties
<1>2. delivered \in Seq(Product) /\ Ordered(delivered) /\ delivered' = delivered \o Items
  BY <1>0 DEF SyncTypeOK, DeliveredInv, NothingRepeated, Respond
<1>3. Range(delivered) \subseteq Product
  <2>1. \A i \in DOMAIN delivered : delivered[i] \in Product
    BY <1>2, ElementOfSeq, LenProperties
  <2> QED BY <2>1 DEF Range
<1>4. /\ delivered' \in Seq(Product)
      /\ Range(delivered') = Range(delivered) \cup Range(Items)
  BY <1>1, <1>2, ConcatOrdered
<1>5. CASE cursor = Start
  <2>1. Range(delivered) = {}
    BY <1>0, <1>5 DEF DeliveredInv, Respond, Range
  <2>2. Ordered(delivered')
    BY <1>1, <1>2, <2>1, ConcatOrdered
  <2>3. HasNext => \A p \in Range(Items) : ~After(p, NextCursor)
    BY <1>0, PageProperties
  <2> QED BY <1>4, <2>1, <2>2, <2>3 DEF NothingRepeated
<1>6. CASE cursor # Start
  <2>1. cursor \in [at : 0..MaxTime, id : 1..MaxProducts]
    BY <1>0, <1>6 DEF SyncTypeOK
  <2>2. \A d \in Range(delivered) : ~After(d, cursor)
    BY <1>0, <1>6 DEF DeliveredInv, Range
  <2>3. \A q \in Range(Items) : After(q, cursor)
    BY <1>1, <1>6 DEF Selected, Matches
  <2>4. \A d \in Range(delivered), q \in Range(Items) : Before(d, q)
    BY <1>1, <1>3, <2>1, <2>2, <2>3, CursorOrder
  <2>5. Ordered(delivered')
    BY <1>1, <1>2, <2>4, ConcatOrdered
  <2>6. ASSUME HasNext PROVE \A p \in Range(delivered') : ~After(p, NextCursor)
    <3>1. PICK r \in Range(Items) : NextCursor = [at |-> r.updatedAt, id |-> r.id]
      BY <1>0, <2>6, PageProperties
    <3>2. \A d \in Range(delivered) : ~After(d, NextCursor)
      BY <1>1, <1>3, <2>1, <2>2, <2>3, <3>1, CursorOrder
    <3>3. \A q \in Range(Items) : ~After(q, NextCursor)
      BY <1>0, <2>6, PageProperties
    <3> QED BY <1>4, <3>2, <3>3
  <2> QED BY <1>4, <2>5, <2>6 DEF NothingRepeated
<1> QED BY <1>5, <1>6

\* A row that stays as it is from the first query on is on the page, or was on an
\* earlier one, or comes after the page's cursor if it has one, or is older than
\* what the round asks for.
LEMMA RespondReaches ==
  ASSUME SyncInv, Respond, NEW p \in products, cursor # Start => p \in steady
  PROVE  \/ p \in Range(delivered')
         \/ HasNext /\ After(p, NextCursor)
         \/ since # Never /\ p.updatedAt <= since
<1>0. Inv /\ SyncTypeOK /\ CopyInv
  BY DEF SyncInv
<1>1. p.updatedAt \in Nat /\ (since # Never => since \in Nat)
  BY <1>0, StoreAssumption DEF Inv, SyncTypeOK, TypeOK, Product
<1>4. Range(delivered') = Range(delivered) \cup Range(Items)
  BY RespondDelivers
<1>2. CASE p \in Selected
  <2>1. p \in Range(Items) \/ (HasNext /\ After(p, NextCursor))
    BY <1>0, <1>2, PageProperties
  <2> QED BY <1>4, <2>1
<1>3. CASE p \notin Selected
  <2>1. ~(since # Never => p.updatedAt > since) \/ (cursor # Start /\ ~After(p, cursor))
    BY <1>3 DEF Selected, Matches
  <2>2. cursor # Start =>
          p \in Range(delivered) \/ After(p, cursor) \/ (since # Never /\ p.updatedAt <= since)
    BY <1>0 DEF CopyInv, SteadyRowsDelivered
  <2>3. p.updatedAt > since \/ p.updatedAt <= since \/ since = Never
    BY <1>1
  <2> QED BY <1>4, <2>1, <2>2, <2>3
<1> QED BY <1>2, <1>3

\* A page takes the round on to the next one, or ends it: what the client has then
\* is what the next round may take for granted.
LEMMA RespondInv ==
  ASSUME SyncInv, Respond
  PROVE  SyncTypeOK' /\ Stamped' /\ TokenInv' /\ DeliveredInv' /\ CopyInv'
<1>0. Inv /\ SyncTypeOK /\ Stamped /\ TokenInv /\ DeliveredInv /\ CopyInv
  BY DEF SyncInv
<1>1. /\ UNCHANGED <<vars, token, inFlight, late>> /\ arrived /\ arrived' = FALSE
      /\ cursor' = NextCursor /\ steady' = (IF cursor = Start THEN products ELSE steady)
      /\ HasNext => since' = since /\ rounds' = rounds
      /\ ~HasNext => since' = token /\ rounds' = rounds + 1
  BY DEF Respond, SyncToken, FirstPage
<1>2. /\ HasNext => NextCursor \in [at : 0..MaxTime, id : 1..MaxProducts] /\ NextCursor # Start
      /\ ~HasNext => NextCursor = Start
  <2>1. [at : 0..MaxTime, id : 1..MaxProducts] \subseteq [at : Nat, id : Nat]
    BY StoreAssumption
  <2> QED BY <1>0, <2>1, PageProperties, SyncAssumption
<1>3. token \in 0..MaxTime /\ token \in Nat /\ rounds \in 0..MaxRounds /\ token # Never
      /\ rounds + 1 \in 0..MaxRounds /\ rounds + 1 > 0
  BY <1>0, <1>1, StoreAssumption, SyncAssumption DEF SyncTypeOK, TokenInv
<1>4. TypeOK' /\ Stamped'
  BY <1>0, <1>1 DEF SyncTypeOK, TypeOK, Stamped, vars
<1>5. SyncTypeOK'
  <2>1. copy' \subseteq Product
    <3>1. Range(Items) \subseteq products /\ products \subseteq Product
      BY <1>0, PageProperties DEF Selected, Inv, TypeOK
    <3> QED BY <1>0, <3>1 DEF Respond, SyncTypeOK
  <2>2. delivered' \in Seq(Product)
    BY RespondDelivers
  <2>3. steady' \subseteq Product
    BY <1>0, <1>1 DEF Inv, TypeOK, SyncTypeOK
  <2>4. since' \in 0..MaxTime \cup {Never} /\ rounds' \in 0..MaxRounds
    BY <1>0, <1>1, <1>3 DEF SyncTypeOK
  <2>5. cursor' \in [at : 0..MaxTime, id : 1..MaxProducts] \cup {Start}
    BY <1>1, <1>2
  <2> QED BY <1>0, <1>1, <1>4, <2>1, <2>2, <2>3, <2>4, <2>5 DEF SyncTypeOK
<1>6. TokenInv'
  <2>1. Captured
    BY <1>1 DEF Captured
  <2>2. token <= token
    BY <1>3
  <2>3. (since # Never <=> rounds > 0)' /\ (since # Never => since <= token)'
    BY <1>0, <1>1, <1>3, <2>2 DEF TokenInv
  <2> QED BY <1>0, <1>1, <2>1, <2>3 DEF TokenInv, vars
<1>7. DeliveredInv'
  <2>1. HasNext => \A i \in DOMAIN delivered' : ~After(delivered'[i], NextCursor)
    BY RespondDelivers DEF Range
  <2> QED BY <1>1, <1>2, <2>1, RespondDelivers DEF DeliveredInv
<1>8. products' = products
  BY <1>1 DEF vars
<1>9. ASSUME NEW p \in products PROVE since # Never => p \in copy' \/ Fresh(p, since)
  BY <1>0, CopyKeeps DEF CopyInv
<1>10. SteadyRowsDelivered'
  <2>1. ASSUME HasNext, NEW p \in steady'
        PROVE  \/ p \in Range(delivered') \/ After(p, NextCursor)
               \/ since # Never /\ p.updatedAt <= since
    <3>1. p \in products /\ (cursor # Start => p \in steady)
      BY <1>0, <1>1, <2>1 DEF CopyInv
    <3> QED BY <3>1, RespondReaches
  <2> QED BY <1>1, <1>2, <2>1 DEF SteadyRowsDelivered
<1>11. ASSUME NEW p \in products, p \in Range(delivered')
       PROVE  p \in copy' \/ Fresh(p, token)
  <2>1. p \in Range(Items) \/ (p \in Range(delivered) /\ cursor # Start)
    <3>1. cursor = Start => Range(delivered) = {}
      BY <1>0, <1>1 DEF DeliveredInv, Range
    <3> QED BY <1>11, <3>1, RespondDelivers
  <2> QED BY <1>0, <2>1, CopyKeeps DEF CopyInv
<1>12. ASSUME NEW p \in products PROVE p \in steady' \/ Fresh(p, token)
  BY <1>0, <1>1 DEF CopyInv
<1>13. ASSUME ~HasNext, NEW p \in products PROVE p \in copy' \/ Fresh(p, token)
  <2>1. CASE Fresh(p, token)
    BY <2>1
  <2>2. CASE p \in Range(delivered')
    BY <1>11, <2>2
  <2>3. CASE since # Never /\ p.updatedAt <= since /\ ~Fresh(p, token)
    <3>1. ~(p.updatedAt > since)
      BY <1>0, <2>3, StoreAssumption DEF Inv, TypeOK, SyncTypeOK, Product
    <3>2. ~Fresh(p, since)
      BY <2>3, <3>1 DEF Fresh
    <3> QED BY <1>9, <2>3, <3>2
  <2>4. CASE ~Fresh(p, token)
    <3>1. cursor # Start => p \in steady
      BY <1>1, <1>12, <2>4
    <3> QED BY <1>13, <2>2, <2>3, <2>4, <3>1, RespondReaches
  <2> QED BY <2>1, <2>4
<1>14. CopyInv'
  <2>1. steady' \subseteq products
    BY <1>0, <1>1 DEF CopyInv
  <2>2. late' = late /\ token' = token
    BY <1>1
  <2>3. CASE HasNext
    <3>1. since' = since
      BY <1>1, <2>3
    <3> QED BY <1>8, <1>9, <1>10, <1>11, <1>12, <2>1, <2>2, <3>1 DEF CopyInv, Fresh
  <2>4. CASE ~HasNext
    <3>1. since' = token /\ cursor' = Start
      BY <1>1, <1>2, <2>4
    <3> QED BY <1>8, <1>10, <1>13, <2>1, <2>2, <2>4, <3>1 DEF CopyInv, Fresh
  <2> QED BY <2>3, <2>4
<1> QED BY <1>4, <1>5, <1>6, <1>7, <1>14

-----------------------------------------------------------------------------
LEMMA SyncNextInv == SyncInv /\ [SyncNext]_syncVars => SyncInv'
<1> SUFFICES ASSUME SyncInv, [SyncNext]_syncVars PROVE SyncInv'
  OBVIOUS
<1>1. Inv' /\ Stamped'
  BY StepsAreStoreSteps, NextInv, StampedNext DEF SyncInv
<1>2. SyncTypeOK' /\ TokenInv' /\ DeliveredInv' /\ CopyInv'
  BY StoreStepTypeOK, StoreStepInv, ArriveInv, RespondInv, LoseInv DEF SyncNext
<1> QED BY <1>1, <1>2 DEF SyncInv

\* The invariant is inductive, and so holds of every state of the sync.
THEOREM SyncInvCorrect == SyncSpec => []SyncInv
BY SyncInitInv, SyncNextInv, PTL DEF SyncSpec

\* The sync keeps its type: a cursor is the key of a row, a copy is made of rows.
THEOREM SyncTypeOKCorrect == SyncSpec => []SyncTypeOK
<1>1. SyncInv => SyncTypeOK
  BY DEF SyncInv
<1> QED BY <1>1, SyncInvCorrect, PTL

\* Keyset pages skip nothing that stays: see SteadyRowsDelivered.
THEOREM SteadyRowsDeliveredCorrect == SyncSpec => []SteadyRowsDelivered
<1>1. SyncInv => SteadyRowsDelivered
  BY DEF SyncInv, CopyInv
<1> QED BY <1>1, SyncInvCorrect, PTL

\* ... and repeat nothing: see NothingRepeated.
THEOREM NothingRepeatedCorrect == SyncSpec => []NothingRepeated
<1>1. SyncInv => NothingRepeated
  BY DEF SyncInv, DeliveredInv
<1> QED BY <1>1, SyncInvCorrect, PTL

\* Nothing is lost to the client but what was in flight when its token was
\* captured: see OnlyInFlightLost.
THEOREM OnlyInFlightLostCorrect == SyncSpec => []OnlyInFlightLost
<1>1. SyncInv => OnlyInFlightLost
  BY DEF SyncInv, TokenInv, CopyInv, RoundOver, OnlyInFlightLost, Fresh
<1> QED BY <1>1, SyncInvCorrect, PTL
=============================================================================
