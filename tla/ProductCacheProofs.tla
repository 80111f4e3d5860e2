------------------------ MODULE ProductCacheProofs ------------------------
(***************************************************************************)
(* What the write path of the product service guarantees for any lists,       *)
(* products, readers and creations: an answer cached before a product's       *)
(* INSERT does not outlive the invalidation that follows.                    *)
(*                                                                          *)
(* The invalidation looks for its keys in two commands and deletes them in a *)
(* third, while readers go on writing.  The inductive invariant says what     *)
(* each command has achieved: every key that is as old and that it looked    *)
(* for is among the victims, since what is written in between is younger.    *)
(***************************************************************************)
EXTENDS ProductCache, FiniteSetTheorems, TLAPS

-----------------------------------------------------------------------------
(* The inductive invariant *)

\* Availability of some products.
Quantities(S) == UNION {[s -> 0..MaxStock] : s \in SUBSET S}

Types ==
  /\ rows \in Nat /\ moves \in 0..MaxMoves
  /\ stock \in [Products -> 0..MaxStock]
  /\ cache \in [Keys -> [total : 0..MaxRows, available : Quantities(Products), at : 0..MaxRows]
                          \cup {Absent}]
  /\ pc \in [Readers -> {"idle", "lookup", "count", "select", "stock"}]
  /\ key \in [Readers -> Keys \cup {Absent}] /\ total \in [Readers -> 0..MaxRows]
  /\ page \in [Readers -> SUBSET (1..rows)]
  /\ got \in [Readers -> Quantities(1..rows)]
  /\ step \in [Creators -> {"idle", "inserted", "lists", "details", "answered"}]
  /\ product \in [Creators -> 0..rows] /\ victims \in [Creators -> SUBSET Keys]
  /\ purged \subseteq 1..rows

\* The creations whose INSERT is done account for every row that was added.
Inserters == {c \in Creators : product[c] # 0}
RowsCounted == rows = InitialRows + Cardinality(Inserters)

\* A read has a key, and no more answers of the inventory service than rows.
ReadSound(r) ==
  /\ pc[r] # "idle" => key[r] \in Keys
  /\ pc[r] = "count" => key[r] \in Lists
  /\ pc[r] # "stock" => got[r] = <<>>
  /\ DOMAIN got[r] \subseteq page[r]

\* An entry written before a product's INSERT.
Older(k, p) == cache[k] # Absent /\ cache[k].at < p

\* What the creation's KEYS commands have found so far.
CreateSound(c) ==
  /\ step[c] = "idle" => product[c] = 0
  /\ step[c] \in {"inserted", "lists", "details"} => product[c] # 0
  /\ step[c] = "lists" => \A k \in Lists : Older(k, product[c]) => k \in victims[c]
  /\ step[c] = "details" => \A k \in Keys : Older(k, product[c]) => k \in victims[c]

\* An entry lists rows that there were when it was written.
CacheSound ==
  \A k \in Keys : cache[k] # Absent => DOMAIN cache[k].available \subseteq 1..cache[k].at

IInv ==
  /\ Types
  /\ RowsCounted
  /\ \A r \in Readers : ReadSound(r)
  /\ \A c \in Creators : CreateSound(c)
  /\ CacheSound
  /\ NoEntryOutlivesInvalidation

-----------------------------------------------------------------------------
(* Counting *)

\* The table is within its bound, and has room while a creation has not begun.
LEMMA RowsBound ==
  ASSUME Types, RowsCounted
  PROVE  /\ IsFiniteSet(Inserters) /\ Cardinality(Inserters) \in Nat
         /\ InitialRows =< rows /\ rows =< MaxRows /\ MaxRows \in Nat
         /\ \A c \in Creators : product[c] = 0 => rows < MaxRows
  <1> DEFINE S == Inserters
  <1>1. S \subseteq Creators /\ IsFiniteSet(Creators)
    BY RowAssumption DEF Inserters
  <1>2. /\ IsFiniteSet(S) /\ Cardinality(S) \in Nat /\ Cardinality(Creators) \in Nat
        /\ Cardinality(S) =< Cardinality(Creators)
        /\ S # Creators => Cardinality(S) < Cardinality(Creators)
    <2>1. /\ IsFiniteSet(S) /\ Cardinality(S) =< Cardinality(Creators)
          /\ (Cardinality(S) = Cardinality(Creators) => S = Creators)
      BY <1>1, FS_Subset
    <2>2. Cardinality(S) \in Nat /\ Cardinality(Creators) \in Nat
      BY <1>1, <2>1, FS_CardinalityType
    <2> QED BY <2>1, <2>2
  <1>3. \A c \in Creators : product[c] = 0 => S # Creators
    BY DEF Inserters
  <1>4. rows = InitialRows + Cardinality(S)
    BY DEF RowsCounted
  <1> HIDE DEF S
  <1>5. /\ InitialRows =< rows /\ rows =< MaxRows /\ MaxRows \in Nat
        /\ S # Creators => rows < MaxRows
    BY <1>2, <1>4, RowAssumption
  <1> USE DEF S
  <1> QED BY <1>2, <1>3, <1>5

\* A list selects some of the products there are.
LEMMA SelectedBound ==
  ASSUME Types, RowsCounted, NEW k \in Lists
  PROVE  /\ Selected(k, rows) \subseteq 1..rows
         /\ Cardinality(Selected(k, rows)) \in 0..MaxRows
  <1> DEFINE S == Selected(k, rows)
  <1>1. rows \in Nat /\ rows =< MaxRows /\ MaxRows \in Nat
    BY RowsBound DEF Types
  <1>2. S \subseteq 1..rows
    BY <1>1, ListAssumption DEF Selected, Products
  <1>3. IsFiniteSet(1..rows) /\ Cardinality(1..rows) = rows
    BY <1>1, FS_Interval
  <1>4. IsFiniteSet(S) /\ Cardinality(S) =< rows
    BY <1>2, <1>3, FS_Subset
  <1>5. Cardinality(S) \in Nat
    BY <1>4, FS_CardinalityType
  <1> QED BY <1>1, <1>2, <1>4, <1>5

\* No product, no availability.
LEMMA NothingGot ==
  ASSUME NEW n \in Nat
  PROVE  <<>> \in Quantities(1..n) /\ DOMAIN <<>> = {}
  <1>1. <<>> \in [{} -> 0..MaxStock]
    OBVIOUS
  <1> QED BY <1>1 DEF Quantities

-----------------------------------------------------------------------------
(* Every step keeps the invariant *)

\* A step of reader r keeps the invariant, if it writes nothing but its answer.
LEMMA ReadMove ==
  ASSUME IInv, NEW r \in Readers, UNCHANGED <<rows, stock, moves, createVars>>, Types',
         \A q \in Readers \ {r} :
           pc'[q] = pc[q] /\ key'[q] = key[q] /\ page'[q] = page[q] /\ got'[q] = got[q],
         ReadSound(r)',
         \/ cache' = cache
         \/ cache' = [cache EXCEPT ![key[r]] = Payload(r)] /\ key[r] \in Keys
  PROVE  IInv'
  <1>1. RowsCounted'
    BY DEF IInv, RowsCounted, Inserters, createVars
  <1>2. ASSUME NEW q \in Readers
        PROVE  ReadSound(q)'
    BY DEF IInv, ReadSound
  <1>3. ASSUME NEW k \in Keys, cache'[k] # cache[k]
        PROVE  cache'[k] = Payload(r) /\ cache'[k].at = rows
    BY <1>3 DEF IInv, Types, Payload
  <1>4. ASSUME NEW c \in Creators
        PROVE  CreateSound(c)'
    <2>1. \A k \in Keys : Older(k, product[c])' => Older(k, product[c])
      BY <1>3 DEF IInv, Types, Older, createVars
    <2> QED BY <2>1 DEF IInv, CreateSound, createVars, Keys
  <1>5. CacheSound'
    <2> SUFFICES ASSUME NEW k \in Keys, cache'[k] # Absent
                 PROVE  DOMAIN cache'[k].available \subseteq 1..cache'[k].at
      BY DEF CacheSound
    <2>1. CASE cache'[k] = cache[k]
      BY <2>1 DEF IInv, CacheSound
    <2>2. CASE cache'[k] # cache[k]
      BY <1>3, <2>2 DEF IInv, Types, ReadSound, Payload
    <2> QED BY <2>1, <2>2
  <1>6. NoEntryOutlivesInvalidation'
    BY <1>3 DEF IInv, Types, NoEntryOutlivesInvalidation, createVars
  <1> QED BY <1>1, <1>2, <1>4, <1>5, <1>6 DEF IInv

\* A reader that has answered starts anew.
LEMMA AnswerMakes ==
  ASSUME Types, NEW r \in Readers, Answer(r)
  PROVE  /\ pc' \in [Readers -> {"idle", "lookup", "count", "select", "stock"}]
         /\ key' \in [Readers -> Keys \cup {Absent}] /\ total' \in [Readers -> 0..MaxRows]
         /\ page' \in [Readers -> SUBSET (1..rows)]
         /\ got' \in [Readers -> Quantities(1..rows)]
         /\ pc'[r] = "idle" /\ got'[r] = <<>> /\ page'[r] = {}
         /\ \A q \in Readers \ {r} :
              pc'[q] = pc[q] /\ key'[q] = key[q] /\ page'[q] = page[q] /\ got'[q] = got[q]
  <1>1. <<>> \in Quantities(1..rows) /\ 0 \in 0..MaxRows
    BY NothingGot, RowAssumption, FS_CardinalityType DEF Types
  <1> QED BY <1>1 DEF Types, Answer, Goto

\* A request.
LEMMA RequestKeeps ==
  ASSUME IInv, NEW r \in Readers, NEW k \in Keys, Request(r, k)
  PROVE  IInv'
  <1>1. Types'
    BY DEF IInv, Types, Request, Goto, createVars
  <1>2. ReadSound(r)'
    BY DEF IInv, Types, ReadSound, Request, Goto
  <1> QED BY <1>1, <1>2, ReadMove DEF IInv, Types, Request, Goto

\* The GET.
LEMMA GetCachedKeeps ==
  ASSUME IInv, NEW r \in Readers, getCached(r)
  PROVE  IInv'
  <1>1. Types /\ UNCHANGED <<rows, stock, cache, moves, createVars>>
    BY DEF IInv, getCached
  <1>2. CASE Answer(r)
    <2>1. Types'
      BY <1>1, <1>2, AnswerMakes DEF Types, createVars
    <2>2. ReadSound(r)'
      BY <1>1, <1>2, AnswerMakes, NothingGot DEF ReadSound
    <2> QED BY <1>1, <1>2, <2>1, <2>2, AnswerMakes, ReadMove
  <1>3. CASE ~Answer(r)
    <2>1. /\ pc' = [pc EXCEPT ![r] = IF key[r] \in Lists THEN "count" ELSE "select"]
          /\ UNCHANGED <<key, total, page, got>> /\ pc[r] = "lookup"
      BY <1>3 DEF getCached, Goto
    <2>2. Types'
      BY <1>1, <2>1 DEF Types, createVars
    <2>3. ReadSound(r)'
      BY <1>1, <2>1 DEF IInv, Types, ReadSound
    <2> QED BY <1>1, <2>1, <2>2, <2>3, ReadMove DEF Types
  <1> QED BY <1>2, <1>3

\* The statements of a read.
LEMMA SelectKeeps ==
  ASSUME IInv, NEW r \in Readers, CountRows(r) \/ SelectPage(r) \/ SelectRow(r)
  PROVE  IInv'
  <1>1. /\ Types /\ RowsCounted /\ UNCHANGED <<rows, stock, cache, moves, createVars>>
        /\ rows \in Nat /\ key[r] \in Keys
    BY DEF IInv, Types, ReadSound, CountRows, SelectPage, SelectRow
  <1>2. CASE CountRows(r)
    <2>1. Cardinality(Selected(key[r], rows)) \in 0..MaxRows
      BY <1>1, <1>2, SelectedBound DEF IInv, ReadSound, CountRows
    <2>2. Types'
      BY <1>1, <1>2, <2>1 DEF Types, CountRows, Goto, createVars
    <2>3. ReadSound(r)'
      BY <1>1, <1>2 DEF IInv, Types, ReadSound, CountRows, Goto
    <2> QED BY <1>1, <1>2, <2>2, <2>3, ReadMove DEF Types, CountRows, Goto
  <1>3. CASE SelectPage(r)
    <2>1. PICK s \in Pages(key[r], rows) : page' = [page EXCEPT ![r] = s]
      BY <1>3 DEF SelectPage
    <2>2. s \subseteq 1..rows
      BY <1>1, <1>3, SelectedBound DEF SelectPage, Pages
    <2>3. Types'
      BY <1>1, <1>3, <2>1, <2>2 DEF Types, SelectPage, Goto, createVars
    <2>4. ReadSound(r)'
      BY <1>1, <1>3, <2>1, NothingGot DEF IInv, Types, ReadSound, SelectPage, Goto
    <2> QED BY <1>1, <1>3, <2>1, <2>3, <2>4, ReadMove DEF Types, SelectPage, Goto
  <1>4. CASE SelectRow(r) /\ Answer(r)
    <2>1. Types'
      BY <1>1, <1>4, AnswerMakes DEF Types, createVars
    <2>2. ReadSound(r)'
      BY <1>1, <1>4, AnswerMakes, NothingGot DEF ReadSound
    <2> QED BY <1>1, <1>4, <2>1, <2>2, AnswerMakes, ReadMove
  <1>5. CASE SelectRow(r) /\ ~Answer(r)
    <2>1. /\ pc[r] = "select" /\ key[r] \in Details /\ key[r] =< rows
          /\ page' = [page EXCEPT ![r] = {key[r]}] /\ total' = [total EXCEPT ![r] = 1]
          /\ pc' = [pc EXCEPT ![r] = "stock"] /\ UNCHANGED <<key, got>>
      BY <1>5 DEF SelectRow, Goto
    <2>2. key[r] \in 1..rows /\ 1 \in 0..MaxRows
      <3>1. MaxRows \in Nat /\ key[r] \in 1..MaxRows
        BY <1>1, <2>1, RowsBound, ListAssumption DEF Products
      <3> QED BY <1>1, <2>1, <3>1
    <2>3. Types'
      BY <1>1, <2>1, <2>2 DEF Types, createVars
    <2>4. ReadSound(r)'
      BY <1>1, <2>1, NothingGot DEF IInv, Types, ReadSound
    <2> QED BY <1>1, <2>1, <2>3, <2>4, ReadMove DEF Types
  <1> QED BY <1>2, <1>3, <1>4, <1>5

\* The answer for one product.
LEMMA GetStockKeeps ==
  ASSUME IInv, NEW r \in Readers, NEW p \in Products, GetStock(r, p)
  PROVE  IInv'
  <1> DEFINE more == [q \in DOMAIN got[r] \cup {p} |-> IF q = p THEN stock[p] ELSE got[r][q]]
  <1>1. /\ Types /\ pc[r] = "stock" /\ p \in page[r] /\ got' = [got EXCEPT ![r] = more]
        /\ UNCHANGED <<rows, stock, cache, moves, pc, key, total, page, createVars>>
    BY DEF IInv, GetStock
  <1>2. p \in 1..rows /\ stock[p] \in 0..MaxStock
    BY <1>1 DEF Types
  <1>3. PICK s \in SUBSET (1..rows) : got[r] \in [s -> 0..MaxStock]
    BY <1>1 DEF Types, Quantities
  <1>4. more \in [s \cup {p} -> 0..MaxStock]
    BY <1>2, <1>3
  <1>5. more \in Quantities(1..rows) /\ DOMAIN more = DOMAIN got[r] \cup {p}
    BY <1>2, <1>4 DEF Quantities
  <1> HIDE DEF more
  <1>6. Types'
    BY <1>1, <1>5 DEF Types, createVars
  <1>7. ReadSound(r)'
    BY <1>1, <1>5 DEF IInv, Types, ReadSound
  <1> QED BY <1>1, <1>6, <1>7, ReadMove DEF Types

\* The SET, with the rows and the availability that were read, or an answer without it.
LEMMA ReadEndsKeeps ==
  ASSUME IInv, NEW r \in Readers, setCached(r) \/ ReadThrows(r)
  PROVE  IInv'
  <1>1. /\ Types /\ Answer(r) /\ UNCHANGED <<rows, stock, moves, createVars>>
        /\ key[r] \in Keys
        /\ cache' = cache \/ cache' = [cache EXCEPT ![key[r]] = Payload(r)]
    BY DEF IInv, Types, ReadSound, setCached, ReadThrows
  <1>2. Payload(r) \in [total : 0..MaxRows, available : Quantities(Products), at : 0..MaxRows]
    <2>1. rows \in 0..MaxRows /\ 1..rows \subseteq Products
      BY RowsBound DEF IInv, Types, Products
    <2>2. total[r] \in 0..MaxRows /\ got[r] \in Quantities(Products)
      <3>1. PICK s \in SUBSET (1..rows) : got[r] \in [s -> 0..MaxStock]
        BY <1>1 DEF Types, Quantities
      <3>2. s \in SUBSET Products
        BY <2>1
      <3> QED BY <1>1, <3>1, <3>2 DEF Types, Quantities
    <2> QED BY <2>1, <2>2 DEF Payload
  <1>3. Types'
    BY <1>1, <1>2, AnswerMakes DEF Types, createVars
  <1>4. ReadSound(r)'
    BY <1>1, AnswerMakes, NothingGot DEF ReadSound
  <1> QED BY <1>1, <1>3, <1>4, AnswerMakes, ReadMove

\* A step of creation c keeps the invariant, if it deletes no row, writes no entry, and
\* its keys are found.
LEMMA CreateMove ==
  ASSUME IInv, NEW c \in Creators, UNCHANGED <<stock, moves, readVars>>, Types', RowsCounted',
         rows' = rows \/ rows' = rows + 1,
         \A d \in Creators \ {c} :
           step'[d] = step[d] /\ product'[d] = product[d] /\ victims'[d] = victims[d],
         \A k \in Keys : cache'[k] = cache[k] \/ cache'[k] = Absent,
         CreateSound(c)', NoEntryOutlivesInvalidation'
  PROVE  IInv'
  <1>1. ASSUME NEW r \in Readers
        PROVE  ReadSound(r)'
    BY DEF IInv, ReadSound, readVars
  <1>2. ASSUME NEW d \in Creators, d # c
        PROVE  CreateSound(d)'
    <2>1. \A k \in Keys : Older(k, product[d])' => Older(k, product[d])
      BY <1>2 DEF Older
    <2> QED BY <1>2, <2>1 DEF IInv, CreateSound, Keys
  <1>3. CacheSound'
    BY DEF IInv, CacheSound
  <1> QED BY <1>1, <1>2, <1>3 DEF IInv

\* The INSERT, which nothing in the cache can be younger than.
LEMMA InsertKeeps ==
  ASSUME IInv, NEW c \in Creators, Insert(c)
  PROVE  IInv'
  <1>1. /\ Types /\ RowsCounted /\ step[c] = "idle" /\ product[c] = 0 /\ rows' = rows + 1
        /\ product' = [product EXCEPT ![c] = rows + 1]
        /\ step' = [step EXCEPT ![c] = "inserted"]
        /\ UNCHANGED <<cache, victims, purged, stock, moves, readVars>>
    BY DEF IInv, CreateSound, Insert, createIdle
  <1>2. rows < MaxRows /\ rows \in Nat /\ rows' \in Nat
    BY <1>1, RowsBound DEF Types
  <1>3. got' \in [Readers -> Quantities(1..rows')]
    <2>1. SUBSET (1..rows) \subseteq SUBSET (1..rows')
      BY <1>1, <1>2
    <2> QED BY <1>1, <2>1 DEF Types, Quantities, readVars
  <1>4. Types'
    BY <1>1, <1>2, <1>3 DEF Types, readVars
  <1>5. RowsCounted'
    <2> DEFINE S == Inserters
    <2>1. Inserters' = S \cup {c} /\ c \notin S
      BY <1>1, <1>2 DEF Types, Inserters
    <2>2. IsFiniteSet(S) /\ Cardinality(S) \in Nat /\ rows = InitialRows + Cardinality(S)
      BY <1>1, RowsBound DEF RowsCounted
    <2> HIDE DEF S
    <2>3. Cardinality(S \cup {c}) = Cardinality(S) + 1
      BY <2>1, <2>2, FS_AddElement
    <2> QED BY <1>1, <2>1, <2>2, <2>3, RowAssumption DEF RowsCounted
  <1>6. CreateSound(c)'
    BY <1>1, <1>2 DEF Types, CreateSound
  <1>7. NoEntryOutlivesInvalidation'
    BY <1>1 DEF IInv, NoEntryOutlivesInvalidation
  <1> QED BY <1>1, <1>4, <1>5, <1>6, <1>7, CreateMove DEF Types

\* The two KEYS, which find every entry that is old enough.
LEMMA KeysKeeps ==
  ASSUME IInv, NEW c \in Creators, ListKeys(c) \/ DetailKeys(c)
  PROVE  IInv'
  <1>1. /\ Types /\ RowsCounted
        /\ UNCHANGED <<rows, cache, product, purged, stock, moves, readVars>>
    BY DEF IInv, ListKeys, DetailKeys, createIdle
  <1>2. Types'
    BY <1>1 DEF Types, ListKeys, DetailKeys, Present, Keys, readVars
  <1>3. RowsCounted' /\ NoEntryOutlivesInvalidation'
    BY <1>1 DEF IInv, RowsCounted, Inserters, NoEntryOutlivesInvalidation
  <1>4. CreateSound(c)'
    <2>1. CASE ListKeys(c)
      BY <1>1, <2>1 DEF IInv, Types, CreateSound, ListKeys, Present, Older
    <2>2. CASE DetailKeys(c)
      BY <1>1, <2>2 DEF IInv, Types, CreateSound, DetailKeys, Present, Older, Keys
    <2> QED BY <2>1, <2>2
  <1>5. \A d \in Creators \ {c} :
          step'[d] = step[d] /\ product'[d] = product[d] /\ victims'[d] = victims[d]
    BY <1>1 DEF Types, ListKeys, DetailKeys
  <1> QED BY <1>1, <1>2, <1>3, <1>4, <1>5, CreateMove

\* The end of a creation: the DEL leaves no entry that is older than its product.
LEMMA CreateEndsKeeps ==
  ASSUME IInv, NEW c \in Creators, DeleteKeys(c) \/ RedisFails(c) \/ InsertThrows(c)
  PROVE  IInv'
  <1>1. /\ Types /\ RowsCounted /\ UNCHANGED <<rows, product, stock, moves, readVars>>
        /\ step' = [step EXCEPT ![c] = "answered"]
        /\ victims' = victims \/ victims' = [victims EXCEPT ![c] = {}]
    BY DEF IInv, DeleteKeys, RedisFails, InsertThrows, Invalidated, createIdle
  <1>2. CreateSound(c)'
    BY <1>1 DEF Types, CreateSound
  <1>3. RowsCounted'
    BY <1>1 DEF RowsCounted, Inserters
  <1>4. CASE DeleteKeys(c)
    <2>1. /\ step[c] = "details" /\ purged' = purged \cup {product[c]}
          /\ cache' = [k \in Keys |-> IF k \in victims[c] THEN Absent ELSE cache[k]]
      BY <1>4 DEF DeleteKeys
    <2>2. /\ product[c] \in 1..rows
          /\ \A k \in Keys : Older(k, product[c]) => k \in victims[c]
      BY <1>1, <2>1 DEF IInv, Types, CreateSound
    <2>3. Types'
      BY <1>1, <2>1, <2>2 DEF Types, readVars
    <2>4. \A k \in Keys : cache'[k] # Absent =>
            cache'[k] = cache[k] /\ cache[k].at \in Nat /\ product[c] =< cache[k].at
      BY <1>1, <2>1, <2>2 DEF Types, Older
    <2>5. NoEntryOutlivesInvalidation'
      BY <2>1, <2>4 DEF IInv, NoEntryOutlivesInvalidation
    <2> QED BY <1>1, <1>2, <1>3, <2>1, <2>3, <2>5, CreateMove DEF Types
  <1>5. CASE RedisFails(c) \/ InsertThrows(c)
    <2>1. UNCHANGED <<cache, purged>>
      BY <1>5 DEF RedisFails, InsertThrows
    <2>2. Types'
      BY <1>1, <2>1 DEF Types, readVars
    <2>3. NoEntryOutlivesInvalidation'
      BY <2>1 DEF IInv, NoEntryOutlivesInvalidation
    <2> QED BY <1>1, <1>2, <1>3, <2>1, <2>2, <2>3, CreateMove DEF Types
  <1> QED BY <1>4, <1>5

\* A key expires, or stock is reserved or released.
LEMMA WorldKeeps ==
  ASSUME IInv, (\E k \in Keys : Expire(k)) \/ (\E p \in Products : StockMoves(p))
  PROVE  IInv'
  <1>1. /\ UNCHANGED <<rows, readVars, createVars>>
        /\ \A k \in Keys : cache'[k] = cache[k] \/ cache'[k] = Absent
    BY DEF IInv, Types, Expire, StockMoves
  <1>2. Types'
    <2>1. CASE \E k \in Keys : Expire(k)
      BY <2>1 DEF IInv, Types, Expire, readVars, createVars
    <2>2. CASE \E p \in Products : StockMoves(p)
      <3>1. PICK p \in Products, n \in 0..MaxStock :
              stock' = [stock EXCEPT ![p] = n] /\ moves' = moves + 1 /\ moves < MaxMoves
              /\ UNCHANGED cache
        BY <2>2 DEF StockMoves
      <3>2. moves' \in 0..MaxMoves /\ stock' \in [Products -> 0..MaxStock]
        BY <3>1, StockAssumption DEF IInv, Types
      <3> QED BY <1>1, <3>1, <3>2 DEF IInv, Types, readVars, createVars
    <2> QED BY <2>1, <2>2
  <1>3. RowsCounted' /\ CacheSound' /\ NoEntryOutlivesInvalidation'
    BY <1>1 DEF IInv, RowsCounted, Inserters, CacheSound, NoEntryOutlivesInvalidation, createVars
  <1>4. ASSUME NEW r \in Readers
        PROVE  ReadSound(r)'
    BY <1>1 DEF IInv, ReadSound, readVars
  <1>5. ASSUME NEW c \in Creators
        PROVE  CreateSound(c)'
    <2>1. \A k \in Keys : Older(k, product[c])' => Older(k, product[c])
      BY <1>1 DEF Older, createVars
    <2> QED BY <1>1, <2>1 DEF IInv, CreateSound, Keys, createVars
  <1> QED BY <1>2, <1>3, <1>4, <1>5 DEF IInv

-----------------------------------------------------------------------------
(* What the cache promises *)

\* No creation has inserted a row, and the cache is empty.
LEMMA InitIInv == Init => IInv
  <1> SUFFICES ASSUME Init PROVE IInv
    OBVIOUS
  <1>1. Inserters = {}
    BY DEF Init, Inserters
  <1>2. RowsCounted
    BY <1>1, FS_EmptySet, RowAssumption DEF Init, RowsCounted
  <1>3. MaxRows \in Nat /\ InitialRows \in Nat
    BY RowAssumption, FS_CardinalityType
  <1>4. <<>> \in Quantities(1..rows) /\ DOMAIN <<>> = {}
    BY <1>3, NothingGot DEF Init
  <1>5. Types
    BY <1>3, <1>4, StockAssumption DEF Init, Types, Products
  <1>6. CacheSound /\ NoEntryOutlivesInvalidation
    BY DEF Init, CacheSound, NoEntryOutlivesInvalidation
  <1>7. \A r \in Readers : ReadSound(r)
    BY <1>4 DEF Init, ReadSound
  <1>8. \A c \in Creators : CreateSound(c)
    BY DEF Init, CreateSound
  <1> QED BY <1>2, <1>5, <1>6, <1>7, <1>8 DEF IInv

\* Every step is one of the above.
LEMMA StepKeeps ==
  ASSUME IInv, [Next]_vars
  PROVE  IInv'
  <1>1. ASSUME NEW r \in Readers, ReadStep(r)
        PROVE  IInv'
    BY <1>1, GetCachedKeeps, SelectKeeps, ReadEndsKeeps, GetStockKeeps DEF ReadStep
  <1>2. ASSUME NEW c \in Creators, Insert(c) \/ InsertThrows(c) \/ CreateStep(c)
        PROVE  IInv'
    BY <1>2, InsertKeeps, KeysKeeps, CreateEndsKeeps DEF CreateStep
  <1>3. CASE UNCHANGED vars
    BY <1>3
       DEF IInv, Types, RowsCounted, Inserters, ReadSound, CreateSound, Older, CacheSound,
           NoEntryOutlivesInvalidation, vars, readVars, createVars
  <1> QED BY <1>1, <1>2, <1>3, RequestKeeps, WorldKeeps DEF Next

\* The invariant holds in every reachable state.
THEOREM Invariance == Spec => []IInv
  BY InitIInv, StepKeeps, PTL DEF Spec

\* Every variable keeps its type, the table its bound, and an entry lists no product that
\* was not in the table when it was written.
THEOREM TypeCorrect == Spec => []TypeOK
  <1>1. IInv => TypeOK
    <2> SUFFICES ASSUME IInv PROVE TypeOK
      OBVIOUS
    <2>1. rows \in InitialRows..MaxRows
      BY RowsBound, RowAssumption DEF IInv, Types
    <2>2. \A k \in Keys : cache[k] # Absent =>
            cache[k] \in Entry /\ DOMAIN cache[k].available \subseteq 1..cache[k].at
      BY DEF IInv, Types, CacheSound, Entry, Quantities
    <2> QED BY <2>1, <2>2 DEF IInv, Types, ReadSound, TypeOK
  <1> QED BY <1>1, Invariance, PTL

\* "Mutate Postgres -> invalidate affected keys": however many readers write to the cache
\* between the KEYS and the DEL, no entry older than the product's INSERT is left.
THEOREM InvalidationComplete == Spec => []NoEntryOutlivesInvalidation
  <1>1. IInv => NoEntryOutlivesInvalidation
    BY DEF IInv
  <1> QED BY <1>1, Invariance, PTL
=============================================================================
