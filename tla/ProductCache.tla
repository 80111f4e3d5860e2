---------------------------- MODULE ProductCache ----------------------------
(***************************************************************************)
(* The product service (apps/product-service): the products table, the        *)
(* cache-aside copies of its answers in Redis, and the availability it asks    *)
(* the inventory service for.                                                 *)
(*                                                                          *)
(* A read is a Redis GET, its SELECTs, one GetStock call per product, a Redis  *)
(* SET and the answer; a creation is an INSERT, two KEYS, a DEL, an event and   *)
(* the answer.  Every await is a step of its own, but for the event's, which    *)
(* changes nothing here.  Products are numbered in the order of their INSERTs; *)
(* nothing deletes one.                                                       *)
(***************************************************************************)
EXTENDS Naturals, FiniteSets

CONSTANTS Lists,    \* normalised list queries: filters, sort and page (listCacheKey)
          Details,  \* products whose page somebody asks for (DETAIL_KEY)
          Readers,  \* GET requests in progress at once
          Creators, \* POST requests
          Matching, \* the products each list's filters select
          SortKey,  \* the position of each product in each list's ORDER BY, with ties
          Offset, PageSize, \* (page - 1) * pageSize and pageSize of each list
          InitialRows, MaxRows, \* products before and after all creations
          MaxStock, \* bound: units available of one product
          MaxMoves, \* bound: changes of availability by the inventory service
          Absent,   \* the value of an absent Redis key, the key of no read
          Faults    \* "redis": a Redis command fails; "throw": a statement or a call does

Products == 1..MaxRows
Keys == Lists \cup Details  \* products:list:<query> and products:detail:<id>

ASSUME RowAssumption ==
  /\ IsFiniteSet(Creators)
  /\ InitialRows \in Nat /\ MaxRows = InitialRows + Cardinality(Creators)
ASSUME ListAssumption ==
  /\ Lists \cap Products = {} /\ Details \subseteq Products /\ Absent \notin Keys
  /\ Matching \in [Lists -> SUBSET Products] /\ SortKey \in [Lists -> [Products -> Nat]]
  /\ Offset \in [Lists -> Nat] /\ PageSize \in [Lists -> Nat \ {0}]
ASSUME StockAssumption == MaxStock \in Nat /\ MaxMoves \in Nat

VARIABLES rows,   \* the products table: products 1..rows
          stock,  \* what GetStock answers for each product
          cache,  \* Redis
          moves,  \* changes of stock so far
          pc, key, total, page, got, \* each read: where it is, its cache key, the count(*),
                  \* the rows selected and their availability so far
          step, product, victims, \* each creation: where it is, its row, the keys to delete
          purged     \* history: products whose creation deleted the keys it found

readVars == <<pc, key, total, page, got>>
createVars == <<step, product, victims, purged>>
vars == <<rows, stock, cache, moves, readVars, createVars>>

\* No row of stock: GetStock answers 0.
Init ==
  /\ rows = InitialRows
  /\ stock = [p \in Products |-> IF p <= rows THEN MaxStock ELSE 0]
  /\ cache = [k \in Keys |-> Absent]
  /\ moves = 0
  /\ pc = [r \in Readers |-> "idle"] /\ key = [r \in Readers |-> Absent]
  /\ total = [r \in Readers |-> 0] /\ page = [r \in Readers |-> {}]
  /\ got = [r \in Readers |-> <<>>]
  /\ step = [c \in Creators |-> "idle"] /\ product = [c \in Creators |-> 0]
  /\ victims = [c \in Creators |-> {}]
  /\ purged = {}

-----------------------------------------------------------------------------
(* What a list query selects. *)

Least(a, b) == IF a <= b THEN a ELSE b
Selected(k, n) == {p \in Matching[k] : p <= n}

\* LIMIT and OFFSET over an ORDER BY with ties: any set of rows that some sorted order
\* puts between the two.
Pages(k, n) ==
  {s \in SUBSET Selected(k, n) :
    \E before \in SUBSET (Selected(k, n) \ s) :
      LET after == Selected(k, n) \ (s \cup before)
          Precede(A, B) == \A a \in A, b \in B : SortKey[k][a] <= SortKey[k][b]
      IN  /\ Cardinality(before) = Least(Offset[k], Cardinality(Selected(k, n)))
          /\ Cardinality(s) = Least(PageSize[k], Cardinality(s \cup after))
          /\ Precede(before, s \cup after) /\ Precede(s, after)}

-----------------------------------------------------------------------------
(* listProducts and getProduct *)

Goto(r, place) == pc' = [pc EXCEPT ![r] = place]
Answer(r) ==
  /\ Goto(r, "idle")
  /\ key' = [key EXCEPT ![r] = Absent] /\ total' = [total EXCEPT ![r] = 0]
  /\ page' = [page EXCEPT ![r] = {}] /\ got' = [got EXCEPT ![r] = <<>>]

Request(r, k) ==
  /\ pc[r] = "idle"
  /\ Goto(r, "lookup")
  /\ key' = [key EXCEPT ![r] = k]
  /\ UNCHANGED <<rows, stock, cache, moves, total, page, got, createVars>>

getCached(r) ==
  /\ pc[r] = "lookup"
  /\ \/ cache[key[r]] # Absent /\ Answer(r)
     \/ /\ cache[key[r]] = Absent \/ "redis" \in Faults
        /\ Goto(r, IF key[r] \in Lists THEN "count" ELSE "select")
        /\ UNCHANGED <<key, total, page, got>>
  /\ UNCHANGED <<rows, stock, cache, moves, createVars>>

CountRows(r) ==
  /\ pc[r] = "count"
  /\ total' = [total EXCEPT ![r] = Cardinality(Selected(key[r], rows))]
  /\ Goto(r, "select")
  /\ UNCHANGED <<rows, stock, cache, moves, key, page, got, createVars>>

SelectPage(r) ==
  /\ pc[r] = "select" /\ key[r] \in Lists
  /\ \E s \in Pages(key[r], rows) : page' = [page EXCEPT ![r] = s]
  /\ Goto(r, "stock")
  /\ UNCHANGED <<rows, stock, cache, moves, key, total, got, createVars>>

\* A product that is not there is a 404, which is not cached.
SelectRow(r) ==
  /\ pc[r] = "select" /\ key[r] \in Details
  /\ IF key[r] <= rows
     THEN /\ page' = [page EXCEPT ![r] = {key[r]}]
          /\ total' = [total EXCEPT ![r] = 1]
          /\ Goto(r, "stock")
          /\ UNCHANGED <<key, got>>
     ELSE Answer(r)
  /\ UNCHANGED <<rows, stock, cache, moves, createVars>>

\* getAvailability: the calls run at once and are answered one by one.
GetStock(r, p) ==
  /\ pc[r] = "stock" /\ p \in page[r] \ DOMAIN got[r]
  /\ got' = [got EXCEPT ![r] = [q \in DOMAIN @ \cup {p} |-> IF q = p THEN stock[p] ELSE @[q]]]
  /\ UNCHANGED <<rows, stock, cache, moves, pc, key, total, page, createVars>>

\* "at" is history: the rows of the table when the entry was written.
Payload(r) == [total |-> total[r], available |-> got[r], at |-> rows]

setCached(r) ==
  /\ pc[r] = "stock" /\ DOMAIN got[r] = page[r]
  /\ \/ cache' = [cache EXCEPT ![key[r]] = Payload(r)]
     \/ "redis" \in Faults /\ UNCHANGED cache
  /\ Answer(r)
  /\ UNCHANGED <<rows, stock, moves, createVars>>

\* A statement or a GetStock call fails: 500, and nothing is cached.
ReadThrows(r) ==
  /\ "throw" \in Faults /\ pc[r] \in {"count", "select", "stock"}
  /\ Answer(r)
  /\ UNCHANGED <<rows, stock, cache, moves, createVars>>

-----------------------------------------------------------------------------
(* createProduct *)

createIdle == <<stock, moves, readVars>>

Insert(c) ==
  /\ step[c] = "idle"
  /\ rows' = rows + 1
  /\ product' = [product EXCEPT ![c] = rows + 1]
  /\ step' = [step EXCEPT ![c] = "inserted"]
  /\ UNCHANGED <<cache, victims, purged, createIdle>>

\* Mutant: the id is taken before the INSERT that then fails.
InsertThrowsNamed(c) ==
  /\ "throw" \in Faults /\ step[c] = "idle"
  /\ product' = [product EXCEPT ![c] = rows + 1]
  /\ step' = [step EXCEPT ![c] = "answered"]
  /\ UNCHANGED <<rows, cache, victims, purged, createIdle>>

InsertThrows(c) ==
  /\ "throw" \in Faults /\ step[c] = "idle"
  /\ step' = [step EXCEPT ![c] = "answered"]
  /\ UNCHANGED <<rows, cache, product, victims, purged, createIdle>>

Present(kind) == {k \in kind : cache[k] # Absent}

ListKeys(c) ==
  /\ step[c] = "inserted"
  /\ victims' = [victims EXCEPT ![c] = Present(Lists)]
  /\ step' = [step EXCEPT ![c] = "lists"]
  /\ UNCHANGED <<rows, cache, product, purged, createIdle>>

\* Mutant: the second KEYS replaces what the first found.
DetailKeysOnly(c) ==
  /\ step[c] = "lists"
  /\ victims' = [victims EXCEPT ![c] = Present(Details)]
  /\ step' = [step EXCEPT ![c] = "details"]
  /\ UNCHANGED <<rows, cache, product, purged, createIdle>>

DetailKeys(c) ==
  /\ step[c] = "lists"
  /\ victims' = [victims EXCEPT ![c] = @ \cup Present(Details)]
  /\ step' = [step EXCEPT ![c] = "details"]
  /\ UNCHANGED <<rows, cache, product, purged, createIdle>>

\* What follows changes nothing more: the event, if a broker is configured and accepts it,
\* and the answer, 201.
Invalidated(c) ==
  /\ step' = [step EXCEPT ![c] = "answered"]
  /\ victims' = [victims EXCEPT ![c] = {}]

DeleteKeys(c) ==
  /\ step[c] = "details"
  /\ cache' = [k \in Keys |-> IF k \in victims[c] THEN Absent ELSE cache[k]]
  /\ purged' = purged \cup {product[c]}
  /\ Invalidated(c)
  /\ UNCHANGED <<rows, product, createIdle>>

\* A failing command ends the invalidation, not the request.
RedisFails(c) ==
  /\ "redis" \in Faults /\ step[c] \in {"inserted", "lists", "details"}
  /\ Invalidated(c)
  /\ UNCHANGED <<rows, cache, product, purged, createIdle>>

-----------------------------------------------------------------------------
(* The rest of the world. *)

\* Mutant: details are SET without EX.
ExpireLists(k) ==
  /\ k \in Lists /\ cache[k] # Absent
  /\ cache' = [cache EXCEPT ![k] = Absent]
  /\ UNCHANGED <<rows, stock, moves, readVars, createVars>>

Expire(k) ==
  /\ cache[k] # Absent
  /\ cache' = [cache EXCEPT ![k] = Absent]
  /\ UNCHANGED <<rows, stock, moves, readVars, createVars>>

StockMoves(p) ==
  /\ moves < MaxMoves /\ p <= rows
  /\ \E n \in 0..MaxStock \ {stock[p]} : stock' = [stock EXCEPT ![p] = n]
  /\ moves' = moves + 1
  /\ UNCHANGED <<rows, cache, readVars, createVars>>

ReadStep(r) ==
  \/ getCached(r) \/ CountRows(r) \/ SelectPage(r) \/ SelectRow(r) \/ setCached(r)
  \/ ReadThrows(r)
  \/ \E p \in Products : GetStock(r, p)

CreateStep(c) ==
  ListKeys(c) \/ DetailKeys(c) \/ DeleteKeys(c) \/ RedisFails(c)

Next ==
  \/ \E r \in Readers, k \in Keys : Request(r, k)
  \/ \E r \in Readers : ReadStep(r)
  \/ \E c \in Creators : Insert(c) \/ InsertThrows(c) \/ CreateStep(c)
  \/ \E k \in Keys : Expire(k)
  \/ \E p \in Products : StockMoves(p)

\* Statements and calls end, with an answer or an error, and a key lives for its TTL.
Fairness ==
  /\ \A r \in Readers : WF_vars(ReadStep(r))
  /\ \A c \in Creators : WF_vars(CreateStep(c))
  /\ \A k \in Keys : WF_vars(Expire(k))

Spec == Init /\ [][Next]_vars
FairSpec == Spec /\ Fairness

-----------------------------------------------------------------------------
(* Properties *)

Entry == [total : 0..MaxRows, available : UNION {[s -> 0..MaxStock] : s \in SUBSET Products},
          at : 0..MaxRows]

\* Every variable has a value of its column's or local's type; an entry holds no product
\* that was not in the table, and no creation is about one.
TypeOK ==
  /\ rows \in InitialRows..MaxRows /\ moves \in 0..MaxMoves
  /\ stock \in [Products -> 0..MaxStock]
  /\ \A k \in Keys : cache[k] # Absent =>
       cache[k] \in Entry /\ DOMAIN cache[k].available \subseteq 1..cache[k].at
  /\ pc \in [Readers -> {"idle", "lookup", "count", "select", "stock"}]
  /\ key \in [Readers -> Keys \cup {Absent}] /\ total \in [Readers -> 0..MaxRows]
  /\ page \in [Readers -> SUBSET (1..rows)]
  /\ \A r \in Readers : pc[r] = "stock" => DOMAIN got[r] \subseteq page[r]
  /\ step \in [Creators -> {"idle", "inserted", "lists", "details", "answered"}]
  /\ product \in [Creators -> 0..rows] /\ victims \in [Creators -> SUBSET Keys]
  /\ purged \subseteq 1..rows

\* The write path ("mutate Postgres -> invalidate affected keys"): an entry written before
\* a product's INSERT does not outlive the invalidation that follows it, unless Redis
\* fails.  What may remain are answers of reads that were under way and wrote late.
NoEntryOutlivesInvalidation ==
  \A p \in purged, k \in Keys : cache[k] # Absent => cache[k].at >= p

Current(k) ==
  /\ \A p \in DOMAIN cache[k].available : cache[k].available[p] = stock[p]
  /\ k \in Lists => /\ cache[k].total = Cardinality(Selected(k, rows))
                    /\ DOMAIN cache[k].available \in Pages(k, rows)

\* However reads, creations and sales interleave and whatever Redis loses, once the table
\* and the stock stop changing every answer in the cache ends up being what they say.
CachesCatchUp == <>[](\A k \in Keys : cache[k] # Absent => Current(k))
=============================================================================
