-------------------------- MODULE InventoryProofs --------------------------
(***************************************************************************)
(* What the transactions of the inventory service guarantee for any          *)
(* products, orders, calls, pool, stock and faults: type correctness, no      *)
(* deadlock of reserves alone, and that statement by statement they behave    *)
(* as the atomic decisions of StockLedger.                                   *)
(*                                                                          *)
(* A write is judged when its row is locked and appears when its transaction *)
(* commits.  The inductive invariant says that what was judged still holds    *)
(* then: no two transactions hold one row, a commit changes only rows it      *)
(* holds, and so every row held still has the units that were asked of it.    *)
(* Through the refinement, what is proved of StockLedger holds of the tables  *)
(* these transactions write.                                                 *)
(***************************************************************************)
EXTENDS Inventory, Sums

-----------------------------------------------------------------------------
(* The inductive invariant *)

Types ==
  /\ available \in [Products -> Nat]
  /\ reserved \in [Products -> Nat]
  /\ reservation \in [Orders -> {"NONE", "ACTIVE", "RELEASED"}]
  /\ lines \in [Orders -> [Products -> Nat]]
  /\ request \in [Calls -> [op : {"none", "reserve", "release"}, order : Orders \cup {NoOrder},
                            items : [Products -> Nat]]]
  /\ stage \in [Calls -> {"idle", "queued", "begun", "updating", "settled", "replied"}]
  /\ next \in [Calls -> Rows \cup {NoRow}]
  /\ held \in [Calls -> SUBSET Rows]
  /\ reply \in [Calls -> {"none", "ok", "refused"}]
  /\ lost \subseteq Calls

PoolBound == IsFiniteSet(Connected) /\ Cardinality(Connected) =< PoolMax

\* Where a handler is, against its request and its transaction.
Placed(c) ==
  /\ stage[c] # "idle" => request[c].op \in {"reserve", "release"} /\ request[c].order \in Orders
  /\ stage[c] = "replied" => reply[c] # "none"
  /\ c \in lost => InFlight(c) /\ held[c] = {} /\ next[c] = NoRow
  /\ held[c] # {} => stage[c] \in {"updating", "settled"}
  /\ next[c] # NoRow => stage[c] = "updating"
  /\ held[c] \cap Orders # {} => stage[c] = "settled"
  /\ held[c] \cap Orders \subseteq {request[c].order}
  /\ At(c, "settled") => request[c].order \in held[c] /\ Todo(c) = {}
  /\ next[c] \in Orders => next[c] = request[c].order /\ Todo(c) = {}
  /\ next[c] \in Products => next[c] \in Todo(c)

\* The rows a transaction holds still allow what it has written to them.
Judged(c) ==
  /\ ~IsReserve(c) /\ stage[c] \in {"updating", "settled"} =>
       reservation[request[c].order] # "NONE"
  /\ IsReserve(c) /\ held[c] \cap Orders # {} => reservation[request[c].order] = "NONE"
  /\ \A p \in held[c] \cap Products :
       (IF IsReserve(c) THEN available ELSE reserved)[p] >= Quantities(c)[p]

\* A reserve holds products before those it has still to update, in the order of product_id.
Sorted(c) ==
  IsReserve(c) =>
    /\ \A h \in held[c] \cap Products, p \in Todo(c) : Rank[h] < Rank[p]
    /\ next[c] \in Products => \A p \in Todo(c) : Rank[next[c]] =< Rank[p]

Sound(c) == Placed(c) /\ Judged(c) /\ Sorted(c)

\* No row is held by two transactions.
Exclusive == \A c, d \in Calls : c # d => held[c] \cap held[d] = {}

IInv == Types /\ PoolBound /\ (\A c \in Calls : Sound(c)) /\ Exclusive

USE DEF Rows

-----------------------------------------------------------------------------
(* Every step keeps the invariant *)

\* The tables are empty and nobody has called.
LEMMA InitIInv == Init => IInv
  <1> SUFFICES ASSUME Init PROVE IInv
    OBVIOUS
  <1>1. Connected = {}
    BY DEF Init, Connected
  <1>2. PoolBound
    BY <1>1, FS_EmptySet, PoolAssumption DEF PoolBound
  <1>3. Types
    BY StockAssumption DEF Init, Types, EmptyBasket
  <1> QED BY <1>2, <1>3, RowAssumption
      DEF Init, IInv, Sound, Placed, Judged, Sorted, Exclusive, IsReserve, At

\* A step of call c alone keeps the invariant, if it keeps what is said of c.
LEMMA OwnStep ==
  ASSUME IInv, NEW c \in Calls, UNCHANGED tables, Types', PoolBound', Sound(c)',
         \A d \in Calls \ {c} :
           /\ request'[d] = request[d] /\ stage'[d] = stage[d] /\ next'[d] = next[d]
           /\ held'[d] = held[d] /\ reply'[d] = reply[d] /\ (d \in lost' <=> d \in lost),
         \A d \in Calls \ {c} : held'[c] \cap held[d] = {}
  PROVE  IInv'
  <1>1. ASSUME NEW d \in Calls, d # c
        PROVE  Sound(d)'
    BY <1>1 DEF IInv, Sound, Placed, Judged, Sorted, At, InFlight, Todo, Quantities, IsReserve,
                tables
  <1>2. Exclusive'
    BY DEF IInv, Exclusive
  <1> QED BY <1>1, <1>2 DEF IInv

\* The clients in use when a call stays in, leaves or enters its transaction.
LEMMA PoolKept ==
  ASSUME IInv, NEW c \in Calls,
         \/ Connected' = Connected
         \/ Connected' = Connected \ {c}
         \/ Connected' = Connected \cup {c} /\ Cardinality(Connected) < PoolMax
  PROVE  PoolBound'
  <1>1. IsFiniteSet(Connected) /\ Cardinality(Connected) =< PoolMax
    BY DEF IInv, PoolBound
  <1>2. Cardinality(Connected) \in Nat /\ PoolMax \in Nat
    BY <1>1, FS_CardinalityType, PoolAssumption
  <1>3. CASE Connected' = Connected
    BY <1>1, <1>3 DEF PoolBound
  <1>4. CASE Connected' = Connected \ {c}
    <2> DEFINE S == Connected
    <2>1. /\ IsFiniteSet(S \ {c})
          /\ Cardinality(S \ {c}) = IF c \in S THEN Cardinality(S) - 1 ELSE Cardinality(S)
      BY <1>1, FS_RemoveElement
    <2> QED BY <1>1, <1>2, <1>4, <2>1 DEF PoolBound
  <1>5. CASE Connected' = Connected \cup {c} /\ Cardinality(Connected) < PoolMax
    <2> DEFINE S == Connected
    <2>1. /\ IsFiniteSet(S \cup {c})
          /\ Cardinality(S \cup {c}) = IF c \in S THEN Cardinality(S) ELSE Cardinality(S) + 1
      BY <1>1, FS_AddElement
    <2> QED BY <1>2, <1>5, <2>1 DEF PoolBound
  <1> QED BY <1>3, <1>4, <1>5

\* A call begins.
LEMMA SendKeeps ==
  ASSUME IInv, NEW c \in Calls, NEW op \in {"reserve", "release"}, NEW o \in Orders,
         NEW items \in [Products -> Nat], Send(c, op, o, items)
  PROVE  IInv'
  <1>1. Types'
    BY DEF IInv, Types, Send, tables
  <1>2. stage'[c] = "queued" /\ c \notin lost /\ held[c] = {} /\ next[c] = NoRow
    BY DEF IInv, Types, Sound, Placed, Send, InFlight
  <1>3. Connected' = Connected
    BY <1>2 DEF IInv, Types, Connected, Send, InFlight
  <1>4. Sound(c)'
    BY <1>2, RowAssumption
       DEF IInv, Types, Send, Sound, Placed, Judged, Sorted, At, InFlight, IsReserve
  <1> QED BY <1>1, <1>3, <1>4, OwnStep, PoolKept DEF IInv, Types, Exclusive, Send

\* A call takes a client of the pool.
LEMMA ConnectKeeps ==
  ASSUME IInv, NEW c \in Calls, Connect(c)
  PROVE  IInv'
  <1>1. Types'
    BY DEF IInv, Types, Connect, tables
  <1>2. stage'[c] = "begun" /\ stage[c] = "queued" /\ c \notin lost
        /\ held[c] = {} /\ next[c] = NoRow
    BY DEF IInv, Types, Sound, Placed, Connect, At
  <1>3. Connected' = Connected \cup {c} /\ Cardinality(Connected) < PoolMax
    BY <1>2 DEF IInv, Types, Connected, Connect
  <1>4. Sound(c)'
    BY <1>2, RowAssumption
       DEF IInv, Types, Connect, Sound, Placed, Judged, Sorted, At, InFlight, IsReserve
  <1> QED BY <1>1, <1>3, <1>4, OwnStep, PoolKept DEF IInv, Types, Exclusive, Connect

\* A transaction ends without a trace.
LEMMA RollbackKeeps ==
  ASSUME IInv, NEW c \in Calls, stage[c] # "idle", c \notin lost, Rollback(c)
  PROVE  IInv'
  <1>1. Types'
    BY DEF IInv, Types, Rollback, Finish, tables
  <1>2. Connected' = Connected \ {c}
    BY DEF IInv, Types, Connected, Rollback, Finish
  <1>3. Sound(c)'
    <2>1. /\ stage'[c] = "replied" /\ next'[c] = NoRow /\ held'[c] = {} /\ reply'[c] = "refused"
          /\ request'[c] = request[c] /\ c \notin lost'
      BY DEF IInv, Types, Rollback, Finish
    <2>2. request[c].op \in {"reserve", "release"} /\ request[c].order \in Orders
      BY DEF IInv, Sound, Placed
    <2> QED BY <2>1, <2>2, RowAssumption DEF Sound, Placed, Judged, Sorted, At, InFlight
  <1>4. \A d \in Calls \ {c} :
          /\ request'[d] = request[d] /\ stage'[d] = stage[d] /\ next'[d] = next[d]
          /\ held'[d] = held[d] /\ reply'[d] = reply[d] /\ (d \in lost' <=> d \in lost)
    BY DEF IInv, Types, Rollback, Finish
  <1>5. UNCHANGED tables /\ held'[c] = {}
    BY DEF IInv, Types, Rollback, Finish
  <1> QED BY <1>1, <1>2, <1>3, <1>4, <1>5, OwnStep, PoolKept

\* The SELECT that decides whether there is anything to do.
LEMMA LookupKeeps ==
  ASSUME IInv, NEW c \in Calls, Lookup(c)
  PROVE  IInv'
  <1>1. stage[c] = "begun" /\ c \notin lost /\ held[c] = {} /\ next[c] = NoRow
    BY DEF IInv, Sound, Placed, Lookup, At
  <1>2. CASE Rollback(c)
    BY <1>1, <1>2, RollbackKeeps
  <1>3. CASE ~Rollback(c)
    <2>1. /\ stage' = [stage EXCEPT ![c] = "updating"]
          /\ UNCHANGED <<tables, request, next, held, reply, lost>>
          /\ ~IsReserve(c) => reservation[request[c].order] = "ACTIVE"
      BY <1>3 DEF Lookup
    <2>2. Types'
      BY <2>1 DEF IInv, Types, tables
    <2>3. Connected' = Connected
      BY <1>1, <2>1 DEF IInv, Types, Connected
    <2>4. Sound(c)'
      BY <1>1, <2>1, RowAssumption
         DEF IInv, Types, Sound, Placed, Judged, Sorted, At, InFlight, IsReserve, tables
    <2> QED BY <2>1, <2>2, <2>3, <2>4, OwnStep, PoolKept DEF IInv, Types, Exclusive
  <1> QED BY <1>2, <1>3

\* A statement is sent, for the next product or for the reservation row.
LEMMA IssueUpdateKeeps ==
  ASSUME IInv, NEW c \in Calls, IssueUpdate(c)
  PROVE  IInv'
  <1>1. PICK row \in Rows : /\ NextProduct(c, row) \/ (Todo(c) = {} /\ row = request[c].order)
                            /\ next' = [next EXCEPT ![c] = row]
    BY DEF IssueUpdate
  <1>2. stage[c] = "updating" /\ c \notin lost
    BY DEF IssueUpdate, At
  <1>3. Types'
    BY <1>1 DEF IInv, Types, IssueUpdate, tables
  <1>4. Connected' = Connected
    BY DEF Connected, IssueUpdate
  <1>5. Sound(c)'
    <2>1. /\ next'[c] = row /\ request'[c] = request[c] /\ stage'[c] = stage[c]
          /\ held'[c] = held[c] /\ Todo(c)' = Todo(c) /\ Quantities(c)' = Quantities(c)
          /\ UNCHANGED <<tables, reply, lost>>
      BY <1>1 DEF IInv, Types, IssueUpdate, Todo, Quantities, IsReserve, tables
    <2>2. row \in Orders => row = request[c].order /\ Todo(c) = {}
      BY <1>1, RowAssumption DEF NextProduct, Todo
    <2>3. row \in Products =>
            row \in Todo(c) /\ (IsReserve(c) => \A p \in Todo(c) : Rank[row] =< Rank[p])
      BY <1>1, <1>2, RowAssumption DEF NextProduct, IInv, Sound, Placed
    <2> QED BY <1>2, <2>1, <2>2, <2>3
        DEF IInv, Sound, Placed, Judged, Sorted, At, InFlight, IsReserve, tables
  <1> QED BY <1>1, <1>3, <1>4, <1>5, OwnStep, PoolKept
      DEF IInv, Types, Exclusive, IssueUpdate

\* The row is locked and judged.
LEMMA WriteRowKeeps ==
  ASSUME IInv, NEW c \in Calls, WriteRow(c)
  PROVE  IInv'
  <1> DEFINE row == next[c]
             o == request[c].order
  <1>1. /\ stage[c] = "updating" /\ c \notin lost /\ row \in Rows /\ o \in Orders
        /\ held[c] \cap Orders = {}
    BY DEF IInv, Types, Sound, Placed, WriteRow, Unblocked, At
  <1>2. /\ held'[c] = held[c] \cup {row} /\ next'[c] = NoRow
        /\ stage'[c] = (IF row \in Orders THEN "settled" ELSE "updating")
        /\ request'[c] = request[c]
        /\ UNCHANGED <<tables, reply, lost>>
    BY DEF IInv, Types, WriteRow
  <1>3. Types'
    BY <1>1 DEF IInv, Types, WriteRow, tables
  <1>4. Connected' = Connected
    BY <1>1, <1>2 DEF IInv, Types, Connected, WriteRow
  <1>5. /\ Quantities(c)' = Quantities(c) /\ IsReserve(c)' = IsReserve(c)
        /\ Todo(c)' = Todo(c) \ {row}
    BY <1>2 DEF Quantities, IsReserve, Todo, tables
  <1>6. Sound(c)' => IInv'
    <2>1. \A d \in Calls \ {c} :
            /\ request'[d] = request[d] /\ stage'[d] = stage[d] /\ next'[d] = next[d]
            /\ held'[d] = held[d] /\ reply'[d] = reply[d] /\ (d \in lost' <=> d \in lost)
      BY DEF IInv, Types, WriteRow
    <2>2. \A d \in Calls \ {c} : held'[c] \cap held[d] = {}
      BY <1>2 DEF IInv, Exclusive, WriteRow, Unblocked, Blocks
    <2> QED BY <1>2, <1>3, <1>4, <2>1, <2>2, OwnStep, PoolKept
  <1>7. CASE row \in Products
    <2>1. row \notin Orders /\ row \in Todo(c) /\ stage'[c] = "updating"
      BY <1>2, <1>7, RowAssumption DEF IInv, Sound, Placed
    <2>2. Placed(c)'
      BY <1>1, <1>2, <1>5, <2>1, RowAssumption DEF IInv, Sound, Placed, At, InFlight
    <2>3. Judged(c)'
      BY <1>1, <1>2, <1>5, <1>7, <2>1 DEF IInv, Sound, Judged, WriteRow, RowAllows, tables
    <2>4. Sorted(c)'
      <3> SUFFICES ASSUME IsReserve(c), NEW h \in held'[c] \cap Products,
                          NEW p \in Todo(c) \ {row}
                   PROVE  Rank[h] < Rank[p]
        BY <1>2, <1>5, RowAssumption DEF Sorted
      <3>1. CASE h \in held[c]
        BY <3>1 DEF IInv, Sound, Sorted
      <3>2. CASE h = row
        <4>1. Rank[row] =< Rank[p] /\ p # row /\ p \in Products
          BY <1>7 DEF IInv, Sound, Sorted, Todo
        <4> QED BY <1>7, <3>2, <4>1, RankAssumption
      <3> QED BY <1>2, <3>1, <3>2
    <2> QED BY <1>6, <2>2, <2>3, <2>4 DEF Sound
  <1>8. CASE row \in Orders
    <2>1. row \notin Products /\ row = o /\ Todo(c) = {} /\ stage'[c] = "settled"
      BY <1>2, <1>8, RowAssumption DEF IInv, Sound, Placed
    <2>2. Placed(c)'
      BY <1>1, <1>2, <1>5, <2>1, RowAssumption DEF IInv, Sound, Placed, At, InFlight
    <2>3. Judged(c)'
      BY <1>1, <1>2, <1>5, <1>8, <2>1 DEF IInv, Sound, Judged, WriteRow, RowAllows, tables
    <2>4. Sorted(c)'
      BY <1>2, <1>5, <2>1, RowAssumption DEF Sorted
    <2> QED BY <1>6, <2>2, <2>3, <2>4 DEF Sound
  <1> QED BY <1>1, <1>7, <1>8

\* What a commit does to the tables, row by row.
LEMMA Applied ==
  ASSUME IInv, NEW c \in Calls, Apply(c)
  PROVE  /\ stage[c] = "settled" /\ c \notin lost
         /\ request[c].order \in Orders /\ request[c].order \in held[c]
         /\ Quantities(c) \in [Products -> Nat]
         /\ \A p \in Products :
              (IF IsReserve(c) THEN available ELSE reserved)[p] >= Quantities(c)[p]
         /\ available' \in [Products -> Nat] /\ reserved' \in [Products -> Nat]
         /\ reservation' \in [Orders -> {"NONE", "ACTIVE", "RELEASED"}]
         /\ lines' \in [Orders -> [Products -> Nat]]
         /\ \A p \in Products \ held[c] :
              available'[p] = available[p] /\ reserved'[p] = reserved[p]
         /\ \A x \in Orders :
              reservation'[x] = (IF x # request[c].order THEN reservation[x]
                                 ELSE IF IsReserve(c) THEN "ACTIVE" ELSE "RELEASED")
         /\ \A x \in Orders : x # request[c].order \/ ~IsReserve(c) => lines'[x] = lines[x]
         /\ IsReserve(c) => reservation[request[c].order] = "NONE"
  <1> DEFINE o == request[c].order
             q == Quantities(c)
  <1>1. stage[c] = "settled" /\ c \notin lost /\ o \in Orders /\ o \in held[c] /\ Todo(c) = {}
    BY DEF IInv, Sound, Placed, Apply, At
  <1>2. q \in [Products -> Nat]
    BY <1>1 DEF IInv, Types, Quantities
  <1>3. \A p \in Products \ held[c] : q[p] = 0
    BY <1>1, <1>2 DEF Todo
  <1>4. \A p \in Products : (IF IsReserve(c) THEN available ELSE reserved)[p] >= q[p]
    BY <1>2, <1>3 DEF IInv, Types, Sound, Judged
  <1>5. IsReserve(c) => reservation[o] = "NONE"
    BY <1>1 DEF IInv, Sound, Judged
  <1>6. ~IsReserve(c) => q = lines[o]
    BY DEF Quantities
  <1> HIDE DEF q
  <1>7. \A p \in Products : /\ available[p] \in Nat /\ reserved[p] \in Nat /\ q[p] \in Nat
    BY <1>2 DEF IInv, Types
  <1>8. /\ available' = [p \in Products |->
                         IF IsReserve(c) THEN available[p] - q[p] ELSE available[p] + q[p]]
        /\ reserved' = [p \in Products |->
                         IF IsReserve(c) THEN reserved[p] + q[p] ELSE reserved[p] - q[p]]
    BY <1>7 DEF Apply, q
  <1>9. available' \in [Products -> Nat] /\ reserved' \in [Products -> Nat]
    BY <1>4, <1>7, <1>8
  <1>10. /\ reservation' = [reservation EXCEPT ![o] =
                              IF IsReserve(c) THEN "ACTIVE" ELSE "RELEASED"]
         /\ lines' = [lines EXCEPT ![o] = q]
    BY DEF Apply, q
  <1> QED BY <1>1, <1>2, <1>3, <1>4, <1>5, <1>6, <1>7, <1>8, <1>9, <1>10 DEF IInv, Types, q

\* A transaction commits, whatever its caller is then told.
LEMMA CommitKeeps ==
  ASSUME IInv, NEW c \in Calls, NEW ok \in {"ok", "refused"}, Apply(c), Finish(c, ok)
  PROVE  IInv'
  <1> DEFINE o == request[c].order
  <1>1. Types'
    BY Applied DEF IInv, Types, Finish
  <1>2. Connected' = Connected \ {c}
    BY DEF IInv, Types, Connected, Finish
  <1>3. Exclusive'
    BY DEF IInv, Types, Exclusive, Finish
  <1>4. Sound(c)'
    <2>1. /\ stage'[c] = "replied" /\ next'[c] = NoRow /\ held'[c] = {} /\ reply'[c] = ok
          /\ request'[c] = request[c] /\ c \notin lost'
      BY Applied DEF IInv, Types, Finish
    <2>2. request[c].op \in {"reserve", "release"} /\ request[c].order \in Orders
      BY Applied DEF IInv, Sound, Placed
    <2> QED BY <2>1, <2>2, RowAssumption DEF Sound, Placed, Judged, Sorted, At, InFlight
  <1>5. ASSUME NEW d \in Calls, d # c
        PROVE  Sound(d)'
    <2>1. /\ request'[d] = request[d] /\ stage'[d] = stage[d] /\ next'[d] = next[d]
          /\ held'[d] = held[d] /\ reply'[d] = reply[d] /\ lost' = lost
      BY <1>5 DEF IInv, Types, Finish
    <2>2. held[d] \cap held[c] = {} /\ Sound(d)
      BY <1>5 DEF IInv, Exclusive
    <2>3. stage[d] \in {"updating", "settled"} => Quantities(d)' = Quantities(d)
      <3> SUFFICES ASSUME stage[d] \in {"updating", "settled"}, ~IsReserve(d)
                   PROVE  lines'[request[d].order] = lines[request[d].order]
        BY <2>1 DEF Quantities, IsReserve
      <3>1. request[d].order \in Orders /\ reservation[request[d].order] # "NONE"
        BY <2>2 DEF Sound, Placed, Judged
      <3> QED BY <3>1, Applied
    <2>4. /\ IsReserve(d)' = IsReserve(d)
          /\ stage[d] \in {"updating", "settled"} => Todo(d)' = Todo(d)
      BY <2>1, <2>3 DEF IsReserve, Todo
    <2>5. held[d] # {} \/ next[d] # NoRow => stage[d] \in {"updating", "settled"}
      BY <2>2 DEF Sound, Placed
    <2>6. Placed(d)'
      BY <2>1, <2>2, <2>4, <2>5, RowAssumption DEF Sound, Placed, At, InFlight
    <2>7. Judged(d)'
      <3>1. ~IsReserve(d) /\ stage[d] \in {"updating", "settled"} =>
              reservation'[request[d].order] # "NONE"
        BY <2>2, Applied DEF Sound, Placed, Judged
      <3>2. IsReserve(d) /\ held[d] \cap Orders # {} => reservation'[request[d].order] = "NONE"
        BY <2>2, Applied DEF Sound, Placed, Judged
      <3>3. ASSUME NEW p \in held[d] \cap Products
            PROVE  (IF IsReserve(d) THEN available' ELSE reserved')[p] >= Quantities(d)[p]
        BY <2>2, Applied DEF Sound, Judged
      <3> QED BY <2>1, <2>3, <2>4, <2>5, <3>1, <3>2, <3>3 DEF Judged
    <2>8. Sorted(d)'
      BY <2>1, <2>2, <2>4, <2>5, RowAssumption DEF Sound, Sorted
    <2> QED BY <2>6, <2>7, <2>8 DEF Sound
  <1> QED BY <1>1, <1>2, <1>3, <1>4, <1>5, PoolKept DEF IInv

\* A call that waits for a row is in its transaction.
LEMMA BlockedIsIn ==
  ASSUME IInv, NEW c \in Calls, NEW d \in Calls, Blocks(d, c)
  PROVE  next[c] \in Rows /\ stage[c] = "updating" /\ c \notin lost
  BY RowAssumption DEF IInv, Types, Sound, Placed, Blocks

\* The process ends, and a caller hears of it.
LEMMA CrashKeeps == ASSUME IInv, Crash PROVE IInv'
  <1>1. Types'
    BY DEF IInv, Types, Crash, tables
  <1>2. PoolBound'
    <2>1. Connected' = {}
      BY DEF Connected, Crash, InFlight
    <2> QED BY <2>1, FS_EmptySet, PoolAssumption DEF PoolBound
  <1>3. ASSUME NEW c \in Calls PROVE Sound(c)'
    BY RowAssumption
       DEF IInv, Crash, Sound, Placed, Judged, Sorted, At, InFlight, IsReserve, tables
  <1> QED BY <1>1, <1>2, <1>3 DEF IInv, Exclusive, Crash

\* The caller of a lost handler is told that it failed.
LEMMA LostReplyKeeps ==
  ASSUME IInv, NEW c \in Calls, LostReply(c)
  PROVE  IInv'
  <1>1. Types'
    BY DEF IInv, Types, LostReply, tables
  <1>2. Connected' = Connected
    BY DEF IInv, Types, Connected, LostReply
  <1>3. Sound(c)'
    <2>1. /\ stage'[c] = "replied" /\ next'[c] = NoRow /\ held'[c] = {} /\ reply'[c] = "refused"
          /\ request'[c] = request[c] /\ c \notin lost'
      BY DEF IInv, Types, Sound, Placed, LostReply
    <2>2. request[c].op \in {"reserve", "release"} /\ request[c].order \in Orders
      BY DEF IInv, Sound, Placed, LostReply, InFlight
    <2> QED BY <2>1, <2>2, RowAssumption DEF Sound, Placed, Judged, Sorted, At, InFlight
  <1>4. \A d \in Calls \ {c} :
          /\ request'[d] = request[d] /\ stage'[d] = stage[d] /\ next'[d] = next[d]
          /\ held'[d] = held[d] /\ reply'[d] = reply[d] /\ (d \in lost' <=> d \in lost)
    BY DEF IInv, Types, LostReply
  <1>5. UNCHANGED tables /\ \A d \in Calls \ {c} : held'[c] \cap held[d] = {}
    BY DEF IInv, Exclusive, LostReply
  <1> QED BY <1>1, <1>2, <1>3, <1>4, <1>5, OwnStep, PoolKept

\* The calls a rollback ends have begun, and live.
LEMMA RolledBack ==
  ASSUME IInv, NEW c \in Calls, WriteRefused(c) \/ Abort(c) \/ DeadlockVictim(c)
  PROVE  /\ Rollback(c)
         /\ stage[c] \in {"begun", "updating", "settled"} /\ c \notin lost
  <1>1. CASE WriteRefused(c)
    BY <1>1 DEF WriteRefused, Unblocked, At
  <1>2. CASE Abort(c)
    BY <1>2 DEF Abort, Connected
  <1>3. CASE DeadlockVictim(c)
    <2>1. \E d \in Calls : Blocks(d, c)
      BY <1>3 DEF DeadlockVictim, Deadlocked
    <2> QED BY <1>3, <2>1, BlockedIsIn DEF DeadlockVictim
  <1> QED BY <1>1, <1>2, <1>3

\* Every step of Next keeps the invariant.
LEMMA NextIInv == IInv /\ [Next]_vars => IInv'
  <1> SUFFICES ASSUME IInv, [Next]_vars PROVE IInv'
    OBVIOUS
  <1>1. CASE UNCHANGED vars
    BY <1>1 DEF vars, tables, IInv, Types, PoolBound, Connected, Sound, Placed, Judged, Sorted,
                At, InFlight, Todo, Quantities, IsReserve, Exclusive
  <1>2. CASE Crash
    BY <1>2, CrashKeeps
  <1>3. ASSUME NEW c \in Calls, NEW o \in Orders, NEW items \in Baskets,
               Send(c, "reserve", o, items)
        PROVE  IInv'
    BY <1>3, SendKeeps, StockAssumption
  <1>4. ASSUME NEW c \in Calls, NEW o \in Orders, Send(c, "release", o, EmptyBasket)
        PROVE  IInv'
    <2>1. EmptyBasket \in [Products -> Nat]
      BY DEF EmptyBasket
    <2> QED BY <1>4, <2>1, SendKeeps
  <1>5. ASSUME NEW c \in Calls,
               \/ Connect(c) \/ Lookup(c) \/ IssueUpdate(c) \/ WriteRow(c) \/ LostReply(c)
        PROVE  IInv'
    BY <1>5, ConnectKeeps, LookupKeeps, IssueUpdateKeeps, WriteRowKeeps, LostReplyKeeps
  <1>6. ASSUME NEW c \in Calls, Commit(c) \/ CommitAckLost(c)
        PROVE  IInv'
    BY <1>6, CommitKeeps DEF Commit, CommitAckLost
  <1>7. ASSUME NEW c \in Calls, WriteRefused(c) \/ Abort(c) \/ DeadlockVictim(c)
        PROVE  IInv'
    BY <1>7, RolledBack, RollbackKeeps
  <1> QED BY <1>1, <1>2, <1>3, <1>4, <1>5, <1>6, <1>7 DEF Next, HandlerStep, UpdateAnswers

\* The inductive invariant holds of every behaviour.
THEOREM Invariance == Spec => []IInv
  BY InitIInv, NextIInv, PTL DEF Spec

\* Tables and locals keep their types, and no more clients are out than the pool has.
THEOREM TypeCorrect == Spec => []TypeOK
  <1>1. IInv => TypeOK
    BY DEF IInv, Types, PoolBound, TypeOK
  <1> QED BY <1>1, Invariance, PTL

-----------------------------------------------------------------------------
(* Reserves alone do not deadlock *)

\* Of finitely many numbers one is the largest.
LEMMA Largest ==
  ASSUME NEW S, IsFiniteSet(S), S # {}, NEW f \in [S -> Nat]
  PROVE  \E m \in S : \A x \in S : f[x] =< f[m]
  <1> DEFINE W == {T \in SUBSET S : T = {} \/ \E m \in T : \A x \in T : f[x] =< f[m]}
  <1>1. ASSUME NEW T \in SUBSET S, \A x \in T : T \ {x} \in W
        PROVE  T \in W
    <2>1. CASE T = {}
      BY <2>1
    <2>2. CASE T # {}
      <3>1. PICK y \in T : TRUE
        BY <2>2
      <3>2. CASE T \ {y} = {}
        BY <3>2
      <3>3. ASSUME NEW n \in T \ {y}, \A x \in T \ {y} : f[x] =< f[n]
            PROVE  T \in W
        <4>1. f[y] \in Nat /\ \A x \in T : f[x] \in Nat
          OBVIOUS
        <4>2. CASE f[y] =< f[n]
          BY <3>3, <4>2
        <4>3. CASE f[n] =< f[y]
          BY <3>3, <4>1, <4>3
        <4> QED BY <4>1, <4>2, <4>3
      <3> QED BY <1>1, <3>2, <3>3
    <2> QED BY <2>1, <2>2
  <1> HIDE DEF W
  <1>2. S \in W
    BY <1>1, SubsetInduction
  <1> QED BY <1>2 DEF W

\* Every cycle of waiting transactions has a release in it: among reserves the one that waits
\* for the last product of all would have to be waited for by one that waits for a later one.
THEOREM ReservesDoNotDeadlock == Spec => []DeadlockNeedsRelease
  <1>1. IInv => DeadlockNeedsRelease
    <2> SUFFICES ASSUME IInv, NEW S \in SUBSET Calls, Deadlocked(S),
                        \A c \in S : request[c].op # "release"
                 PROVE  FALSE
      BY DEF DeadlockNeedsRelease
    <2>1. \A c \in S : next[c] \in Rows /\ stage[c] = "updating" /\ c \notin lost /\ IsReserve(c)
      BY BlockedIsIn DEF Deadlocked, IInv, Sound, Placed, IsReserve
    <2>2. IsFiniteSet(S)
      <3>1. S \subseteq Connected
        BY <2>1 DEF Connected
      <3> QED BY <3>1, FS_Subset DEF IInv, PoolBound
    <2>3. \A c \in S : next[c] \in Products
      <3> SUFFICES ASSUME NEW c \in S, next[c] \in Orders PROVE FALSE
        BY <2>1
      <3>1. PICK d \in S : next[c] \in held[d]
        BY DEF Deadlocked, Blocks
      <3> QED BY <2>1, <3>1 DEF IInv, Sound, Placed
    <2> DEFINE f == [c \in S |-> Rank[next[c]]]
    <2>4. PICK m \in S : \A c \in S : f[c] =< f[m]
      <3>1. f \in [S -> Nat] /\ S # {}
        BY <2>3, RankAssumption DEF Deadlocked
      <3> HIDE DEF f
      <3> QED BY <2>2, <3>1, Largest
    <2>5. PICK d \in S : next[m] \in held[d]
      BY DEF Deadlocked, Blocks
    <2>6. next[d] \in Todo(d)
      BY <2>3 DEF IInv, Sound, Placed
    <2>7. Rank[next[m]] < Rank[next[d]]
      BY <2>1, <2>3, <2>5, <2>6 DEF IInv, Sound, Sorted
    <2> QED BY <2>3, <2>4, <2>7, RankAssumption
  <1> QED BY <1>1, Invariance, PTL

-----------------------------------------------------------------------------
(* The transactions implement StockLedger *)

\* The call slots of the ledger.
Slots == [c \in Calls |-> ledgerCall(c)]

\* How far the ledger sees a call that is where this one is.
LEMMA View ==
  ASSUME NEW c \in Calls
  PROVE  /\ stage[c] = "idle" => ledgerCall(c).st = "idle"
         /\ stage[c] = "replied" => ledgerCall(c).st = reply[c]
         /\ stage[c] \in {"queued", "begun"} => ledgerCall(c).st = "sent"
         /\ stage[c] \in {"updating", "settled"} =>
              ledgerCall(c).st = IF IsReserve(c) THEN "sent" ELSE "releasing"
  BY DEF ledgerCall

\* The same after a step.
LEMMA ViewNext ==
  ASSUME NEW c \in Calls
  PROVE  /\ stage'[c] = "replied" => ledgerCall(c)'.st = reply'[c]
         /\ stage'[c] \in {"queued", "begun"} => ledgerCall(c)'.st = "sent"
         /\ stage'[c] \in {"updating", "settled"} =>
              ledgerCall(c)'.st = IF IsReserve(c)' THEN "sent" ELSE "releasing"
  BY DEF ledgerCall

\* Calls that do not move look as before.
LEMMA SameView ==
  ASSUME NEW c \in Calls, request'[c] = request[c], stage'[c] = stage[c], reply'[c] = reply[c]
  PROVE  ledgerCall(c)' = ledgerCall(c)
  BY DEF ledgerCall, IsReserve

\* A step of call c alone is an answer of the ledger, or no step of its slots.
LEMMA SlotStep ==
  ASSUME NEW c \in Calls, UNCHANGED request, NEW st, ledgerCall(c)'.st = st,
         \A d \in Calls \ {c} : stage'[d] = stage[d] /\ reply'[d] = reply[d]
  PROVE  Slots' = [Slots EXCEPT ![c].st = st]
  <1>1. \A d \in Calls \ {c} : ledgerCall(d)' = ledgerCall(d)
    BY SameView
  <1>2. ledgerCall(c)' = [ledgerCall(c) EXCEPT !.st = st]
    BY DEF ledgerCall
  <1> QED BY <1>1, <1>2 DEF Slots

\* A rollback, or the end of the process, is a refusal of the ledger.
LEMMA RollbackIsRefusal ==
  ASSUME IInv, NEW c \in Calls, stage[c] \in {"queued", "begun", "updating", "settled"},
         Finish(c, "refused") \/ LostReply(c), UNCHANGED tables
  PROVE  Ledger!ReserveAborted(c) \/ Ledger!ReleaseAborted(c)
  <1>1. Slots' = [Slots EXCEPT ![c].st = "refused"]
    <2>1. ledgerCall(c)'.st = "refused"
      BY ViewNext DEF IInv, Types, Finish, LostReply
    <2> QED BY <2>1, SlotStep DEF IInv, Types, Finish, LostReply
  <1>2. /\ Slots[c].op = request[c].op /\ request[c].op \in {"reserve", "release"}
        /\ Slots[c].st \in {"sent", "releasing"} /\ (IsReserve(c) => Slots[c].st = "sent")
    BY View DEF IInv, Sound, Placed, Slots, ledgerCall
  <1> QED BY <1>1, <1>2
      DEF Slots, Ledger!ReserveAborted, Ledger!ReleaseAborted, Ledger!Reserving, Ledger!InFlight,
          Ledger!Reply, Ledger!ledgerVars, IsReserve, tables

\* The caller's requests are the ledger's.
LEMMA SendMaps ==
  ASSUME IInv, NEW c \in Calls, NEW op \in {"reserve", "release"}, NEW o \in Orders,
         NEW items \in [Products -> Nat], Send(c, op, o, items),
         op = "release" => items = EmptyBasket
  PROVE  (op = "reserve" /\ Ledger!SendReserve(c, o, items))
         \/ (op = "release" /\ Ledger!SendRelease(c, o))
  <1>1. Slots' = [Slots EXCEPT ![c] = [op |-> op, st |-> "sent", order |-> o, items |-> items]]
    <2>1. ledgerCall(c)' = [op |-> op, st |-> "sent", order |-> o, items |-> items]
      BY DEF IInv, Types, Send, ledgerCall
    <2>2. \A d \in Calls \ {c} : ledgerCall(d)' = ledgerCall(d)
      BY SameView DEF IInv, Types, Send
    <2> QED BY <2>1, <2>2 DEF Slots
  <1>2. Slots[c].st \notin {"sent", "releasing"}
    BY View DEF IInv, Types, Send, InFlight, Slots
  <1> QED BY <1>1, <1>2
      DEF Slots, Send, tables, EmptyBasket, Ledger!SendReserve, Ledger!SendRelease,
          Ledger!InFlight, Ledger!ledgerVars, Ledger!EmptyBasket

\* What the ledger does not see.
LEMMA Stutters ==
  ASSUME IInv, UNCHANGED <<tables, request, reply>>,
         \A c \in Calls : \/ stage'[c] = stage[c]
                          \/ stage[c] = "queued" /\ stage'[c] = "begun"
                          \/ stage[c] = "begun" /\ stage'[c] = "updating" /\ IsReserve(c)
                          \/ stage[c] = "updating" /\ stage'[c] = "settled"
  PROVE  UNCHANGED Ledger!vars
  <1>1. ASSUME NEW c \in Calls PROVE ledgerCall(c)' = ledgerCall(c)
    BY DEF ledgerCall, IsReserve
  <1> QED BY <1>1 DEF Ledger!vars, tables

\* The SELECT decides a release, and a reserve that is there already.
LEMMA LookupMaps ==
  ASSUME IInv, NEW c \in Calls, Lookup(c)
  PROVE  Ledger!ServiceStep(c) \/ UNCHANGED Ledger!vars
  <1> DEFINE o == request[c].order
  <1>1. /\ stage[c] = "begun" /\ request[c].op \in {"reserve", "release"}
        /\ Slots[c].op = request[c].op /\ Slots[c].st = "sent" /\ Slots[c].order = o
    BY View DEF IInv, Sound, Placed, Lookup, At, Slots, ledgerCall
  <1>2. CASE Rollback(c) /\ reservation[o] # (IF IsReserve(c) THEN "NONE" ELSE "ACTIVE")
    <2>1. Slots' = [Slots EXCEPT ![c].st = "refused"] /\ UNCHANGED tables
      <3>1. ledgerCall(c)'.st = "refused"
        BY <1>2, ViewNext DEF IInv, Types, Rollback, Finish
      <3> QED BY <1>2, <3>1, SlotStep DEF IInv, Types, Rollback, Finish
    <2>2. Ledger!ReserveRefused(c) \/ Ledger!ReleaseRead(c)
      BY <1>1, <1>2, <2>1
         DEF IsReserve, tables, Slots, Ledger!ReserveRefused, Ledger!ReleaseRead,
             Ledger!Reserving, Ledger!Reply, Ledger!ledgerVars
    <2> QED BY <2>2 DEF Ledger!ServiceStep, Ledger!Decide
  <1>3. CASE /\ reservation[o] = (IF IsReserve(c) THEN "NONE" ELSE "ACTIVE")
             /\ stage' = [stage EXCEPT ![c] = "updating"]
             /\ UNCHANGED <<tables, request, next, held, reply, lost>>
    <2>1. CASE IsReserve(c)
      BY <1>1, <1>3, <2>1, Stutters DEF IInv, Types
    <2>2. CASE ~IsReserve(c)
      <3>1. Slots' = [Slots EXCEPT ![c].st = "releasing"] /\ UNCHANGED tables
        <4>1. ledgerCall(c)'.st = "releasing"
          BY <1>3, <2>2, ViewNext DEF IInv, Types, IsReserve
        <4> QED BY <1>3, <4>1, SlotStep DEF IInv, Types
      <3>2. Ledger!ReleaseRead(c)
        BY <1>1, <1>3, <2>2, <3>1
           DEF IsReserve, tables, Slots, Ledger!ReleaseRead, Ledger!Reply, Ledger!ledgerVars
      <3> QED BY <3>2 DEF Ledger!ServiceStep, Ledger!Decide
    <2> QED BY <2>1, <2>2
  <1> QED BY <1>2, <1>3 DEF Lookup

\* A row that does not allow the write is why the ledger refuses.
LEMMA WriteRefusedMaps ==
  ASSUME IInv, NEW c \in Calls, WriteRefused(c)
  PROVE  Ledger!ServiceStep(c)
  <1> DEFINE o == request[c].order
             row == next[c]
  <1>1. /\ stage[c] = "updating" /\ request[c].op \in {"reserve", "release"}
        /\ row \in Rows /\ (row \in Orders => row = o)
        /\ o \in Orders
    BY DEF IInv, Types, Sound, Placed, WriteRefused, Unblocked, At
  <1>2. /\ Slots[c].op = request[c].op /\ Slots[c].order = o /\ Slots[c].items = request[c].items
        /\ Slots[c].st = IF IsReserve(c) THEN "sent" ELSE "releasing"
    BY <1>1, View DEF Slots, ledgerCall
  <1>3. Slots' = [Slots EXCEPT ![c].st = "refused"] /\ UNCHANGED tables
    <2>1. ledgerCall(c)'.st = "refused"
      BY ViewNext DEF IInv, Types, WriteRefused, Rollback, Finish
    <2> QED BY <2>1, SlotStep DEF IInv, Types, WriteRefused, Rollback, Finish
  <1>4. CASE IsReserve(c)
    <2>1. reservation[o] # "NONE" \/ \E p \in Products : available[p] < request[c].items[p]
      BY <1>1, <1>4 DEF IInv, Types, WriteRefused, RowAllows, Quantities
    <2>2. Ledger!ReserveRefused(c)
      BY <1>2, <1>3, <1>4, <2>1
         DEF IsReserve, tables, Slots, Ledger!ReserveRefused, Ledger!Reserving, Ledger!Reply,
             Ledger!ledgerVars
    <2> QED BY <2>2 DEF Ledger!ServiceStep, Ledger!Decide
  <1>5. CASE ~IsReserve(c)
    <2>1. \E p \in Products : ~ (reserved[p] >= lines[o][p])
      BY <1>1, <1>5 DEF WriteRefused, RowAllows, Quantities
    <2>2. Ledger!ReleaseCheckFails(c)
      BY <1>1, <1>2, <1>3, <1>5, <2>1
         DEF IsReserve, tables, Slots, Ledger!ReleaseCheckFails, Ledger!Releasing, Ledger!Reply,
             Ledger!CheckHolds, Ledger!ledgerVars
    <2> QED BY <2>2 DEF Ledger!ServiceStep, Ledger!Decide
  <1> QED BY <1>4, <1>5

\* A COMMIT is the atomic step of the ledger, answered or not.
LEMMA CommitMaps ==
  ASSUME IInv, NEW c \in Calls, Commit(c) \/ CommitAckLost(c)
  PROVE  Ledger!ServiceStep(c)
  <1> DEFINE o == request[c].order
  <1>1. PICK ok \in {"ok", "refused"} : Finish(c, ok) /\ (ok = "refused" => "ackLost" \in Faults)
    BY DEF Commit, CommitAckLost
  <1>2. Apply(c)
    BY DEF Commit, CommitAckLost
  <1>3. Slots' = [Slots EXCEPT ![c].st = ok]
    <2>1. ledgerCall(c)'.st = ok
      BY <1>1, ViewNext DEF IInv, Types, Finish
    <2> QED BY <1>1, <2>1, SlotStep DEF IInv, Types, Finish
  <1>4. /\ Slots[c].op = request[c].op /\ Slots[c].order = o /\ Slots[c].items = request[c].items
        /\ Slots[c].st = IF IsReserve(c) THEN "sent" ELSE "releasing"
        /\ request[c].op \in {"reserve", "release"}
    BY <1>2, Applied, View DEF Slots, ledgerCall, IInv, Sound, Placed
  <1>5. CASE IsReserve(c)
    <2>1. Ledger!Reserve(c)
      <3>1. Quantities(c) = request[c].items /\ Slots[c].items \in [Products -> Nat]
        BY <1>2, <1>4, <1>5, Applied DEF Quantities
      <3>2. /\ reservation[o] = "NONE" /\ \A p \in Products : available[p] >= request[c].items[p]
        BY <1>2, <1>5, <3>1, Applied
      <3>3. /\ available' = [p \in Products |-> available[p] - request[c].items[p]]
            /\ reserved' = [p \in Products |-> reserved[p] + request[c].items[p]]
        BY <1>2, <1>4, <1>5, <3>1 DEF Apply, IInv, Types
      <3>4. /\ reservation' = [reservation EXCEPT ![o] = "ACTIVE"]
            /\ lines' = [lines EXCEPT ![o] = request[c].items]
        BY <1>2, <1>5, <3>1 DEF Apply
      <3> QED BY <1>4, <3>2, <3>3, <3>4 DEF Slots, Ledger!Reserve
    <2>2. Ledger!ReserveOk(c) \/ Ledger!ReserveAckLost(c)
      BY <1>1, <1>3, <1>4, <1>5, <2>1
         DEF IsReserve, Slots, Ledger!ReserveOk, Ledger!ReserveAckLost, Ledger!Reserving,
             Ledger!Reply
    <2> QED BY <2>2 DEF Ledger!ServiceStep, Ledger!Decide, Ledger!Fail
  <1>6. CASE ~IsReserve(c)
    <2>1. Ledger!Release(c)
      <3>1. Quantities(c) = lines[o] /\ lines[o] \in [Products -> Nat] /\ o \in Orders
        BY <1>2, <1>6, Applied DEF Quantities
      <3>2. \A p \in Products : reserved[p] >= lines[o][p]
        BY <1>2, <1>6, <3>1, Applied
      <3>3. /\ available' = [p \in Products |-> available[p] + lines[o][p]]
            /\ reserved' = [p \in Products |-> reserved[p] - lines[o][p]]
        BY <1>2, <1>6, <3>1 DEF Apply, IInv, Types
      <3>4. reservation' = [reservation EXCEPT ![o] = "RELEASED"] /\ lines' = lines
        BY <1>2, <1>6, <3>1 DEF Apply, IInv, Types
      <3> QED BY <1>4, <3>2, <3>3, <3>4 DEF Slots, Ledger!Release, Ledger!CheckHolds
    <2>2. Ledger!ReleaseOk(c) \/ Ledger!ReleaseAckLost(c)
      BY <1>1, <1>3, <1>4, <1>6, <2>1
         DEF IsReserve, Slots, Ledger!ReleaseOk, Ledger!ReleaseAckLost, Ledger!Releasing,
             Ledger!Reply
    <2> QED BY <2>2 DEF Ledger!ServiceStep, Ledger!Decide, Ledger!Fail
  <1> QED BY <1>5, <1>6

\* The service starts where the ledger does.
LEMMA LedgerInit == Init => Ledger!Init
  BY DEF Init, Ledger!Init, Ledger!NoCall, Ledger!EmptyBasket, EmptyBasket, ledgerCall

\* Every step of the service is a step of the ledger, or nothing that the ledger sees.
LEMMA LedgerNext == IInv /\ [Next]_vars => [Ledger!Next]_(Ledger!vars)
  <1> SUFFICES ASSUME IInv, [Next]_vars PROVE Ledger!Next \/ UNCHANGED Ledger!vars
    OBVIOUS
  <1>1. CASE UNCHANGED vars
    BY <1>1, Stutters DEF vars
  <1>2. CASE Crash
    BY <1>2, Stutters DEF Crash
  <1>3. ASSUME NEW c \in Calls, NEW o \in Orders, NEW items \in Baskets,
               Send(c, "reserve", o, items)
        PROVE  Ledger!Next
    BY <1>3, SendMaps, StockAssumption DEF Ledger!Next
  <1>4. ASSUME NEW c \in Calls, NEW o \in Orders, Send(c, "release", o, EmptyBasket)
        PROVE  Ledger!Next
    <2>1. EmptyBasket \in [Products -> Nat]
      BY DEF EmptyBasket
    <2> QED BY <1>4, <2>1, SendMaps DEF Ledger!Next
  <1>5. ASSUME NEW c \in Calls, Connect(c) \/ IssueUpdate(c) \/ WriteRow(c)
        PROVE  UNCHANGED Ledger!vars
    BY <1>5, Stutters DEF IInv, Types, Connect, IssueUpdate, WriteRow, Unblocked, At
  <1>6. ASSUME NEW c \in Calls, Lookup(c)
        PROVE  Ledger!Next \/ UNCHANGED Ledger!vars
    BY <1>6, LookupMaps DEF Ledger!Next
  <1>7. ASSUME NEW c \in Calls, WriteRefused(c) \/ Commit(c) \/ CommitAckLost(c)
        PROVE  Ledger!Next
    BY <1>7, WriteRefusedMaps, CommitMaps DEF Ledger!Next
  <1>8. ASSUME NEW c \in Calls, LostReply(c) \/ Abort(c) \/ DeadlockVictim(c)
        PROVE  Ledger!Next
    <2>1. /\ stage[c] \in {"queued", "begun", "updating", "settled"} /\ UNCHANGED tables
          /\ Finish(c, "refused") \/ LostReply(c)
      BY <1>8, RolledBack DEF Rollback, LostReply, IInv, Types, Sound, Placed, InFlight
    <2>2. Ledger!ReserveAborted(c) \/ Ledger!ReleaseAborted(c)
      BY <2>1, RollbackIsRefusal
    <2> QED BY <2>2 DEF Ledger!Next, Ledger!ServiceStep, Ledger!Fail
  <1> QED BY <1>1, <1>2, <1>3, <1>4, <1>5, <1>6, <1>7, <1>8 DEF Next, HandlerStep, UpdateAnswers

\* With its pool, row locks, deadlocks, failing statements, lost acknowledgements and crashes,
\* the service behaves as the atomic decisions of StockLedger.
THEOREM Refinement == Spec => ImplementsLedger
  BY LedgerInit, LedgerNext, Invariance, PTL DEF Spec, ImplementsLedger, Ledger!Spec

-----------------------------------------------------------------------------
(* What is proved of the ledger, of the transactions *)

\* The theorems of StockLedgerProofs, about the tables and calls as the refinement sees them.
LedgerFacts == INSTANCE StockLedgerProofs WITH
                 invCall <- [c \in Calls |-> ledgerCall(c)],
                 Faults <- Faults \cup {"abort"}

\* What the theorems about the ledger assume, from the assumptions about the service.
LEMMA LedgerAssumptions ==
  /\ InitialStock \in [Products -> Nat]
  /\ Baskets \subseteq [Products -> Nat]
  /\ NoOrder \notin Orders
  /\ LedgerFacts!IsFiniteSet(Orders)
  <1>1. LedgerFacts!IsFiniteSet(Orders)
    BY OrderAssumption DEF LedgerFacts!IsFiniteSet, IsFiniteSet
  <1> QED BY <1>1, RowAssumption, StockAssumption

\* The ledger that the theorems are about starts as the one that the service implements.
LEMMA LedgerStarts == Ledger!Init => LedgerFacts!Init
  BY DEF Ledger!Init, Ledger!EmptyBasket, Ledger!NoCall, LedgerFacts!Init,
         LedgerFacts!EmptyBasket, LedgerFacts!NoCall

\* Its transactions decide and fail alike.
LEMMA LedgerServes ==
  ASSUME NEW c
  PROVE  Ledger!ServiceStep(c) => LedgerFacts!ServiceStep(c)
  <1>1. Ledger!ReserveOk(c) => LedgerFacts!ReserveOk(c)
    BY DEF Ledger!ReserveOk, Ledger!Reserving, Ledger!Reserve, Ledger!Reply, Ledger!InFlight,
           Ledger!EmptyBasket, Ledger!ledgerVars, LedgerFacts!ReserveOk, LedgerFacts!Reserving,
           LedgerFacts!Reserve, LedgerFacts!Reply, LedgerFacts!InFlight,
           LedgerFacts!EmptyBasket, LedgerFacts!ledgerVars
  <1>2. Ledger!ReserveRefused(c) => LedgerFacts!ReserveRefused(c)
    BY DEF Ledger!ReserveRefused, Ledger!Reserving, Ledger!Reply, Ledger!InFlight,
           Ledger!EmptyBasket, Ledger!ledgerVars, LedgerFacts!ReserveRefused,
           LedgerFacts!Reserving, LedgerFacts!Reply, LedgerFacts!InFlight,
           LedgerFacts!EmptyBasket, LedgerFacts!ledgerVars
  <1>3. Ledger!ReserveAborted(c) => LedgerFacts!ReserveAborted(c)
    BY DEF Ledger!ReserveAborted, Ledger!Reserving, Ledger!Reply, Ledger!InFlight,
           Ledger!EmptyBasket, Ledger!ledgerVars, LedgerFacts!ReserveAborted,
           LedgerFacts!Reserving, LedgerFacts!Reply, LedgerFacts!InFlight,
           LedgerFacts!EmptyBasket, LedgerFacts!ledgerVars
  <1>4. Ledger!ReserveAckLost(c) => LedgerFacts!ReserveAckLost(c)
    BY DEF Ledger!ReserveAckLost, Ledger!Reserving, Ledger!Reserve, Ledger!Reply,
           Ledger!InFlight, Ledger!EmptyBasket, Ledger!ledgerVars, LedgerFacts!ReserveAckLost,
           LedgerFacts!Reserving, LedgerFacts!Reserve, LedgerFacts!Reply, LedgerFacts!InFlight,
           LedgerFacts!EmptyBasket, LedgerFacts!ledgerVars
  <1>5. Ledger!ReleaseRead(c) => LedgerFacts!ReleaseRead(c)
    BY DEF Ledger!ReleaseRead, Ledger!Reply, Ledger!InFlight, Ledger!EmptyBasket,
           Ledger!ledgerVars, LedgerFacts!ReleaseRead, LedgerFacts!Reply, LedgerFacts!InFlight,
           LedgerFacts!EmptyBasket, LedgerFacts!ledgerVars
  <1>6. Ledger!ReleaseOk(c) => LedgerFacts!ReleaseOk(c)
    BY DEF Ledger!ReleaseOk, Ledger!Releasing, Ledger!CheckHolds, Ledger!Release, Ledger!Reply,
           Ledger!InFlight, Ledger!EmptyBasket, Ledger!ledgerVars, LedgerFacts!ReleaseOk,
           LedgerFacts!Releasing, LedgerFacts!CheckHolds, LedgerFacts!Release,
           LedgerFacts!Reply, LedgerFacts!InFlight, LedgerFacts!EmptyBasket,
           LedgerFacts!ledgerVars
  <1>7. Ledger!ReleaseCheckFails(c) => LedgerFacts!ReleaseCheckFails(c)
    BY DEF Ledger!ReleaseCheckFails, Ledger!Releasing, Ledger!CheckHolds, Ledger!Reply,
           Ledger!InFlight, Ledger!EmptyBasket, Ledger!ledgerVars,
           LedgerFacts!ReleaseCheckFails, LedgerFacts!Releasing, LedgerFacts!CheckHolds,
           LedgerFacts!Reply, LedgerFacts!InFlight, LedgerFacts!EmptyBasket,
           LedgerFacts!ledgerVars
  <1>8. Ledger!ReleaseAborted(c) => LedgerFacts!ReleaseAborted(c)
    BY DEF Ledger!ReleaseAborted, Ledger!Releasing, Ledger!Reply, Ledger!InFlight,
           Ledger!EmptyBasket, Ledger!ledgerVars, LedgerFacts!ReleaseAborted,
           LedgerFacts!Releasing, LedgerFacts!Reply, LedgerFacts!InFlight,
           LedgerFacts!EmptyBasket, LedgerFacts!ledgerVars
  <1>9. Ledger!ReleaseAckLost(c) => LedgerFacts!ReleaseAckLost(c)
    BY DEF Ledger!ReleaseAckLost, Ledger!Releasing, Ledger!CheckHolds, Ledger!Release,
           Ledger!Reply, Ledger!InFlight, Ledger!EmptyBasket, Ledger!ledgerVars,
           LedgerFacts!ReleaseAckLost, LedgerFacts!Releasing, LedgerFacts!CheckHolds,
           LedgerFacts!Release, LedgerFacts!Reply, LedgerFacts!InFlight,
           LedgerFacts!EmptyBasket, LedgerFacts!ledgerVars
  <1> QED BY <1>1, <1>2, <1>3, <1>4, <1>5, <1>6, <1>7, <1>8, <1>9 DEF Ledger!ServiceStep,
         Ledger!Decide, Ledger!Fail, LedgerFacts!ServiceStep, LedgerFacts!Decide,
         LedgerFacts!Fail

\* Its calls are sent alike.
LEMMA LedgerIsAsked ==
  ASSUME NEW c, NEW o
  PROVE  /\ \A items : Ledger!SendReserve(c, o, items) => LedgerFacts!SendReserve(c, o, items)
         /\ Ledger!SendRelease(c, o) => LedgerFacts!SendRelease(c, o)
  BY DEF Ledger!SendReserve, Ledger!SendRelease, Ledger!InFlight, Ledger!EmptyBasket,
         Ledger!ledgerVars, LedgerFacts!SendReserve, LedgerFacts!SendRelease,
         LedgerFacts!InFlight, LedgerFacts!EmptyBasket, LedgerFacts!ledgerVars

\* So the two are one specification.
LEMMA SameLedger == Ledger!Spec => LedgerFacts!Spec
  <1>1. Ledger!Next => LedgerFacts!Next
    BY LedgerServes, LedgerIsAsked DEF Ledger!Next, LedgerFacts!Next
  <1>2. [Ledger!Next]_(Ledger!vars) => [LedgerFacts!Next]_(LedgerFacts!vars)
    <2>1. UNCHANGED Ledger!vars => UNCHANGED LedgerFacts!vars
      BY DEF Ledger!vars, LedgerFacts!vars
    <2> QED BY <1>1, <2>1
  <1> QED BY LedgerStarts, <1>2, PTL DEF Ledger!Spec, LedgerFacts!Spec

\* Statement by statement, units are conserved, none is reserved without an ACTIVE reservation
\* that returns it, and an ok that a caller was sent is true.
THEOREM StatementsKeepStock ==
  Spec => [](Ledger!StockConserved /\ Ledger!NoStrandedStock /\ Ledger!OkIsTruthful)
  <1>1. ASSUME NEW f PROVE Ledger!SumFunction(f) = LedgerFacts!SumFunction(f)
    BY DEF Ledger!SumFunction, Ledger!SumFunctionOnSet, Ledger!FoldFunctionOnSet,
           Ledger!MapThenFoldSet, LedgerFacts!SumFunction, LedgerFacts!SumFunctionOnSet,
           LedgerFacts!FoldFunctionOnSet, LedgerFacts!MapThenFoldSet
  <1>2. LedgerFacts!NoStrandedStock => Ledger!NoStrandedStock
    BY <1>1 DEF Ledger!NoStrandedStock, Ledger!Committed, Ledger!Held,
                LedgerFacts!NoStrandedStock, LedgerFacts!Committed, LedgerFacts!Held
  <1>3. LedgerFacts!StockConserved => Ledger!StockConserved
    BY DEF Ledger!StockConserved, LedgerFacts!StockConserved
  <1>4. LedgerFacts!OkIsTruthful => Ledger!OkIsTruthful
    BY DEF Ledger!OkIsTruthful, LedgerFacts!OkIsTruthful
  <1>5. LedgerFacts!Spec => []LedgerFacts!StockConserved
    BY LedgerAssumptions, LedgerFacts!Conservation DEF LedgerFacts!Conservation
  <1>6. LedgerFacts!Spec => []LedgerFacts!NoStrandedStock
    BY LedgerAssumptions, LedgerFacts!NothingStranded DEF LedgerFacts!NothingStranded
  <1>7. LedgerFacts!Spec => []LedgerFacts!OkIsTruthful
    BY LedgerAssumptions, LedgerFacts!Truthful DEF LedgerFacts!Truthful
  <1> QED BY <1>2, <1>3, <1>4, <1>5, <1>6, <1>7, Refinement, SameLedger, PTL DEF ImplementsLedger
=============================================================================
