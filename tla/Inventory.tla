----------------------------- MODULE Inventory -----------------------------
(***************************************************************************)
(* The inventory service statement by statement: reserveStock and          *)
(* releaseReservation take a client of the connection pool, open a           *)
(* transaction and await one SQL statement after another (READ COMMITTED).   *)
(*                                                                          *)
(* What a transaction has written is invisible until it commits, and every   *)
(* row it has written stays locked until it ends; an UPDATE of a locked row   *)
(* waits, then looks at the row as committed.  So a transaction is here the   *)
(* set of rows it holds, and its writes appear at Commit.  Rows are the       *)
(* stock rows, named by product, and the reservation rows, named by order.    *)
(***************************************************************************)
EXTENDS Integers, FiniteSets

CONSTANTS Products, Orders, Calls, NoOrder, Baskets, InitialStock,
          NoRow,        \* no statement is waiting for a row
          Rank,         \* position of a product in ORDER BY product_id
          PoolMax,      \* clients in the pool
          Faults        \* "abort", "ackLost": as in StockLedger
                        \* "crash": the process ends

Rows == Products \cup Orders

ASSUME RowAssumption == Products \cap Orders = {} /\ NoRow \notin Rows /\ NoOrder \notin Orders
ASSUME OrderAssumption == IsFiniteSet(Orders)
ASSUME RankAssumption == Rank \in [Products -> Nat]
                         /\ \A p, q \in Products : Rank[p] = Rank[q] => p = q
ASSUME PoolAssumption == PoolMax \in Nat \ {0}
ASSUME StockAssumption ==
  InitialStock \in [Products -> Nat] /\ Baskets \subseteq [Products -> Nat]

VARIABLES available, reserved, reservation, lines, \* the committed tables
          request,      \* operation, order and items of each call
          stage,        \* where its handler is
          next,         \* the row its statement in progress is to write
          held,         \* the rows its transaction has written
          reply,        \* ok of its answer
          lost          \* calls whose handler died with the process

tables == <<available, reserved, reservation, lines>>
vars == <<tables, request, stage, next, held, reply, lost>>

EmptyBasket == [p \in Products |-> 0]

Init ==
  /\ available = InitialStock
  /\ reserved = EmptyBasket
  /\ reservation = [o \in Orders |-> "NONE"]
  /\ lines = [o \in Orders |-> EmptyBasket]
  /\ request = [c \in Calls |-> [op |-> "none", order |-> NoOrder, items |-> EmptyBasket]]
  /\ stage = [c \in Calls |-> "idle"]
  /\ next = [c \in Calls |-> NoRow]
  /\ held = [c \in Calls |-> {}]
  /\ reply = [c \in Calls |-> "none"]
  /\ lost = {}

Connected == {c \in Calls : stage[c] \in {"begun", "updating", "settled"}} \ lost
InFlight(c) == stage[c] \notin {"idle", "replied"}
At(c, s) == stage[c] = s /\ c \notin lost
IsReserve(c) == request[c].op = "reserve"
Quantities(c) == IF IsReserve(c) THEN request[c].items ELSE lines[request[c].order]
Todo(c) == {p \in Products : Quantities(c)[p] > 0} \ held[c]

-----------------------------------------------------------------------------
Send(c, op, o, items) ==
  /\ ~InFlight(c)
  /\ request' = [request EXCEPT ![c] = [op |-> op, order |-> o, items |-> items]]
  /\ stage' = [stage EXCEPT ![c] = "queued"]
  /\ reply' = [reply EXCEPT ![c] = "none"]
  /\ UNCHANGED <<tables, next, held, lost>>

\* await pool.connect(): a client is free.
Connect(c) ==
  /\ At(c, "queued")
  /\ Cardinality(Connected) < PoolMax
  /\ stage' = [stage EXCEPT ![c] = "begun"]
  /\ UNCHANGED <<tables, request, next, held, reply, lost>>

\* The transaction ends, its locks and its client are released, ok is answered.
Finish(c, ok) ==
  /\ stage' = [stage EXCEPT ![c] = "replied"]
  /\ next' = [next EXCEPT ![c] = NoRow]
  /\ held' = [held EXCEPT ![c] = {}]
  /\ reply' = [reply EXCEPT ![c] = ok]
  /\ UNCHANGED <<request, lost>>

\* Mutant: the reply is sent without a ROLLBACK, and the transaction keeps its rows.
RollbackMissing(c) ==
  /\ stage' = [stage EXCEPT ![c] = "replied"]
  /\ next' = [next EXCEPT ![c] = NoRow]
  /\ reply' = [reply EXCEPT ![c] = "refused"]
  /\ UNCHANGED <<tables, request, held, lost>>

Rollback(c) == Finish(c, "refused") /\ UNCHANGED tables

\* BEGIN, and the SELECT that looks for a duplicate or for an ACTIVE reservation.
Lookup(c) ==
  LET found == reservation[request[c].order]
  IN  /\ At(c, "begun")
      /\ IF found = (IF IsReserve(c) THEN "NONE" ELSE "ACTIVE")
           THEN /\ stage' = [stage EXCEPT ![c] = "updating"]
                /\ UNCHANGED <<tables, request, next, held, reply, lost>>
           ELSE Rollback(c)

-----------------------------------------------------------------------------
(* The loop of UPDATEs, and the write of the reservation row. *)

\* Mutant: the cart is read without ORDER BY product_id.
NextProductUnsorted(c, p) == p \in Todo(c)

\* A reserve goes through its items in the order the order service sends them, that
\* of product_id; a release in whatever order its SELECT without ORDER BY gave.
NextProduct(c, p) ==
  /\ p \in Todo(c)
  /\ IsReserve(c) => \A q \in Todo(c) : Rank[p] =< Rank[q]

IssueUpdate(c) ==
  /\ At(c, "updating")
  /\ next[c] = NoRow
  /\ \E row \in Rows :
       /\ NextProduct(c, row) \/ (Todo(c) = {} /\ row = request[c].order)
       /\ next' = [next EXCEPT ![c] = row]
  /\ UNCHANGED <<tables, request, stage, held, reply, lost>>

\* Mutant: SELECT, then UPDATE: the row is judged without its lock.
BlocksNever(d, c) == FALSE

Blocks(d, c) == d # c /\ next[c] \in held[d]
Unblocked(c) == At(c, "updating") /\ next[c] # NoRow /\ \A d \in Calls : ~Blocks(d, c)

\* Mutant: the schema without CHECK (reserved >= 0).
RowAllowsNegative(c) ==
  IF next[c] \in Products
    THEN IsReserve(c) => available[next[c]] >= Quantities(c)[next[c]]
    ELSE IsReserve(c) => reservation[next[c]] = "NONE"

\* WHERE available >= q of a reserve, CHECK (reserved >= 0) of a release,
\* UNIQUE (order_id) of the INSERT.
RowAllows(c) ==
  IF next[c] \in Products
    THEN (IF IsReserve(c) THEN available ELSE reserved)[next[c]] >= Quantities(c)[next[c]]
    ELSE IsReserve(c) => reservation[next[c]] = "NONE"

WriteRow(c) ==
  /\ Unblocked(c)
  /\ RowAllows(c)
  /\ held' = [held EXCEPT ![c] = @ \cup {next[c]}]
  /\ next' = [next EXCEPT ![c] = NoRow]
  /\ stage' = [stage EXCEPT ![c] = IF next[c] \in Orders THEN "settled" ELSE "updating"]
  /\ UNCHANGED <<tables, request, reply, lost>>

\* INSUFFICIENT_STOCK with its ROLLBACK, or an error that ends in the catch clause.
WriteRefused(c) == Unblocked(c) /\ ~RowAllows(c) /\ Rollback(c)

\* A statement in progress is answered once its row is free.
UpdateAnswers(c) == WriteRow(c) \/ WriteRefused(c)

Apply(c) ==
  LET o == request[c].order
      q == Quantities(c)
      sign == IF IsReserve(c) THEN 1 ELSE -1
  IN  /\ At(c, "settled")
      /\ available' = [p \in Products |-> available[p] - sign * q[p]]
      /\ reserved' = [p \in Products |-> reserved[p] + sign * q[p]]
      /\ reservation' = [reservation EXCEPT ![o] = IF IsReserve(c) THEN "ACTIVE" ELSE "RELEASED"]
      /\ lines' = [lines EXCEPT ![o] = q]

Commit(c) == Apply(c) /\ Finish(c, "ok")

-----------------------------------------------------------------------------
(* What goes wrong *)

CommitAckLost(c) == "ackLost" \in Faults /\ Apply(c) /\ Finish(c, "refused")

\* Any statement fails; the catch clause rolls back and answers ok: false.
Abort(c) == "abort" \in Faults /\ c \in Connected /\ Rollback(c)

\* A cycle of transactions, each waiting for a row the next one holds.
Deadlocked(S) ==
  /\ S # {}
  /\ \A c \in S : \E d \in S : Blocks(d, c)
  /\ \A d \in S : \E c \in S : Blocks(d, c)

\* Postgres finds the cycle after deadlock_timeout and fails the statement of one.
DeadlockVictim(c) ==
  /\ \E S \in SUBSET Calls : c \in S /\ Deadlocked(S)
  /\ Rollback(c)

\* The process ends with every handler in it, as it does when pool.connect() rejects
\* outside the try block and nobody handles it; Postgres undoes the transactions.
Crash ==
  /\ "crash" \in Faults
  /\ \E c \in Calls : InFlight(c) /\ c \notin lost
  /\ lost' = {c \in Calls : InFlight(c)}
  /\ held' = [c \in Calls |-> {}]
  /\ next' = [c \in Calls |-> NoRow]
  /\ UNCHANGED <<tables, request, stage, reply>>

\* The caller of a lost handler sees its connection fail.
LostReply(c) ==
  /\ c \in lost
  /\ lost' = lost \ {c}
  /\ stage' = [stage EXCEPT ![c] = "replied"]
  /\ reply' = [reply EXCEPT ![c] = "refused"]
  /\ UNCHANGED <<tables, request, next, held>>

-----------------------------------------------------------------------------
HandlerStep(c) ==
  \/ Lookup(c)
  \/ IssueUpdate(c)
  \/ Commit(c)
  \/ DeadlockVictim(c)
  \/ LostReply(c)

Next ==
  \/ Crash
  \/ \E c \in Calls :
       \/ \E o \in Orders, items \in Baskets : Send(c, "reserve", o, items)
       \/ \E o \in Orders : Send(c, "release", o, EmptyBasket)
       \/ Connect(c)
       \/ UpdateAnswers(c)
       \/ HandlerStep(c)
       \/ CommitAckLost(c)
       \/ Abort(c)

\* The event loop and Postgres go on; the pool hands its clients and Postgres its row
\* locks to those that wait in turn, so that nobody is overtaken for ever.
Fairness ==
  \A c \in Calls : WF_vars(HandlerStep(c)) /\ SF_vars(Connect(c)) /\ SF_vars(UpdateAnswers(c))

Spec == Init /\ [][Next]_vars
FairSpec == Spec /\ Fairness

-----------------------------------------------------------------------------
(* Properties *)

\* Every variable holds a value of its table's or local's type, and no more clients
\* are out than the pool has.
TypeOK ==
  /\ available \in [Products -> Nat]
  /\ reserved \in [Products -> Nat]
  /\ reservation \in [Orders -> {"NONE", "ACTIVE", "RELEASED"}]
  /\ lines \in [Orders -> [Products -> Nat]]
  /\ request \in [Calls -> [op : {"none", "reserve", "release"}, order : Orders \cup {NoOrder},
                            items : [Products -> Nat]]]
  /\ stage \in [Calls -> {"idle", "queued", "begun", "updating", "settled", "replied"}]
  /\ next \in [Calls -> Rows \cup {NoRow}]
  /\ held \in [Calls -> SUBSET Rows]
  /\ reply \in [Calls -> {"none", "ok", "refused"}]
  /\ lost \subseteq Calls
  /\ Cardinality(Connected) =< PoolMax

\* The state of a call as StockLedger has it.
ledgerCall(c) ==
  [op    |-> request[c].op,
   st    |-> CASE stage[c] = "idle" -> "idle"
               [] stage[c] = "replied" -> reply[c]
               [] OTHER -> IF ~IsReserve(c) /\ stage[c] \in {"updating", "settled"}
                             THEN "releasing" ELSE "sent",
   order |-> request[c].order,
   items |-> request[c].items]

\* The transactions of the service, pool, row locks, deadlocks and crashes included,
\* behave as the atomic decisions of StockLedger, on which the saga relies: a reserve
\* is all or nothing and no UPDATE acts on a row it has not rechecked.
Ledger == INSTANCE StockLedger WITH
            invCall <- [c \in Calls |-> ledgerCall(c)],
            Faults <- Faults \cup {"abort"}
ImplementsLedger == Ledger!Spec

\* Reserves alone cannot deadlock, since they all update products in one order: a
\* cycle of waiting transactions has a release in it.
DeadlockNeedsRelease ==
  \A S \in SUBSET Calls : Deadlocked(S) => \E c \in S : request[c].op = "release"

\* Every call is answered in spite of the pool's limit, row locks and deadlocks.
CallsAnswered == \A c \in Calls : InFlight(c) ~> stage[c] = "replied"
=============================================================================
