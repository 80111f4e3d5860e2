---------------------------- MODULE StockLedger ----------------------------
(***************************************************************************)
(* What the inventory service (apps/inventory-service) promises the order  *)
(* service: ReserveStock and ReleaseReservation as calls that take effect   *)
(* when their transaction commits.                                          *)
(*                                                                          *)
(* One step is one point at which the Postgres tables change or are read    *)
(* for a decision.  A reserve holds the row locks of every stock row it      *)
(* updated until it commits, so its guard and its effect are one step.  A    *)
(* release reads the reservation's status without locking the row and acts   *)
(* on it later: two steps.  Inventory.tla takes both transactions apart,     *)
(* statement by statement, and is checked to implement this module.          *)
(*                                                                          *)
(* reservations.order_id is UNIQUE, so a reservation is named by its order.  *)
(***************************************************************************)
EXTENDS Integers, FiniteSets, Functions

CONSTANTS Products,     \* rows of the stock table
          Orders,       \* order ids, and the reservation made for each
          Calls,        \* gRPC calls in flight, one per caller
          NoOrder,      \* the order of a call slot never used
          Baskets,      \* the baskets a reserve may ask for
          InitialStock, \* units available at the start, per product
          Faults        \* "abort": a statement fails and the transaction is undone
                        \* "ackLost": COMMIT takes effect, its answer does not arrive

ASSUME StockAssumption == InitialStock \in [Products -> Nat]
ASSUME BasketAssumption == Baskets \subseteq [Products -> Nat]
ASSUME OrderAssumption == NoOrder \notin Orders /\ IsFiniteSet(Orders)

VARIABLES available,    \* stock.available
          reserved,     \* stock.reserved
          reservation,  \* reservations.status, "NONE" while the row is absent
          lines,        \* reservation_items.quantity, 0 for an absent row
          invCall       \* the calls: operation, progress and reply of each

ledgerVars == <<available, reserved, reservation, lines>>
vars == <<available, reserved, reservation, lines, invCall>>

Statuses == {"NONE", "ACTIVE", "RELEASED"}
Basket == [Products -> Nat]
EmptyBasket == [p \in Products |-> 0]
NoCall == [op |-> "none", st |-> "idle", order |-> NoOrder, items |-> EmptyBasket]

\* "sent": not yet decided; "releasing": a release that read status ACTIVE;
\* "ok" and "refused": the reply, with ok true and false.
InFlight(c) == invCall[c].st \in {"sent", "releasing"}
Replied(c) == invCall[c].st \in {"ok", "refused"}

Init ==
  /\ available = InitialStock
  /\ reserved = [p \in Products |-> 0]
  /\ reservation = [o \in Orders |-> "NONE"]
  /\ lines = [o \in Orders |-> EmptyBasket]
  /\ invCall = [c \in Calls |-> NoCall]

-----------------------------------------------------------------------------
(* The caller's side: a request leaves the order service. *)

SendReserve(c, o, items) ==
  /\ ~InFlight(c)
  /\ invCall' = [invCall EXCEPT ![c] =
                   [op |-> "reserve", st |-> "sent", order |-> o, items |-> items]]
  /\ UNCHANGED ledgerVars

SendRelease(c, o) ==
  /\ ~InFlight(c)
  /\ invCall' = [invCall EXCEPT ![c] =
                   [op |-> "release", st |-> "sent", order |-> o, items |-> EmptyBasket]]
  /\ UNCHANGED ledgerVars

-----------------------------------------------------------------------------
(* The service's side. *)

Reply(c, answer) == invCall' = [invCall EXCEPT ![c].st = answer]

Reserving(c) == invCall[c].op = "reserve" /\ invCall[c].st = "sent"

\* Mutant: the UPDATE takes from available and forgets reserved.
ReserveUncounted(c) ==
  LET o == invCall[c].order
      q == invCall[c].items
  IN  /\ reservation[o] = "NONE"
      /\ \A p \in Products : available[p] >= q[p]
      /\ available' = [p \in Products |-> available[p] - q[p]]
      /\ reservation' = [reservation EXCEPT ![o] = "ACTIVE"]
      /\ lines' = [lines EXCEPT ![o] = q]
      /\ UNCHANGED reserved

\* UPDATE stock ... WHERE available >= q, for every line, and the rows of the
\* reservation: the effect of the committed transaction.
Reserve(c) ==
  LET o == invCall[c].order
      q == invCall[c].items
  IN  /\ reservation[o] = "NONE"
      /\ \A p \in Products : available[p] >= q[p]
      /\ available' = [p \in Products |-> available[p] - q[p]]
      /\ reserved' = [p \in Products |-> reserved[p] + q[p]]
      /\ reservation' = [reservation EXCEPT ![o] = "ACTIVE"]
      /\ lines' = [lines EXCEPT ![o] = q]

ReserveOk(c) == Reserving(c) /\ Reserve(c) /\ Reply(c, "ok")

\* Mutant: no ROLLBACK before the reply, so that the lines already updated stay taken.
ReserveRefusedNoRollback(c) ==
  LET q == invCall[c].items
      taken == [p \in Products |-> IF available[p] >= q[p] THEN q[p] ELSE 0]
  IN  /\ Reserving(c)
      /\ \E p \in Products : available[p] < q[p]
      /\ available' = [p \in Products |-> available[p] - taken[p]]
      /\ reserved' = [p \in Products |-> reserved[p] + taken[p]]
      /\ Reply(c, "refused")
      /\ UNCHANGED <<reservation, lines>>

\* RESERVATION_EXISTS, or the UPDATE of one product matched no row.
ReserveRefused(c) ==
  /\ Reserving(c)
  /\ \/ reservation[invCall[c].order] # "NONE"
     \/ \E p \in Products : available[p] < invCall[c].items[p]
  /\ Reply(c, "refused")
  /\ UNCHANGED ledgerVars

\* The catch clause after a rollback.
ReserveAborted(c) ==
  /\ "abort" \in Faults
  /\ Reserving(c)
  /\ Reply(c, "refused")
  /\ UNCHANGED ledgerVars

\* The catch clause after a COMMIT that was applied: the ROLLBACK finds no
\* transaction, and the caller is told ok: false.
ReserveAckLost(c) ==
  /\ "ackLost" \in Faults
  /\ Reserving(c)
  /\ Reserve(c)
  /\ Reply(c, "refused")

\* SELECT ... WHERE status = 'ACTIVE', without FOR UPDATE.
ReleaseRead(c) ==
  /\ invCall[c].op = "release"
  /\ invCall[c].st = "sent"
  /\ Reply(c, IF reservation[invCall[c].order] = "ACTIVE" THEN "releasing" ELSE "refused")
  /\ UNCHANGED ledgerVars

Releasing(c) == invCall[c].op = "release" /\ invCall[c].st = "releasing"

\* Mutant: the schema without its CHECK.
CheckHoldsNever(o) == TRUE

\* CHECK (reserved >= 0) of the stock table, for every line of the reservation.
CheckHolds(o) == \A p \in Products : reserved[p] >= lines[o][p]

\* Mutant: the reservation is not marked RELEASED.
ReleaseUnmarked(c) ==
  LET o == invCall[c].order
  IN  /\ CheckHolds(o)
      /\ available' = [p \in Products |-> available[p] + lines[o][p]]
      /\ reserved' = [p \in Products |-> reserved[p] - lines[o][p]]
      /\ UNCHANGED <<reservation, lines>>

\* Mutant: the units are made available again and stay reserved too.
ReleaseStillReserved(c) ==
  LET o == invCall[c].order
  IN  /\ CheckHolds(o)
      /\ available' = [p \in Products |-> available[p] + lines[o][p]]
      /\ reservation' = [reservation EXCEPT ![o] = "RELEASED"]
      /\ UNCHANGED <<reserved, lines>>

Release(c) ==
  LET o == invCall[c].order
  IN  /\ CheckHolds(o)
      /\ available' = [p \in Products |-> available[p] + lines[o][p]]
      /\ reserved' = [p \in Products |-> reserved[p] - lines[o][p]]
      /\ reservation' = [reservation EXCEPT ![o] = "RELEASED"]
      /\ UNCHANGED lines

ReleaseOk(c) == Releasing(c) /\ Release(c) /\ Reply(c, "ok")

\* Mutant: the catch clause rolls back and does not call back.
ReleaseCheckFailsSilently(c) == FALSE

\* The CHECK constraint sends the transaction to the catch clause.
ReleaseCheckFails(c) ==
  /\ Releasing(c)
  /\ ~CheckHolds(invCall[c].order)
  /\ Reply(c, "refused")
  /\ UNCHANGED ledgerVars

\* The catch clause of a release, after a statement of it failed.
ReleaseAborted(c) ==
  /\ "abort" \in Faults
  /\ invCall[c].op = "release"
  /\ InFlight(c)
  /\ Reply(c, "refused")
  /\ UNCHANGED ledgerVars

ReleaseAckLost(c) ==
  /\ "ackLost" \in Faults
  /\ Releasing(c)
  /\ Release(c)
  /\ Reply(c, "refused")

\* What the code decides by itself, and what a fault decides.
Decide(c) ==
  \/ ReserveOk(c)
  \/ ReserveRefused(c)
  \/ ReleaseRead(c)
  \/ ReleaseOk(c)
  \/ ReleaseCheckFails(c)

Fail(c) ==
  \/ ReserveAborted(c)
  \/ ReserveAckLost(c)
  \/ ReleaseAborted(c)
  \/ ReleaseAckLost(c)

ServiceStep(c) == Decide(c) \/ Fail(c)

-----------------------------------------------------------------------------
Next ==
  \E c \in Calls :
    \/ \E o \in Orders, items \in Baskets : SendReserve(c, o, items)
    \/ \E o \in Orders : SendRelease(c, o)
    \/ ServiceStep(c)

\* The event loop and the database keep working; no fault is owed to anybody.
Fairness == \A c \in Calls : WF_vars(Decide(c))

Spec == Init /\ [][Next]_vars
FairSpec == Spec /\ Fairness

-----------------------------------------------------------------------------
(* Properties *)

\* Every variable holds a value of its table's or message's type; in particular
\* no stock column goes below the zero its CHECK constraints allow.
TypeOK ==
  /\ available \in [Products -> Nat]
  /\ reserved \in [Products -> Nat]
  /\ reservation \in [Orders -> Statuses]
  /\ lines \in [Orders -> Basket]
  /\ invCall \in [Calls -> [op    : {"none", "reserve", "release"},
                           st    : {"idle", "sent", "releasing", "ok", "refused"},
                           order : Orders \cup {NoOrder},
                           items : Basket]]

\* Units of a product that some reservation still counts on.
Held(p) == [o \in Orders |-> IF reservation[o] = "ACTIVE" THEN lines[o][p] ELSE 0]
Committed(p) == SumFunction(Held(p))

\* No unit is made or lost: whatever transactions interleave, fail or lose their
\* answer, a product's available and reserved columns add up to its stock.
StockConserved == \A p \in Products : available[p] + reserved[p] = InitialStock[p]

\* "partial reservations would strand stock": every reserved unit is one that an
\* ACTIVE reservation can give back.
NoStrandedStock == \A p \in Products : reserved[p] =< Committed(p)

\* A caller told ok: true may rely on it: the reservation it asked for exists with
\* exactly its lines, or the one it released is released for good.
OkIsTruthful ==
  \A c \in Calls : invCall[c].st = "ok" =>
    LET o == invCall[c].order
    IN  \/ invCall[c].op = "reserve" /\ reservation[o] # "NONE" /\ lines[o] = invCall[c].items
        \/ invCall[c].op = "release" /\ reservation[o] = "RELEASED"

\* "Two people buying the last item cannot both win" (GRPC.md): the reservations
\* that count on a product never exceed what there is of it.  Two concurrent
\* releases of one reservation both pass the unlocked status read and give its
\* units back twice, which lets the next reserve take units already promised.
NoOversell == \A p \in Products : Committed(p) =< InitialStock[p]

\* Every call is answered: no state of the tables, and no fault, leaves a caller
\* (who has set no deadline) waiting for ever.
CallsAnswered == \A c \in Calls : InFlight(c) ~> Replied(c)
=============================================================================
