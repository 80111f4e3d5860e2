------------------------- MODULE StockLedgerProofs -------------------------
(***************************************************************************)
(* What StockLedger promises for any products, orders, number of calls,     *)
(* stock and faults: type correctness (no stock column goes below zero),     *)
(* conservation of stock, the truth of every ok: true, and no stranded stock. *)
(***************************************************************************)
EXTENDS StockLedger, Sums

\* An operation in flight, or answered ok, is on an order; a release past its status
\* check is of a reservation that exists; and a reservation never goes away.
CallsSound ==
  \A c \in Calls :
    LET o == invCall[c].order
    IN  /\ invCall[c].st # "idle" => o \in Orders /\ invCall[c].op # "none"
        /\ Releasing(c) => reservation[o] # "NONE"

IInv == TypeOK /\ StockConserved /\ CallsSound /\ OkIsTruthful

USE DEF Statuses, Basket

\* The empty tables satisfy the invariant.
LEMMA InitIInv == Init => IInv
  BY StockAssumption
     DEF Init, IInv, TypeOK, StockConserved, CallsSound, OkIsTruthful, NoCall, EmptyBasket,
         Releasing

\* Only the service writes the tables, so the caller's step touches one call slot.
LEMMA SendKeeps ==
  ASSUME IInv, NEW c \in Calls, NEW o \in Orders, NEW items \in Basket,
         SendReserve(c, o, items) \/ SendRelease(c, o)
  PROVE  IInv'
  <1>1. UNCHANGED <<available, reserved, reservation, lines>>
    BY DEF SendReserve, SendRelease, ledgerVars
  <1>2. \E call \in [op : {"reserve", "release"}, st : {"sent"}, order : Orders, items : Basket] :
          invCall' = [invCall EXCEPT ![c] = call]
    BY DEF SendReserve, SendRelease, EmptyBasket
  <1>3. PICK call \in [op : {"reserve", "release"}, st : {"sent"}, order : Orders,
                      items : Basket] :
          invCall' = [invCall EXCEPT ![c] = call]
    BY <1>2
  <1>4. \A d \in Calls : invCall'[d] = IF d = c THEN call ELSE invCall[d]
    BY <1>3 DEF IInv, TypeOK
  <1>5. TypeOK'
    BY <1>1, <1>3 DEF IInv, TypeOK
  <1>6. StockConserved'
    BY <1>1 DEF IInv, StockConserved
  <1>7. CallsSound'
    BY <1>1, <1>4 DEF IInv, CallsSound, Releasing
  <1>8. OkIsTruthful'
    BY <1>1, <1>4 DEF IInv, OkIsTruthful
  <1> QED BY <1>5, <1>6, <1>7, <1>8 DEF IInv

\* A reply only moves the state of its call.
CallType == [Calls -> [op    : {"none", "reserve", "release"},
                       st    : {"idle", "sent", "releasing", "ok", "refused"},
                       order : Orders \cup {NoOrder},
                       items : Basket]]

\* An answer keeps the type of the call slots.
LEMMA ReplyTypes ==
  ASSUME invCall \in CallType, NEW c \in Calls,
         NEW answer \in {"releasing", "ok", "refused"}, Reply(c, answer)
  PROVE  invCall' \in CallType
  BY DEF CallType, Reply

\* A reply that changes no table.
LEMMA ReplyKeeps ==
  ASSUME IInv, NEW c \in Calls, InFlight(c), Reply(c, "refused"), UNCHANGED ledgerVars
  PROVE  IInv'
  BY DEF IInv, TypeOK, StockConserved, CallsSound, OkIsTruthful, Reply, ledgerVars,
         Releasing, InFlight

\* The committed reserve of a call, whatever it is then told.
LEMMA ReserveKeeps ==
  ASSUME IInv, NEW c \in Calls, Reserving(c), Reserve(c),
         NEW answer \in {"ok", "refused"}, Reply(c, answer)
  PROVE  IInv'
  <1> DEFINE o == invCall[c].order
             q == invCall[c].items
  <1>1. o \in Orders /\ q \in [Products -> Nat]
    BY DEF IInv, TypeOK, CallsSound, Reserving
  <1>2. TypeOK'
    <2>1. available' \in [Products -> Nat] /\ reserved' \in [Products -> Nat]
      BY <1>1 DEF IInv, TypeOK, Reserve
    <2>2. reservation' \in [Orders -> Statuses] /\ lines' \in [Orders -> Basket]
      BY <1>1 DEF IInv, TypeOK, Reserve
    <2>3. invCall' \in CallType
      BY ReplyTypes DEF IInv, TypeOK, CallType
    <2> QED BY <2>1, <2>2, <2>3 DEF TypeOK, CallType
  <1>3. StockConserved'
    BY <1>1 DEF IInv, TypeOK, StockConserved, Reserve
  <1>4. CallsSound'
    BY <1>1 DEF IInv, TypeOK, CallsSound, Reserve, Reply, Reserving, Releasing
  <1>5. OkIsTruthful'
    BY <1>1 DEF IInv, TypeOK, OkIsTruthful, Reserve, Reply, Reserving, CallsSound
  <1> QED BY <1>2, <1>3, <1>4, <1>5 DEF IInv

\* The committed release of a call, whatever it is then told.
LEMMA ReleaseKeeps ==
  ASSUME IInv, NEW c \in Calls, Releasing(c), Release(c),
         NEW answer \in {"ok", "refused"}, Reply(c, answer)
  PROVE  IInv'
  <1> DEFINE o == invCall[c].order
  <1>1. o \in Orders /\ lines[o] \in [Products -> Nat] /\ reservation[o] # "NONE"
    BY DEF IInv, TypeOK, CallsSound, Releasing
  <1>2. TypeOK'
    <2>1. available' \in [Products -> Nat] /\ reserved' \in [Products -> Nat]
      BY <1>1 DEF IInv, TypeOK, Release, CheckHolds
    <2>2. reservation' \in [Orders -> Statuses] /\ lines' \in [Orders -> Basket]
      BY <1>1 DEF IInv, TypeOK, Release
    <2>3. invCall' \in CallType
      BY ReplyTypes DEF IInv, TypeOK, CallType
    <2> QED BY <2>1, <2>2, <2>3 DEF TypeOK, CallType
  <1>3. StockConserved'
    BY <1>1 DEF IInv, TypeOK, StockConserved, Release
  <1>4. CallsSound'
    BY <1>1 DEF IInv, TypeOK, CallsSound, Release, Reply, Releasing
  <1>5. OkIsTruthful'
    BY <1>1 DEF IInv, TypeOK, OkIsTruthful, Release, Reply, Releasing, CallsSound
  <1> QED BY <1>2, <1>3, <1>4, <1>5 DEF IInv

\* The status read of a release, which only moves its call.
LEMMA ReadKeeps ==
  ASSUME IInv, NEW c \in Calls, ReleaseRead(c)
  PROVE  IInv'
  BY DEF IInv, TypeOK, StockConserved, CallsSound, OkIsTruthful, ReleaseRead, Reply,
         ledgerVars, Releasing

\* Every decision and every fault of the service is one of the cases above.
LEMMA ServiceKeeps ==
  ASSUME IInv, NEW c \in Calls, ServiceStep(c)
  PROVE  IInv'
  <1>1. CASE ReserveOk(c)
    BY <1>1, ReserveKeeps DEF ReserveOk
  <1>2. CASE ReserveAckLost(c)
    BY <1>2, ReserveKeeps DEF ReserveAckLost
  <1>3. CASE ReserveRefused(c)
    BY <1>3, ReplyKeeps DEF ReserveRefused, Reserving, InFlight
  <1>4. CASE ReserveAborted(c)
    BY <1>4, ReplyKeeps DEF ReserveAborted, Reserving, InFlight
  <1>5. CASE ReleaseRead(c)
    BY <1>5, ReadKeeps
  <1>6. CASE ReleaseOk(c)
    BY <1>6, ReleaseKeeps DEF ReleaseOk
  <1>7. CASE ReleaseAckLost(c)
    BY <1>7, ReleaseKeeps DEF ReleaseAckLost
  <1>8. CASE ReleaseCheckFails(c)
    BY <1>8, ReplyKeeps DEF ReleaseCheckFails, Releasing, InFlight
  <1>9. CASE ReleaseAborted(c)
    BY <1>9, ReplyKeeps DEF ReleaseAborted
  <1> QED
    BY <1>1, <1>2, <1>3, <1>4, <1>5, <1>6, <1>7, <1>8, <1>9 DEF ServiceStep, Decide, Fail

\* Every step of Next keeps the invariant.
LEMMA NextIInv == IInv /\ [Next]_vars => IInv'
  <1> SUFFICES ASSUME IInv, [Next]_vars PROVE IInv'
    OBVIOUS
  <1>1. CASE UNCHANGED vars
    BY <1>1 DEF vars, IInv, TypeOK, StockConserved, CallsSound, OkIsTruthful, Releasing
  <1>2. CASE Next
    <2>1. PICK c \in Calls :
            \/ \E o \in Orders, items \in Baskets : SendReserve(c, o, items)
            \/ \E o \in Orders : SendRelease(c, o)
            \/ ServiceStep(c)
      BY <1>2 DEF Next
    <2>2. CASE \E o \in Orders, items \in Baskets : SendReserve(c, o, items)
      BY <2>2, SendKeeps, BasketAssumption
    <2>3. CASE \E o \in Orders : SendRelease(c, o)
      <3>1. EmptyBasket \in Basket
        BY DEF EmptyBasket
      <3> QED BY <2>3, <3>1, SendKeeps
    <2>4. CASE ServiceStep(c)
      BY <2>4, ServiceKeeps
    <2> QED BY <2>1, <2>2, <2>3, <2>4
  <1> QED BY <1>1, <1>2

\* The inductive invariant holds of every behaviour.
THEOREM Invariance == Spec => []IInv
  BY InitIInv, NextIInv, PTL DEF Spec

\* The tables and messages keep their types: the guard of the reserve and the CHECK
\* of the release keep both stock columns at or above zero.
THEOREM TypeCorrect == Spec => []TypeOK
  BY Invariance, PTL DEF IInv

\* Stock is conserved by every interleaving and every fault.
THEOREM Conservation == Spec => []StockConserved
  BY Invariance, PTL DEF IInv

\* An ok: true is the truth about the tables, and stays so.
THEOREM Truthful == Spec => []OkIsTruthful
  BY Invariance, PTL DEF IInv

-----------------------------------------------------------------------------
(* No unit is stranded *)

\* What the reservations hold of a product is a natural per order.
LEMMA HeldType == ASSUME TypeOK, NEW p \in Products PROVE Held(p) \in [Orders -> Nat]
  BY DEF TypeOK, Held

\* What the transaction of one order does to the units committed.
LEMMA CommittedChange ==
  ASSUME TypeOK, TypeOK', NEW p \in Products, NEW o \in Orders,
         \A x \in Orders \ {o} : reservation'[x] = reservation[x] /\ lines'[x] = lines[x]
  PROVE  /\ Committed(p) \in Nat /\ Committed(p)' \in Nat /\ Held(p)[o] =< Committed(p)
         /\ Committed(p)' + Held(p)[o] = Committed(p) + Held(p)'[o]
  <1>1. Held(p) \in [Orders -> Nat] /\ Held(p)' \in [Orders -> Nat]
    BY HeldType DEF TypeOK, Held
  <1>2. \A x \in Orders \ {o} : Held(p)'[x] = Held(p)[x]
    BY DEF Held
  <1>3. IsFiniteSet(Orders)
    BY OrderAssumption
  <1> DEFINE f == Held(p)
             h == Held(p)'
  <1>4. f \in [Orders -> Nat] /\ h \in [Orders -> Nat] /\ \A x \in Orders \ {o} : h[x] = f[x]
    BY <1>1, <1>2
  <1> HIDE DEF f, h
  <1>5. /\ SumFunction(h) + f[o] = SumFunction(f) + h[o]
        /\ SumFunction(f) \in Nat /\ SumFunction(h) \in Nat /\ f[o] =< SumFunction(f)
    BY <1>3, <1>4, SumUpdate, SumNat
  <1> QED BY <1>5 DEF Committed, f, h

\* Nothing is reserved at the start.
LEMMA StrandedInit == Init => NoStrandedStock
  <1> SUFFICES ASSUME Init, NEW p \in Products PROVE reserved[p] =< Committed(p)
    BY DEF NoStrandedStock
  <1>1. Held(p) = [o \in Orders |-> 0]
    BY DEF Init, Held
  <1>2. Committed(p) = 0
    BY <1>1, SumZero, OrderAssumption DEF Committed
  <1> QED BY <1>2 DEF Init

\* Every step adds to the reserved column at most what it adds to the reservations.
LEMMA StrandedNext == IInv /\ IInv' /\ NoStrandedStock /\ [Next]_vars => NoStrandedStock'
  <1> SUFFICES ASSUME IInv, IInv', NoStrandedStock, [Next]_vars, NEW p \in Products
               PROVE  (reserved[p] =< Committed(p))'
    BY DEF NoStrandedStock
  <1>1. CASE UNCHANGED ledgerVars
    BY <1>1 DEF ledgerVars, NoStrandedStock, Committed, Held
  <1>2. ASSUME NEW c \in Calls, Reserving(c), Reserve(c)
        PROVE  (reserved[p] =< Committed(p))'
    <2> DEFINE o == invCall[c].order
               q == invCall[c].items
    <2>1. o \in Orders /\ q \in [Products -> Nat]
      BY <1>2 DEF IInv, TypeOK, CallsSound, Reserving
    <2>2. Held(p)[o] = 0 /\ Held(p)'[o] = q[p] /\ reserved'[p] = reserved[p] + q[p]
      BY <1>2, <2>1 DEF IInv, TypeOK, Reserve, Held
    <2>3. \A x \in Orders \ {o} : reservation'[x] = reservation[x] /\ lines'[x] = lines[x]
      BY <1>2 DEF IInv, TypeOK, Reserve
    <2>4. Committed(p)' + Held(p)[o] = Committed(p) + Held(p)'[o] /\ Committed(p) \in Nat
          /\ Committed(p)' \in Nat
      BY <2>1, <2>3, CommittedChange DEF IInv
    <2> QED BY <2>1, <2>2, <2>4 DEF NoStrandedStock, IInv, TypeOK
  <1>3. ASSUME NEW c \in Calls, Releasing(c), Release(c)
        PROVE  (reserved[p] =< Committed(p))'
    <2> DEFINE o == invCall[c].order
    <2>1. o \in Orders /\ lines[o] \in [Products -> Nat]
      BY <1>3 DEF IInv, TypeOK, CallsSound, Releasing
    <2>2. Held(p)[o] \in {0, lines[o][p]} /\ Held(p)'[o] = 0
          /\ reserved'[p] = reserved[p] - lines[o][p]
      BY <1>3, <2>1 DEF IInv, TypeOK, Release, Held
    <2>3. \A x \in Orders \ {o} : reservation'[x] = reservation[x] /\ lines'[x] = lines[x]
      BY <1>3 DEF IInv, TypeOK, Release
    <2>4. Committed(p)' + Held(p)[o] = Committed(p) + Held(p)'[o] /\ Committed(p) \in Nat
          /\ Committed(p)' \in Nat
      BY <2>1, <2>3, CommittedChange DEF IInv
    <2> QED BY <2>1, <2>2, <2>4 DEF NoStrandedStock, IInv, TypeOK
  <1>4. ASSUME NEW c \in Calls, ServiceStep(c)
        PROVE  (reserved[p] =< Committed(p))'
    BY <1>1, <1>2, <1>3, <1>4
       DEF ServiceStep, Decide, Fail, ReserveOk, ReserveAckLost, ReserveRefused, ReserveAborted,
           ReleaseRead, ReleaseOk, ReleaseAckLost, ReleaseCheckFails, ReleaseAborted
  <1>5. ASSUME NEW c \in Calls, NEW o \in Orders,
               (\E items \in Baskets : SendReserve(c, o, items)) \/ SendRelease(c, o)
        PROVE  UNCHANGED ledgerVars
    BY <1>5 DEF SendReserve, SendRelease
  <1>6. UNCHANGED vars => UNCHANGED ledgerVars
    BY DEF vars, ledgerVars
  <1> QED BY <1>1, <1>4, <1>5, <1>6 DEF Next

\* Every reserved unit is one that an ACTIVE reservation can give back, through every
\* interleaving, failed statement and lost acknowledgement: a double release only errs on
\* the other side.
THEOREM NothingStranded == Spec => []NoStrandedStock
  <1>1. Spec => [](IInv /\ NoStrandedStock)
    BY InitIInv, NextIInv, StrandedInit, StrandedNext, PTL DEF Spec
  <1> QED BY <1>1, PTL
=============================================================================
