------------------------- MODULE CheckoutSagaProofs -------------------------
(***************************************************************************)
(* What the checkout saga promises for any shoppers, products, orders,       *)
(* requests, stock and faults, and what it leaves in the three databases.    *)
(*                                                                          *)
(* The invariants of CheckoutSaga relate the tables of three services, which *)
(* no step of one service looks at together.  What connects them is what     *)
(* each request has asked for: the inductive invariant says how far a        *)
(* request's pc is along its calls (Control), what each call slot is about    *)
(* and what its answer says (Slots), which call wrote each row (Tables), and  *)
(* that what an event says stays true (Story).                               *)
(*                                                                          *)
(* StockExact adds up a column, so it needs the laws of Sums.  AllOrNothing  *)
(* is proved while nothing fails, and needs Calm: what each request's place   *)
(* in its handler says of the rows of every service, and what a cancel's copy  *)
(* of the row still says of the row.                                        *)
(*                                                                          *)
(* The saga uses the two services as their own theorems assume, so that those *)
(* hold of the tables and calls of the saga (SagaStock, SagaPayments).        *)
(***************************************************************************)
EXTENDS CheckoutSaga, Sums

-----------------------------------------------------------------------------
(* The inductive invariant *)

\* The points of a checkout before it asks for a reservation, and before it asks for money.
Unreserved == {"idle", "refused", "loaded", "items", "created"}
Uncharged == Unreserved \cup {"reserving", "rejected", "reserved"}

\* How far a checkout got, against the calls it has made.
CheckoutPoint(o) ==
  /\ pc[o] \in Uncharged \cup {"authorizing", "compensating", "unpaid", "confirmed", "cleared",
                               "done", "failed"}
  /\ pc[o] \in Unreserved => invCall[o].op = "none"
  /\ pc[o] \in {"reserving", "rejected", "reserved", "authorizing", "confirmed", "cleared"} =>
       invCall[o].op = "reserve"
  /\ pc[o] \in {"compensating", "unpaid"} => invCall[o].op = "release"
  /\ pc[o] = "unpaid" => Inv!Replied(o)
  /\ pc[o] \in Uncharged => payCall[o].op = "none"
  /\ pc[o] \in {"authorizing", "compensating", "unpaid", "confirmed", "cleared"} =>
       payCall[o].op = "authorize"
  /\ pc[o] = "created" => orderItems[o] = want[o]
  /\ pc[o] = "reserved" => resvId[o]
  /\ pc[o] \notin {"idle", "refused", "loaded", "failed"} => status[o] # "NONE"
  /\ pc[o] \in {"confirmed", "cleared"} => confirmedAt[o]
  /\ confirmedAt[o] => pc[o] \in {"confirmed", "cleared", "done", "failed"}

\* The same of a cancel, and what its copy of the row still tells of the order.
CancelPoint(c) ==
  /\ pc[c] \in {"idle", "refused", "loaded", "releasing", "refunding", "cancelled", "done",
                "failed"}
  /\ pc[c] \in {"idle", "refused", "loaded"} => invCall[c].op = "none"
  /\ pc[c] \in {"idle", "refused", "loaded", "releasing"} => payCall[c].op = "none"
  /\ pc[c] \in {"loaded", "releasing", "refunding", "cancelled"} => target[c] \in Checkouts
  /\ target[c] \in Checkouts => status[target[c]] # "NONE"
  /\ target[c] \in Checkouts /\ snap[c].status = "CONFIRMED" => confirmedAt[target[c]]

Control == (\A o \in Checkouts : CheckoutPoint(o)) /\ (\A c \in Cancels : CancelPoint(c))

\* What a request asked of the inventory service, and what its answer says of the tables.
InvSlot(r) ==
  /\ invCall[r].op = "none" <=> invCall[r].st = "idle"
  /\ invCall[r].op # "none" => invCall[r].order \in Checkouts
  /\ r \in Checkouts /\ invCall[r].op # "none" =>
       invCall[r].order = r /\ orderItems[r] = want[r]
  /\ r \in Cancels => invCall[r].op # "reserve"
  /\ invCall[r].op = "reserve" => invCall[r].items = want[r] /\ invCall[r].st # "releasing"
  /\ invCall[r].st = "releasing" => reservation[invCall[r].order] # "NONE"
  /\ invCall[r].st = "ok" /\ invCall[r].op = "reserve" => reservation[r] # "NONE"
  /\ invCall[r].st = "ok" /\ invCall[r].op = "release" =>
       reservation[invCall[r].order] = "RELEASED"

\* The same of the payment service.
PaySlot(r) ==
  /\ payCall[r].op = "none" <=> payCall[r].st = "idle"
  /\ payCall[r].op # "none" => payCall[r].order \in Checkouts
  /\ r \in Checkouts => payCall[r].op # "refund"
  /\ payCall[r].op = "authorize" => r \in Checkouts /\ payCall[r].order = r /\ resvId[r]
  /\ payCall[r].op = "refund" => r \in Cancels /\ confirmedAt[payCall[r].order]
  /\ Pay!Answered(r, "authorize", "AUTHORIZED") => payments[r] \in {"AUTHORIZED", "REFUNDED"}

Slots == \A r \in Requests : InvSlot(r) /\ PaySlot(r)

\* What the tables of the three services say of an order.
Rows(o) ==
  /\ reservation[o] # "NONE" => lines[o] = orderItems[o] /\ invCall[o].op # "none"
  /\ resvId[o] => reservation[o] # "NONE"
  /\ payments[o] # "NONE" => payCall[o].op = "authorize"
  /\ payments[o] = "REFUNDED" \/ refunds[o] > 0 => confirmedAt[o]
  /\ status[o] = "CONFIRMED" => confirmedAt[o]
  /\ confirmedAt[o] => payCall[o].op = "authorize"
  /\ status[o] = "PAYMENT_FAILED" =>
       invCall[o].op = "release" /\ Inv!Replied(o) /\ pc[o] \in {"unpaid", "done", "failed"}

Tables == \A o \in Checkouts : Rows(o)

\* What an event says stays true: the saga that failed has ended.
EventSound(e) ==
  /\ status[e.order] # "NONE"
  /\ e.type = "order.confirmed" => confirmedAt[e.order]
  /\ e.reason = "INVENTORY_REJECTED" =>
       pc[e.order] = "done" /\ ~confirmedAt[e.order] /\ payCall[e.order].op = "none"
  /\ e.reason = "PAYMENT_FAILED" =>
       pc[e.order] = "done" /\ ~confirmedAt[e.order] /\ resvId[e.order]

Story == \A e \in events : EventSound(e)

IInv == TypeOK /\ Control /\ Slots /\ Tables /\ Story

-----------------------------------------------------------------------------
(* What a step of either service does *)

\* A reply, or the progress of a call, moves only the state of its slot.
LEMMA InvReply ==
  ASSUME Inv!TypeOK, NEW r \in Requests, NEW answer \in {"releasing", "ok", "refused"},
         Inv!Reply(r, answer)
  PROVE  /\ invCall' \in [Requests -> [op    : {"none", "reserve", "release"},
                                       st    : {"idle", "sent", "releasing", "ok", "refused"},
                                       order : Checkouts \cup {NoOrder},
                                       items : Inv!Basket]]
         /\ \A d \in Requests \ {r} : invCall'[d] = invCall[d]
         /\ invCall'[r].op = invCall[r].op
         /\ invCall'[r].order = invCall[r].order
         /\ invCall'[r].items = invCall[r].items
         /\ invCall'[r].st = answer
  BY DEF Inv!TypeOK, Inv!Reply

\* The committed reserve, and the committed release.
ReserveEffect(r) ==
  LET o == invCall[r].order
  IN  /\ Inv!Reserving(r)
      /\ reservation[o] = "NONE"
      /\ reservation' = [reservation EXCEPT ![o] = "ACTIVE"]
      /\ lines' = [lines EXCEPT ![o] = invCall[r].items]

ReleaseEffect(r) ==
  /\ Inv!Releasing(r)
  /\ reservation' = [reservation EXCEPT ![invCall[r].order] = "RELEASED"]
  /\ lines' = lines

\* One decision or fault of the inventory service: the rows it writes and its answer.
LEMMA InventoryEffect ==
  ASSUME Inv!TypeOK, NEW r \in Requests, InvSlot(r), Inv!ServiceStep(r)
  PROVE  /\ Inv!TypeOK'
         /\ invCall[r].op # "none"
         /\ \A d \in Requests \ {r} : invCall'[d] = invCall[d]
         /\ invCall'[r].op = invCall[r].op
         /\ invCall'[r].order = invCall[r].order
         /\ invCall'[r].items = invCall[r].items
         /\ \/ invCall'[r].st = "refused" /\ UNCHANGED <<reservation, lines>>
            \/ invCall'[r].st = "releasing" /\ invCall[r].op = "release"
               /\ reservation[invCall[r].order] = "ACTIVE" /\ UNCHANGED <<reservation, lines>>
            \/ invCall'[r].st \in {"ok", "refused"} /\ ReserveEffect(r)
            \/ invCall'[r].st \in {"ok", "refused"} /\ ReleaseEffect(r)
  <1> DEFINE o == invCall[r].order
  <1> USE DEF Inv!InFlight
  <1>1. o \in Checkouts \/ invCall[r].op = "none"
    BY DEF InvSlot
  <1>2. CASE Inv!ReserveOk(r) \/ Inv!ReserveAckLost(r)
    <2>1. PICK a \in {"ok", "refused"} : Inv!Reply(r, a)
      BY <1>2 DEF Inv!ReserveOk, Inv!ReserveAckLost
    <2>2. Inv!Reserving(r) /\ Inv!Reserve(r)
      BY <1>2 DEF Inv!ReserveOk, Inv!ReserveAckLost
    <2>3. o \in Checkouts /\ invCall[r].items \in Inv!Basket
      BY <1>1, <2>2 DEF Inv!Reserving, Inv!TypeOK
    <2>4. available' \in [Products -> Nat] /\ reserved' \in [Products -> Nat]
      BY <2>2, <2>3 DEF Inv!TypeOK, Inv!Reserve, Inv!Basket
    <2>5. reservation' \in [Checkouts -> Inv!Statuses] /\ lines' \in [Checkouts -> Inv!Basket]
      BY <2>2, <2>3 DEF Inv!TypeOK, Inv!Reserve, Inv!Statuses
    <2>6. ReserveEffect(r)
      BY <2>2 DEF ReserveEffect, Inv!Reserve
    <2> QED BY <2>1, <2>2, <2>4, <2>5, <2>6, InvReply DEF Inv!TypeOK, Inv!Reserving
  <1>3. CASE Inv!ReleaseOk(r) \/ Inv!ReleaseAckLost(r)
    <2>1. PICK a \in {"ok", "refused"} : Inv!Reply(r, a)
      BY <1>3 DEF Inv!ReleaseOk, Inv!ReleaseAckLost
    <2>2. Inv!Releasing(r) /\ Inv!Release(r)
      BY <1>3 DEF Inv!ReleaseOk, Inv!ReleaseAckLost
    <2>3. o \in Checkouts /\ lines[o] \in [Products -> Nat]
      BY <1>1, <2>2 DEF Inv!Releasing, Inv!TypeOK, Inv!Basket
    <2>4. available' \in [Products -> Nat] /\ reserved' \in [Products -> Nat]
      BY <2>2, <2>3 DEF Inv!TypeOK, Inv!Release, Inv!CheckHolds
    <2>5. reservation' \in [Checkouts -> Inv!Statuses] /\ lines' \in [Checkouts -> Inv!Basket]
      BY <2>2, <2>3 DEF Inv!TypeOK, Inv!Release, Inv!Statuses
    <2>6. ReleaseEffect(r)
      BY <2>2 DEF ReleaseEffect, Inv!Release
    <2> QED BY <2>1, <2>2, <2>4, <2>5, <2>6, InvReply DEF Inv!TypeOK, Inv!Releasing
  <1>4. CASE Inv!ReleaseRead(r)
    <2>1. PICK a \in {"releasing", "refused"} :
            Inv!Reply(r, a) /\ (a = "releasing" => reservation[o] = "ACTIVE")
      BY <1>4 DEF Inv!ReleaseRead
    <2>2. UNCHANGED <<available, reserved, reservation, lines>> /\ invCall[r].op = "release"
      BY <1>4 DEF Inv!ReleaseRead, Inv!ledgerVars
    <2> QED BY <2>1, <2>2, InvReply DEF Inv!TypeOK
  <1>5. CASE \/ Inv!ReserveRefused(r) \/ Inv!ReserveAborted(r)
             \/ Inv!ReleaseCheckFails(r) \/ Inv!ReleaseAborted(r)
    <2>1. Inv!Reply(r, "refused") /\ UNCHANGED <<available, reserved, reservation, lines>>
      BY <1>5 DEF Inv!ReserveRefused, Inv!ReserveAborted, Inv!ReleaseCheckFails,
                  Inv!ReleaseAborted, Inv!ledgerVars
    <2>2. invCall[r].op # "none"
      BY <1>5 DEF Inv!ReserveRefused, Inv!ReserveAborted, Inv!ReleaseCheckFails,
                  Inv!ReleaseAborted, Inv!Reserving, Inv!Releasing
    <2> QED BY <2>1, <2>2, InvReply DEF Inv!TypeOK
  <1> QED BY <1>2, <1>3, <1>4, <1>5 DEF Inv!ServiceStep, Inv!Decide, Inv!Fail

\* The slots of calls to the payment service.
PayCallType == [op     : {"none", "authorize", "refund"},
                st     : {"idle", "sent", "checked", "recorded", "replied"},
                order  : Checkouts \cup {NoOrder},
                method : Pay!Methods,
                answer : Pay!Answers]

\* Both EXCEPTs of a reply, field by field.
LEMMA PayReplyFields ==
  ASSUME NEW call \in PayCallType, NEW a \in Pay!Answers
  PROVE  [call EXCEPT !.st = "replied", !.answer = a] =
           [op |-> call.op, st |-> "replied", order |-> call.order, method |-> call.method,
            answer |-> a]
  <1> DEFINE new == [op |-> call.op, st |-> "replied", order |-> call.order,
                     method |-> call.method, answer |-> call.answer]
  <1>1. [call EXCEPT !.st = "replied"] = new
    BY DEF PayCallType
  <1>2. [new EXCEPT !.answer = a] =
          [op |-> call.op, st |-> "replied", order |-> call.order, method |-> call.method,
           answer |-> a]
    OBVIOUS
  <1>3. [call EXCEPT !.st = "replied", !.answer = a] = [new EXCEPT !.answer = a]
    <2> HIDE DEF new
    <2> QED BY <1>1, Zenon
  <1> QED BY <1>1, <1>2, <1>3

\* What stays of the calls when the call of r replies or advances.
SlotMoved(r, st) ==
  /\ payCall' \in [Requests -> PayCallType]
  /\ \A d \in Requests \ {r} : payCall'[d] = payCall[d]
  /\ payCall'[r].op = payCall[r].op
  /\ payCall'[r].order = payCall[r].order
  /\ payCall'[r].st = st

\* An answer of the payment service, and nothing else in the slots.
LEMMA PayReply ==
  ASSUME payCall \in [Requests -> PayCallType], NEW r \in Requests, NEW a \in Pay!Answers,
         Pay!Reply(r, a)
  PROVE  SlotMoved(r, "replied") /\ payCall'[r].answer = a
  <1> DEFINE new == [op |-> payCall[r].op, st |-> "replied", order |-> payCall[r].order,
                     method |-> payCall[r].method, answer |-> a]
  <1>1. payCall[r] \in PayCallType
    OBVIOUS
  <1>2. new \in PayCallType
    BY <1>1 DEF PayCallType
  <1>3. payCall' = [payCall EXCEPT ![r] = [payCall[r] EXCEPT !.st = "replied", !.answer = a]]
    BY DEF Pay!Reply, PayCallType
  <1>4. payCall' = [payCall EXCEPT ![r] = new]
    <2>1. [payCall[r] EXCEPT !.st = "replied", !.answer = a] = new
      BY <1>1, PayReplyFields
    <2> QED BY <1>3, <2>1, Zenon
  <1>5. new.op = payCall[r].op /\ new.order = payCall[r].order /\ new.st = "replied"
        /\ new.answer = a
    OBVIOUS
  <1> HIDE DEF new
  <1> QED BY <1>2, <1>4, <1>5 DEF SlotMoved

\* A call that gets further without an answer.
LEMMA PayAdvance ==
  ASSUME payCall \in [Requests -> PayCallType], NEW r \in Requests,
         NEW st \in {"checked", "recorded"}, Pay!Advance(r, st)
  PROVE  SlotMoved(r, st)
  BY DEF Pay!Advance, SlotMoved, PayCallType

\* One decision or fault of the payment service: the rows it writes and its answer.
AuthorizeEffect(r) ==
  LET o == payCall[r].order
  IN  /\ payCall[r].op = "authorize"
      /\ payCall'[r].st \in {"checked", "replied"}
      /\ refunds' = refunds
      /\ \/ payments' = payments
         \/ payments[o] = "NONE"
            /\ \E psp \in {"AUTHORIZED", "DECLINED"} : payments' = [payments EXCEPT ![o] = psp]
      /\ payCall'[r].st = "replied" /\ payCall'[r].answer = "AUTHORIZED" =>
           payments'[o] = "AUTHORIZED"

RefundEffect(r) ==
  LET o == payCall[r].order
  IN  /\ payCall[r].op = "refund"
      /\ payCall'[r].st \in {"checked", "recorded", "replied"}
      /\ \/ UNCHANGED <<payments, refunds>>
         \/ payCall[r].st = "checked" /\ payCall'[r].st \in {"recorded", "replied"}
            /\ payments' = payments /\ refunds' = [refunds EXCEPT ![o] = @ + 1]
         \/ payments' = [payments EXCEPT ![o] = "REFUNDED"] /\ refunds' = refunds

\* One decision or fault of the payment service: the rows it writes and its answer.
LEMMA PaymentEffect ==
  ASSUME Pay!TypeOK, NEW r \in Requests, PaySlot(r), Pay!ServiceStep(r)
  PROVE  /\ Pay!TypeOK'
         /\ payCall[r].op # "none"
         /\ \A d \in Requests \ {r} : payCall'[d] = payCall[d]
         /\ payCall'[r].op = payCall[r].op
         /\ payCall'[r].order = payCall[r].order
         /\ AuthorizeEffect(r) \/ RefundEffect(r)
  <1> DEFINE o == payCall[r].order
  <1>0. payCall \in [Requests -> PayCallType]
    BY DEF Pay!TypeOK, PayCallType
  <1>1. /\ payments \in [Checkouts -> Pay!Statuses] /\ refunds \in [Checkouts -> Nat]
        /\ o \in Checkouts \/ payCall[r].op = "none"
    BY DEF Pay!TypeOK, PaySlot
  <1>2. CASE Pay!AuthorizeLookup(r)
    <2>1. o \in Checkouts /\ payments[o] \in Pay!Answers
      BY <1>1, <1>2 DEF Pay!AuthorizeLookup, Pay!At, Pay!Statuses, Pay!Answers
    <2>2. UNCHANGED <<payments, refunds>>
      BY <1>2 DEF Pay!AuthorizeLookup, Pay!tableVars
    <2>3. \/ SlotMoved(r, "checked")
          \/ SlotMoved(r, "replied") /\ payCall'[r].answer = payments[o]
      BY <1>0, <1>2, <2>1, PayReply, PayAdvance DEF Pay!AuthorizeLookup
    <2> QED
      BY <1>1, <1>2, <2>2, <2>3
         DEF SlotMoved, Pay!TypeOK, PayCallType, AuthorizeEffect, Pay!AuthorizeLookup, Pay!At
  <1>3. CASE Pay!AuthorizeCharge(r) \/ Pay!AuthorizeAckLost(r)
    <2> DEFINE psp == Pay!chargePsp(payCall[r].method)
    <2>1. Pay!InsertPayment(r) /\ (Pay!Reply(r, psp) \/ Pay!Reply(r, "ERROR"))
      BY <1>3 DEF Pay!AuthorizeCharge, Pay!AuthorizeAckLost
    <2>2. psp \in {"AUTHORIZED", "DECLINED"}
      BY DEF Pay!chargePsp
    <2>3. /\ payCall[r].op = "authorize" /\ payments[o] = "NONE"
          /\ payments' = [payments EXCEPT ![o] = psp] /\ refunds' = refunds
      BY <2>1 DEF Pay!InsertPayment, Pay!At
    <2> HIDE DEF psp
    <2>4. /\ SlotMoved(r, "replied")
          /\ payCall'[r].answer = psp \/ payCall'[r].answer = "ERROR"
      BY <1>0, <2>1, <2>2, PayReply DEF Pay!Answers
    <2>5. payments' \in [Checkouts -> Pay!Statuses] /\ payments'[o] = psp
      BY <1>1, <2>2, <2>3 DEF Pay!Statuses
    <2> QED
      BY <1>1, <2>2, <2>3, <2>4, <2>5 DEF SlotMoved, Pay!TypeOK, PayCallType, AuthorizeEffect
  <1>4. CASE Pay!AuthorizeDuplicate(r) \/ Pay!AuthorizeError(r) \/ Pay!RefundError(r)
    <2>1. /\ UNCHANGED <<payments, refunds>> /\ Pay!Reply(r, "ERROR")
          /\ payCall[r].op \in {"authorize", "refund"}
      BY <1>4 DEF Pay!AuthorizeDuplicate, Pay!AuthorizeError, Pay!RefundError, Pay!tableVars,
                  Pay!At
    <2>2. SlotMoved(r, "replied") /\ payCall'[r].answer = "ERROR"
      BY <1>0, <2>1, PayReply DEF Pay!Answers
    <2> QED
      BY <1>1, <2>1, <2>2 DEF SlotMoved, Pay!TypeOK, PayCallType, AuthorizeEffect, RefundEffect
  <1>5. CASE Pay!RefundLookup(r)
    <2>1. UNCHANGED <<payments, refunds>> /\ payCall[r].op = "refund"
      BY <1>5 DEF Pay!RefundLookup, Pay!tableVars, Pay!At
    <2>2. SlotMoved(r, "checked") \/ SlotMoved(r, "replied")
      BY <1>0, <1>5, PayReply, PayAdvance DEF Pay!RefundLookup, Pay!Answers
    <2> QED BY <1>1, <2>1, <2>2 DEF SlotMoved, Pay!TypeOK, PayCallType, RefundEffect
  <1>6. CASE Pay!InsertRefund(r) /\ (Pay!Advance(r, "recorded") \/ Pay!Reply(r, "ERROR"))
    <2>1. /\ payments' = payments /\ refunds' = [refunds EXCEPT ![o] = @ + 1]
          /\ payCall[r].op = "refund" /\ payCall[r].st = "checked"
      BY <1>6 DEF Pay!InsertRefund, Pay!At
    <2>2. SlotMoved(r, "recorded") \/ SlotMoved(r, "replied")
      BY <1>0, <1>6, PayReply, PayAdvance DEF Pay!Answers
    <2>3. refunds' \in [Checkouts -> Nat]
      BY <1>1, <2>1
    <2> QED BY <1>1, <2>1, <2>2, <2>3 DEF SlotMoved, Pay!TypeOK, PayCallType, RefundEffect
  <1>7. CASE Pay!MarkRefunded(r) /\ (Pay!Reply(r, "REFUNDED") \/ Pay!Reply(r, "ERROR"))
    <2>1. /\ payments' = [payments EXCEPT ![o] = "REFUNDED"] /\ refunds' = refunds
          /\ payCall[r].op = "refund"
      BY <1>7 DEF Pay!MarkRefunded, Pay!At
    <2>2. SlotMoved(r, "replied")
      BY <1>0, <1>7, PayReply DEF Pay!Answers
    <2>3. payments' \in [Checkouts -> Pay!Statuses]
      BY <1>1, <2>1 DEF Pay!Statuses
    <2> QED BY <1>1, <2>1, <2>2, <2>3 DEF SlotMoved, Pay!TypeOK, PayCallType, RefundEffect
  <1> QED
    BY <1>2, <1>3, <1>4, <1>5, <1>6, <1>7
       DEF Pay!ServiceStep, Pay!Decide, Pay!Fail, Pay!RefundRecord, Pay!RefundMark,
           Pay!RefundAckLost

-----------------------------------------------------------------------------
(* Every step of the order service keeps the invariant *)

USE DEF orderTables, orderRow, locals, inventory, payment, Goto, Requests

\* The tables and calls of a service keep their types while nobody touches them.
LEMMA ServicesTyped ==
  ASSUME TypeOK
  PROVE  /\ UNCHANGED inventory => Inv!TypeOK'
         /\ UNCHANGED payment => Pay!TypeOK'
  BY DEF TypeOK, Inv!TypeOK, Pay!TypeOK

\* What a step of the order service in request r leaves as it is, and what never goes
\* back.
Aside(r) ==
  /\ pc[r] # "done"
  /\ \A d \in Requests \ {r} :
       pc'[d] = pc[d] /\ invCall'[d] = invCall[d] /\ payCall'[d] = payCall[d]
  /\ \A c \in Cancels \ {r} : target'[c] = target[c] /\ snap'[c] = snap[c]
  /\ \A o \in Checkouts \ {r} :
       /\ want'[o] = want[o] /\ orderItems'[o] = orderItems[o]
       /\ resvId'[o] = resvId[o] /\ confirmedAt'[o] = confirmedAt[o]
       /\ status'[o] = status[o] \/ (status[o] # "NONE" /\ status'[o] = "CANCELLED")
  /\ r \in Checkouts => /\ status[r] # "NONE" => status'[r] # "NONE"
                        /\ confirmedAt[r] => confirmedAt'[r]
  /\ UNCHANGED <<reservation, lines, payments, refunds>>

\* What a step of request r has to keep: all that is said of r, and of its order.
OwnKept(r) ==
  /\ r \in Checkouts => CheckoutPoint(r)' /\ Rows(r)'
  /\ r \in Cancels => CancelPoint(r)'
  /\ InvSlot(r)' /\ PaySlot(r)'

\* The events of a step are sound.
NewsSound == \A e \in events' : e \in events \/ EventSound(e)'

\* A step of request r keeps the invariant, if it keeps what is said of r and of its order.
LEMMA StepKeeps ==
  ASSUME IInv, TypeOK', NEW r \in Requests, Aside(r),
         OwnKept(r), NewsSound
  PROVE  IInv'
  <1> USE DEF Aside, OwnKept
  <1>1. Control'
    <2>1. ASSUME NEW o \in Checkouts, o # r
          PROVE  CheckoutPoint(o)'
      BY <2>1 DEF IInv, Control, CheckoutPoint, Inv!Replied
    <2>2. ASSUME NEW c \in Cancels, c # r
          PROVE  CancelPoint(c)'
      BY <2>2 DEF IInv, Control, CancelPoint
    <2> QED BY <2>1, <2>2 DEF Control
  <1>2. Slots'
    <2>1. ASSUME NEW d \in Requests, d # r
          PROVE  InvSlot(d)'
      BY <2>1 DEF IInv, Slots, InvSlot
    <2>2. ASSUME NEW d \in Requests, d # r
          PROVE  PaySlot(d)'
      BY <2>2 DEF IInv, Slots, PaySlot, Pay!Answered
    <2> QED BY <2>1, <2>2 DEF Slots
  <1>3. Tables'
    <2>1. ASSUME NEW o \in Checkouts, o # r
          PROVE  Rows(o)'
      BY <2>1 DEF IInv, Tables, Rows, Inv!Replied
    <2> QED BY <2>1 DEF Tables
  <1>4. Story'
    <2>1. ASSUME NEW e \in events
          PROVE  EventSound(e)'
      <3>1. e.order \in Checkouts
        BY DEF IInv, TypeOK, Events
      <3> QED BY <3>1 DEF IInv, Story, EventSound
    <2> QED BY <2>1 DEF Story, NewsSound
  <1> QED BY <1>1, <1>2, <1>3, <1>4 DEF IInv

\* A publish adds an event of the schema.
LEMMA PublishTyped ==
  ASSUME TypeOK, NEW o \in Checkouts,
         NEW t \in {"order.created", "order.confirmed", "order.cancelled"},
         NEW why \in {"", "INVENTORY_REJECTED", "PAYMENT_FAILED", "USER_CANCELLED"},
         Publish(t, o, why)
  PROVE  events' \subseteq Events
  <1>1. [type |-> t, order |-> o, reason |-> why] \in Events
    BY DEF Events
  <1> QED BY <1>1 DEF TypeOK, Publish

\* A call leaves the order service: only its slot changes.
InvSent(r, op, o, items) ==
  /\ Inv!TypeOK'
  /\ \A d \in Requests \ {r} : invCall'[d] = invCall[d]
  /\ invCall'[r] = [op |-> op, st |-> "sent", order |-> o, items |-> items]
  /\ UNCHANGED <<available, reserved, reservation, lines>>

\* A request to the inventory service is in its slot, and nothing else has changed.
LEMMA InvSend ==
  ASSUME TypeOK, NEW r \in Requests, NEW o \in Checkouts, NEW items \in Baskets
  PROVE  /\ Inv!SendReserve(r, o, items) => InvSent(r, "reserve", o, items)
         /\ Inv!SendRelease(r, o) => InvSent(r, "release", o, Inv!EmptyBasket)
  <1>1. items \in Inv!Basket /\ Inv!EmptyBasket \in Inv!Basket
    BY QuantityAssumption DEF Baskets, Inv!Basket, Inv!EmptyBasket
  <1>2. ASSUME NEW op \in {"reserve", "release"}, NEW its \in Inv!Basket,
               invCall' = [invCall EXCEPT ![r] = [op |-> op, st |-> "sent", order |-> o,
                                                  items |-> its]],
               UNCHANGED <<available, reserved, reservation, lines>>
        PROVE  InvSent(r, op, o, its)
    BY <1>2 DEF InvSent, TypeOK, Inv!TypeOK
  <1> QED BY <1>1, <1>2 DEF Inv!SendReserve, Inv!SendRelease, Inv!ledgerVars

\* The same of the payment service.
PaySent(r, op, o) ==
  /\ Pay!TypeOK'
  /\ \A d \in Requests \ {r} : payCall'[d] = payCall[d]
  /\ payCall'[r].op = op /\ payCall'[r].st = "sent" /\ payCall'[r].order = o
  /\ UNCHANGED <<payments, refunds>>

\* A request to the payment service is in its slot, and nothing else has changed.
LEMMA PaySend ==
  ASSUME TypeOK, NEW r \in Requests, NEW o \in Checkouts, NEW m \in Pay!Methods
  PROVE  /\ Pay!SendAuthorize(r, o, m) => PaySent(r, "authorize", o)
         /\ Pay!SendRefund(r, o) => PaySent(r, "refund", o)
  <1>1. ASSUME NEW op \in {"authorize", "refund"}, NEW how \in Pay!Methods,
               payCall' = [payCall EXCEPT ![r] = [op |-> op, st |-> "sent", order |-> o,
                                                  method |-> how, answer |-> "NONE"]],
               UNCHANGED <<payments, refunds>>
        PROVE  PaySent(r, op, o)
    <2> DEFINE call == [op |-> op, st |-> "sent", order |-> o, method |-> how, answer |-> "NONE"]
    <2>1. call \in PayCallType
      BY <1>1 DEF PayCallType, Pay!Answers
    <2>2. call.op = op /\ call.st = "sent" /\ call.order = o
      OBVIOUS
    <2> HIDE DEF call
    <2>3. payCall' = [payCall EXCEPT ![r] = call]
      BY <1>1 DEF call
    <2> QED BY <1>1, <2>1, <2>2, <2>3 DEF PaySent, TypeOK, Pay!TypeOK, PayCallType
  <1>2. "good" \in Pay!Methods
    BY DEF Pay!Methods
  <1> QED BY <1>1, <1>2 DEF Pay!SendAuthorize, Pay!SendRefund, Pay!tableVars

-----------------------------------------------------------------------------
(* One lemma for each action *)

\* The checkout reads the cart.
LEMMA CheckoutLoadCartKeeps ==
  ASSUME IInv, NEW o \in Checkouts, CheckoutLoadCart(o)
  PROVE  IInv' /\ Aside(o)
  <1>1. TypeOK'
    BY CallerAssumption, ServicesTyped DEF IInv, TypeOK, PCs, Ended, CheckoutLoadCart
  <1>2. Aside(o)
    BY DEF Aside, IInv, TypeOK, CheckoutLoadCart
  <1>3. OwnKept(o)
    BY RequestAssumption DEF OwnKept, IInv, TypeOK, Control, Slots, InvSlot, PaySlot,
       Pay!Answered, Tables, Rows, CheckoutPoint, Unreserved, Uncharged, Inv!Replied,
       CheckoutLoadCart
  <1>4. NewsSound
    BY DEF NewsSound, CheckoutLoadCart
  <1> QED BY <1>1, <1>2, <1>3, <1>4, StepKeeps

\* The checkout inserts its PENDING order.
LEMMA InsertOrderKeeps ==
  ASSUME IInv, NEW o \in Checkouts, InsertOrder(o)
  PROVE  IInv' /\ Aside(o)
  <1>1. TypeOK'
    BY ServicesTyped DEF IInv, TypeOK, PCs, Ended, OrderStatuses, InsertOrder
  <1>2. Aside(o)
    BY DEF Aside, IInv, TypeOK, InsertOrder
  <1>3. OwnKept(o)
    BY RequestAssumption DEF OwnKept, IInv, TypeOK, Control, Slots, InvSlot, PaySlot,
       Pay!Answered, Tables, Rows, CheckoutPoint, Unreserved, Uncharged, Inv!Replied, InsertOrder
  <1>4. NewsSound
    BY DEF NewsSound, InsertOrder
  <1> QED BY <1>1, <1>2, <1>3, <1>4, StepKeeps

\* The checkout inserts one line of the order.
LEMMA InsertItemKeeps ==
  ASSUME IInv, NEW o \in Checkouts, NEW p \in Products, InsertItem(o, p)
  PROVE  IInv' /\ Aside(o)
  <1>1. TypeOK'
    BY ServicesTyped DEF IInv, TypeOK, PCs, Ended, Baskets, InsertItem
  <1>2. Aside(o)
    BY DEF Aside, IInv, TypeOK, InsertItem
  <1>3. OwnKept(o)
    BY RequestAssumption DEF OwnKept, IInv, TypeOK, Control, Slots, InvSlot, PaySlot,
       Pay!Answered, Tables, Rows, CheckoutPoint, Unreserved, Uncharged, Inv!Replied, InsertItem
  <1>4. NewsSound
    BY DEF NewsSound, InsertItem
  <1> QED BY <1>1, <1>2, <1>3, <1>4, StepKeeps

\* order.created tells of a row that exists.
LEMMA PublishCreatedKeeps ==
  ASSUME IInv, NEW o \in Checkouts, PublishCreated(o)
  PROVE  IInv' /\ Aside(o)
  <1>1. events' \subseteq Events
    BY PublishTyped DEF IInv, PublishCreated
  <1>2. TypeOK'
    BY <1>1, ServicesTyped DEF IInv, TypeOK, PCs, Ended, PublishCreated
  <1>3. Aside(o)
    BY DEF Aside, IInv, TypeOK, PublishCreated
  <1>4. OwnKept(o)
    BY RequestAssumption DEF OwnKept, IInv, TypeOK, Control, Slots, InvSlot, PaySlot,
       Pay!Answered, Tables, Rows, CheckoutPoint, Unreserved, Uncharged, Inv!Replied,
       PublishCreated
  <1>5. NewsSound
    <2> DEFINE e == [type |-> "order.created", order |-> o, reason |-> ""]
    <2>1. events' = events \cup {e}
      BY DEF PublishCreated, Publish
    <2>2. EventSound(e)'
      BY DEF EventSound, IInv, TypeOK, Control, CheckoutPoint, Unreserved, Uncharged, Slots,
         PaySlot, PublishCreated
    <2> HIDE DEF e
    <2> QED BY <2>1, <2>2 DEF NewsSound
  <1> QED BY <1>2, <1>3, <1>4, <1>5, StepKeeps

\* The checkout asks for the items it has inserted.
LEMMA CallReserveKeeps ==
  ASSUME IInv, NEW o \in Checkouts, CallReserve(o)
  PROVE  IInv' /\ Aside(o)
  <1>1. InvSent(o, "reserve", o, want[o])
    BY InvSend DEF IInv, TypeOK, CallReserve
  <1>2. TypeOK'
    BY <1>1, ServicesTyped DEF IInv, TypeOK, PCs, InvSent, CallReserve
  <1>3. Aside(o)
    BY <1>1, RequestAssumption DEF Aside, IInv, TypeOK, InvSent, CallReserve
  <1>4. OwnKept(o)
    BY <1>1, RequestAssumption
       DEF OwnKept, IInv, TypeOK, Control, Slots, InvSlot, PaySlot, Pay!Answered, Tables, Rows,
           CheckoutPoint, Unreserved, Uncharged, Inv!Replied, InvSent, CallReserve
  <1>5. NewsSound
    BY DEF NewsSound, CallReserve
  <1> QED BY <1>2, <1>3, <1>4, <1>5, StepKeeps

\* A refused reservation cancels the order.
LEMMA ReserveRejectedKeeps ==
  ASSUME IInv, NEW o \in Checkouts, ReserveRejected(o)
  PROVE  IInv' /\ Aside(o)
  <1>1. TypeOK'
    BY ServicesTyped DEF IInv, TypeOK, PCs, Ended, OrderStatuses, ReserveRejected
  <1>2. Aside(o)
    BY DEF Aside, IInv, TypeOK, ReserveRejected
  <1>3. OwnKept(o)
    BY RequestAssumption DEF OwnKept, IInv, TypeOK, Control, Slots, InvSlot, PaySlot,
       Pay!Answered, Tables, Rows, CheckoutPoint, Unreserved, Uncharged, Inv!Replied,
       ReserveRejected
  <1>4. NewsSound
    BY DEF NewsSound, ReserveRejected
  <1> QED BY <1>1, <1>2, <1>3, <1>4, StepKeeps

\* The event of the rejection comes before any payment.
LEMMA PublishRejectedKeeps ==
  ASSUME IInv, NEW o \in Checkouts, PublishRejected(o)
  PROVE  IInv' /\ Aside(o)
  <1>1. events' \subseteq Events
    BY PublishTyped DEF IInv, PublishRejected
  <1>2. TypeOK'
    BY <1>1, ServicesTyped DEF IInv, TypeOK, PCs, Ended, PublishRejected
  <1>3. Aside(o)
    BY DEF Aside, IInv, TypeOK, PublishRejected
  <1>4. OwnKept(o)
    BY RequestAssumption DEF OwnKept, IInv, TypeOK, Control, Slots, InvSlot, PaySlot,
       Pay!Answered, Tables, Rows, CheckoutPoint, Unreserved, Uncharged, Inv!Replied,
       PublishRejected
  <1>5. NewsSound
    <2> DEFINE e == [type |-> "order.cancelled", order |-> o, reason |-> "INVENTORY_REJECTED"]
    <2>1. events' = events \cup {e}
      BY DEF PublishRejected, Publish
    <2>2. EventSound(e)'
      BY DEF EventSound, IInv, TypeOK, Control, CheckoutPoint, Unreserved, Uncharged, Slots,
         PaySlot, PublishRejected
    <2> HIDE DEF e
    <2> QED BY <2>1, <2>2 DEF NewsSound
  <1> QED BY <1>2, <1>3, <1>4, <1>5, StepKeeps

\* The id of a reservation that exists is stored.
LEMMA SaveReservationKeeps ==
  ASSUME IInv, NEW o \in Checkouts, SaveReservation(o)
  PROVE  IInv' /\ Aside(o)
  <1>1. TypeOK'
    BY ServicesTyped DEF IInv, TypeOK, PCs, Ended, OrderStatuses, SaveReservation
  <1>2. Aside(o)
    BY DEF Aside, IInv, TypeOK, SaveReservation
  <1>3. OwnKept(o)
    BY RequestAssumption DEF OwnKept, IInv, TypeOK, Control, Slots, InvSlot, PaySlot,
       Pay!Answered, Tables, Rows, CheckoutPoint, Unreserved, Uncharged, Inv!Replied,
       SaveReservation
  <1>4. NewsSound
    BY DEF NewsSound, SaveReservation
  <1> QED BY <1>1, <1>2, <1>3, <1>4, StepKeeps

\* The checkout asks for money, its reservation stored.
LEMMA CallAuthorizeKeeps ==
  ASSUME IInv, NEW o \in Checkouts, NEW m \in Pay!Methods, CallAuthorize(o, m)
  PROVE  IInv' /\ Aside(o)
  <1>1. PaySent(o, "authorize", o)
    BY PaySend DEF IInv, TypeOK, CallAuthorize
  <1>2. TypeOK'
    BY <1>1, ServicesTyped DEF IInv, TypeOK, PCs, PaySent, CallAuthorize
  <1>3. Aside(o)
    BY <1>1, RequestAssumption DEF Aside, IInv, TypeOK, PaySent, CallAuthorize
  <1>4. OwnKept(o)
    <2>1. CheckoutPoint(o)'
      BY <1>1 DEF IInv, TypeOK, Control, CheckoutPoint, Unreserved, Uncharged, Inv!Replied,
                  PaySent, CallAuthorize
    <2>2. PaySlot(o)' /\ InvSlot(o)'
      BY <1>1 DEF IInv, TypeOK, Control, CheckoutPoint, Slots, InvSlot, PaySlot, Pay!Answered,
                  PaySent, CallAuthorize
    <2>3. Rows(o)'
      BY <1>1 DEF IInv, TypeOK, Control, CheckoutPoint, Tables, Rows, Inv!Replied, PaySent,
                  CallAuthorize, Uncharged
    <2> QED BY <2>1, <2>2, <2>3, RequestAssumption DEF OwnKept
  <1>5. NewsSound
    BY DEF NewsSound, CallAuthorize
  <1> QED BY <1>2, <1>3, <1>4, <1>5, StepKeeps

\* The compensation takes over the call slot of the reservation.
LEMMA CallCompensateKeeps ==
  ASSUME IInv, NEW o \in Checkouts, CallCompensate(o)
  PROVE  IInv' /\ Aside(o)
  <1>1. InvSent(o, "release", o, Inv!EmptyBasket)
    BY InvSend DEF IInv, TypeOK, CallCompensate
  <1>2. TypeOK'
    BY <1>1, ServicesTyped DEF IInv, TypeOK, PCs, InvSent, CallCompensate
  <1>3. Aside(o)
    BY <1>1, RequestAssumption DEF Aside, IInv, TypeOK, InvSent, CallCompensate
  <1>4. OwnKept(o)
    BY <1>1, RequestAssumption
       DEF OwnKept, IInv, TypeOK, Control, Slots, InvSlot, PaySlot, Pay!Answered, Tables, Rows,
           CheckoutPoint, Unreserved, Uncharged, Inv!Replied, InvSent, CallCompensate
  <1>5. NewsSound
    BY DEF NewsSound, CallCompensate
  <1> QED BY <1>2, <1>3, <1>4, <1>5, StepKeeps

\* PAYMENT_FAILED follows an answered release.
LEMMA MarkPaymentFailedKeeps ==
  ASSUME IInv, NEW o \in Checkouts, MarkPaymentFailed(o)
  PROVE  IInv' /\ Aside(o)
  <1>1. TypeOK'
    BY ServicesTyped DEF IInv, TypeOK, PCs, Ended, OrderStatuses, MarkPaymentFailed
  <1>2. Aside(o)
    BY DEF Aside, IInv, TypeOK, MarkPaymentFailed
  <1>3. OwnKept(o)
    BY RequestAssumption DEF OwnKept, IInv, TypeOK, Control, Slots, InvSlot, PaySlot,
       Pay!Answered, Tables, Rows, CheckoutPoint, Unreserved, Uncharged, Inv!Replied,
       MarkPaymentFailed
  <1>4. NewsSound
    BY DEF NewsSound, MarkPaymentFailed
  <1> QED BY <1>1, <1>2, <1>3, <1>4, StepKeeps

\* The event of a failed payment comes from a saga that never confirms.
LEMMA PublishPaymentFailedKeeps ==
  ASSUME IInv, NEW o \in Checkouts, PublishPaymentFailed(o)
  PROVE  IInv' /\ Aside(o)
  <1>1. events' \subseteq Events
    BY PublishTyped DEF IInv, PublishPaymentFailed
  <1>2. TypeOK'
    BY <1>1, ServicesTyped DEF IInv, TypeOK, PCs, Ended, PublishPaymentFailed
  <1>3. Aside(o)
    BY DEF Aside, IInv, TypeOK, PublishPaymentFailed
  <1>4. OwnKept(o)
    BY RequestAssumption DEF OwnKept, IInv, TypeOK, Control, Slots, InvSlot, PaySlot,
       Pay!Answered, Tables, Rows, CheckoutPoint, Unreserved, Uncharged, Inv!Replied,
       PublishPaymentFailed
  <1>5. NewsSound
    <2> DEFINE e == [type |-> "order.cancelled", order |-> o, reason |-> "PAYMENT_FAILED"]
    <2>1. events' = events \cup {e}
      BY DEF PublishPaymentFailed, Publish
    <2>2. EventSound(e)'
      BY DEF EventSound, IInv, TypeOK, Control, CheckoutPoint, Unreserved, Uncharged, Slots,
         PaySlot, PublishPaymentFailed
    <2> HIDE DEF e
    <2> QED BY <2>1, <2>2 DEF NewsSound
  <1> QED BY <1>2, <1>3, <1>4, <1>5, StepKeeps

\* The order is confirmed on an AUTHORIZED answer.
LEMMA ConfirmKeeps ==
  ASSUME IInv, NEW o \in Checkouts, Confirm(o)
  PROVE  IInv' /\ Aside(o)
  <1>1. TypeOK'
    BY ServicesTyped DEF IInv, TypeOK, PCs, Ended, OrderStatuses, Confirm
  <1>2. Aside(o)
    BY DEF Aside, IInv, TypeOK, Confirm
  <1>3. OwnKept(o)
    BY RequestAssumption DEF OwnKept, IInv, TypeOK, Control, Slots, InvSlot, PaySlot,
       Pay!Answered, Tables, Rows, CheckoutPoint, Unreserved, Uncharged, Inv!Replied, Confirm
  <1>4. NewsSound
    BY DEF NewsSound, Confirm
  <1> QED BY <1>1, <1>2, <1>3, <1>4, StepKeeps

\* The checkout empties the cart.
LEMMA ClearCartKeeps ==
  ASSUME IInv, NEW o \in Checkouts, ClearCart(o)
  PROVE  IInv' /\ Aside(o)
  <1>1. TypeOK'
    <2>1. NoItems \in Baskets
      BY QuantityAssumption DEF NoItems, Baskets
    <2>2. cart' \in [Users -> Baskets]
      BY <2>1 DEF IInv, TypeOK, ClearCart
    <2> QED BY <2>2, ServicesTyped DEF IInv, TypeOK, PCs, ClearCart
  <1>2. Aside(o)
    BY DEF Aside, IInv, TypeOK, ClearCart
  <1>3. OwnKept(o)
    BY RequestAssumption DEF OwnKept, IInv, TypeOK, Control, Slots, InvSlot, PaySlot,
       Pay!Answered, Tables, Rows, CheckoutPoint, Unreserved, Uncharged, Inv!Replied, ClearCart
  <1>4. NewsSound
    BY DEF NewsSound, ClearCart
  <1> QED BY <1>1, <1>2, <1>3, <1>4, StepKeeps

\* order.confirmed tells of a confirmed order.
LEMMA PublishConfirmedKeeps ==
  ASSUME IInv, NEW o \in Checkouts, PublishConfirmed(o)
  PROVE  IInv' /\ Aside(o)
  <1>1. events' \subseteq Events
    BY PublishTyped DEF IInv, PublishConfirmed
  <1>2. TypeOK'
    BY <1>1, ServicesTyped DEF IInv, TypeOK, PCs, Ended, PublishConfirmed
  <1>3. Aside(o)
    BY DEF Aside, IInv, TypeOK, PublishConfirmed
  <1>4. OwnKept(o)
    BY RequestAssumption DEF OwnKept, IInv, TypeOK, Control, Slots, InvSlot, PaySlot,
       Pay!Answered, Tables, Rows, CheckoutPoint, Unreserved, Uncharged, Inv!Replied,
       PublishConfirmed
  <1>5. NewsSound
    <2> DEFINE e == [type |-> "order.confirmed", order |-> o, reason |-> ""]
    <2>1. events' = events \cup {e}
      BY DEF PublishConfirmed, Publish
    <2>2. EventSound(e)'
      BY DEF EventSound, IInv, TypeOK, Control, CheckoutPoint, Unreserved, Uncharged, Slots,
         PaySlot, PublishConfirmed
    <2> HIDE DEF e
    <2> QED BY <2>1, <2>2 DEF NewsSound
  <1> QED BY <1>2, <1>3, <1>4, <1>5, StepKeeps

\* A cancel copies the row of its order.
LEMMA CancelLoadKeeps ==
  ASSUME IInv, NEW c \in Cancels, NEW o \in Checkouts, CancelLoad(c, o)
  PROVE  IInv' /\ Aside(c)
  <1>1. TypeOK'
    BY ServicesTyped DEF IInv, TypeOK, PCs, Ended, OrderStatuses, CancelLoad
  <1>2. Aside(c)
    BY RequestAssumption DEF Aside, IInv, TypeOK, Control, CancelPoint, CancelLoad
  <1>3. OwnKept(c)
    BY RequestAssumption DEF OwnKept, IInv, TypeOK, Control, Slots, InvSlot, PaySlot,
       Pay!Answered, CancelPoint, Inv!Replied, CancelLoad, Tables, Rows
  <1>4. NewsSound
    BY DEF NewsSound, CancelLoad
  <1> QED BY <1>1, <1>2, <1>3, <1>4, StepKeeps

\* A cancel asks for the release of its order.
LEMMA CancelCallReleaseKeeps ==
  ASSUME IInv, NEW c \in Cancels, CancelCallRelease(c)
  PROVE  IInv' /\ Aside(c)
  <1>1. target[c] \in Checkouts /\ InvSent(c, "release", target[c], Inv!EmptyBasket)
    BY InvSend DEF IInv, TypeOK, Control, CancelPoint, CancelCallRelease
  <1>2. TypeOK'
    BY <1>1, ServicesTyped DEF IInv, TypeOK, PCs, InvSent, CancelCallRelease
  <1>3. Aside(c)
    BY <1>1, RequestAssumption DEF Aside, IInv, TypeOK, InvSent, CancelCallRelease
  <1>4. OwnKept(c)
    BY <1>1, RequestAssumption
       DEF OwnKept, IInv, TypeOK, Control, Slots, InvSlot, PaySlot, Pay!Answered, CancelPoint,
           Inv!Replied, InvSent, CancelCallRelease
  <1>5. NewsSound
    BY DEF NewsSound, CancelCallRelease
  <1> QED BY <1>2, <1>3, <1>4, <1>5, StepKeeps

\* A cancel asks for a refund of an order it read CONFIRMED.
LEMMA CancelCallRefundKeeps ==
  ASSUME IInv, NEW c \in Cancels, CancelCallRefund(c)
  PROVE  IInv' /\ Aside(c)
  <1>1. target[c] \in Checkouts /\ PaySent(c, "refund", target[c])
    <2>1. target[c] \in Checkouts
      BY DEF IInv, Control, CancelPoint, CancelCallRefund, ReleasePassed
    <2>2. "good" \in Pay!Methods
      BY DEF Pay!Methods
    <2> QED BY <2>1, <2>2, PaySend DEF IInv, CancelCallRefund
  <1>2. TypeOK'
    BY <1>1, ServicesTyped DEF IInv, TypeOK, PCs, PaySent, CancelCallRefund
  <1>3. Aside(c)
    BY <1>1, RequestAssumption DEF Aside, IInv, TypeOK, PaySent, CancelCallRefund, ReleasePassed
  <1>4. OwnKept(c)
    BY <1>1, RequestAssumption
       DEF OwnKept, IInv, TypeOK, Control, Slots, InvSlot, PaySlot, Pay!Answered, CancelPoint,
           Inv!Replied, PaySent, CancelCallRefund, ReleasePassed, RefundDue
  <1>5. NewsSound
    BY DEF NewsSound, CancelCallRefund
  <1> QED BY <1>2, <1>3, <1>4, <1>5, StepKeeps

\* A cancel marks the order CANCELLED.
LEMMA CancelMarkKeeps ==
  ASSUME IInv, NEW c \in Cancels, CancelMark(c)
  PROVE  IInv' /\ Aside(c)
  <1>1. TypeOK'
    BY ServicesTyped DEF IInv, TypeOK, PCs, Ended, OrderStatuses, CancelMark, ReleasePassed,
       RefundDue
  <1>2. Aside(c)
    BY RequestAssumption DEF Aside, IInv, TypeOK, Control, CancelPoint, CancelMark,
       ReleasePassed, RefundDue
  <1>3. OwnKept(c)
    BY RequestAssumption DEF OwnKept, IInv, TypeOK, Control, Slots, InvSlot, PaySlot,
       Pay!Answered, CancelPoint, Inv!Replied, CancelMark, ReleasePassed, RefundDue
  <1>4. NewsSound
    BY DEF NewsSound, CancelMark, ReleasePassed, RefundDue
  <1> QED BY <1>1, <1>2, <1>3, <1>4, StepKeeps

\* The event of a cancellation tells of a row that exists.
LEMMA PublishUserCancelledKeeps ==
  ASSUME IInv, NEW c \in Cancels, PublishUserCancelled(c)
  PROVE  IInv' /\ Aside(c)
  <1>1. events' \subseteq Events
    BY PublishTyped DEF IInv, Control, CancelPoint, PublishUserCancelled
  <1>2. TypeOK'
    BY <1>1, ServicesTyped DEF IInv, TypeOK, PCs, Ended, PublishUserCancelled
  <1>3. Aside(c)
    BY RequestAssumption DEF Aside, IInv, TypeOK, Control, CancelPoint, PublishUserCancelled
  <1>4. OwnKept(c)
    BY RequestAssumption DEF OwnKept, IInv, TypeOK, Control, Slots, InvSlot, PaySlot,
       Pay!Answered, CancelPoint, Inv!Replied, PublishUserCancelled
  <1>5. NewsSound
    <2> PICK o \in Checkouts : target[c] = o
      BY DEF IInv, Control, CancelPoint, PublishUserCancelled
    <2> DEFINE e == [type |-> "order.cancelled", order |-> o, reason |-> "USER_CANCELLED"]
    <2>1. events' = events \cup {e}
      BY DEF PublishUserCancelled, Publish
    <2>2. EventSound(e)'
      BY DEF EventSound, IInv, TypeOK, Control, CancelPoint, Slots, PaySlot, PublishUserCancelled
    <2> HIDE DEF e
    <2> QED BY <2>1, <2>2 DEF NewsSound
  <1> QED BY <1>2, <1>3, <1>4, <1>5, StepKeeps

\* A handler that dies leaves everything but its own pc.
LEMMA ThrowKeeps ==
  ASSUME IInv, NEW r \in Requests, Throw(r)
  PROVE  IInv' /\ Aside(r)
  <1>1. TypeOK'
    BY ServicesTyped DEF IInv, TypeOK, PCs, Ended, Throw
  <1>2. Aside(r)
    BY DEF Aside, IInv, TypeOK, Ended, Throw
  <1>3. OwnKept(r)
    BY RequestAssumption
       DEF OwnKept, IInv, TypeOK, Control, Slots, InvSlot, PaySlot, Pay!Answered, Tables, Rows,
           CheckoutPoint, CancelPoint, Unreserved, Uncharged, Inv!Replied, Ended, Throw
  <1>4. NewsSound
    BY DEF NewsSound, Throw
  <1> QED BY <1>1, <1>2, <1>3, <1>4, StepKeeps

\* A cart line says nothing about an order.
LEMMA CartKeeps ==
  ASSUME IInv, NEW u \in Users, NEW p \in Products, NEW q \in 0..MaxQty, SetLine(u, p, q)
  PROVE  IInv'
  <1>1. TypeOK'
    <2>1. cart' \in [Users -> Baskets]
      BY DEF IInv, TypeOK, Baskets, SetLine
    <2> QED BY <2>1, ServicesTyped DEF IInv, TypeOK, SetLine
  <1>2. Control'
    BY DEF IInv, Control, CheckoutPoint, CancelPoint, Inv!Replied, SetLine
  <1>3. Slots'
    BY DEF IInv, Slots, InvSlot, PaySlot, Pay!Answered, SetLine
  <1>4. Tables'
    BY DEF IInv, Tables, Rows, Inv!Replied, SetLine
  <1>5. Story'
    BY DEF IInv, Story, EventSound, SetLine
  <1> QED BY <1>1, <1>2, <1>3, <1>4, <1>5 DEF IInv

\* A decision or a fault of the inventory service.
LEMMA InventoryStepKeeps ==
  ASSUME IInv, NEW r \in Requests, InventoryStep(r)
  PROVE  IInv'
  <1>1. /\ Inv!TypeOK' /\ invCall[r].op # "none" /\ invCall[r].st \in {"sent", "releasing"}
        /\ \A d \in Requests \ {r} : invCall'[d] = invCall[d]
        /\ invCall'[r].op = invCall[r].op
        /\ invCall'[r].order = invCall[r].order
        /\ invCall'[r].items = invCall[r].items
        /\ \/ invCall'[r].st = "refused" /\ UNCHANGED <<reservation, lines>>
           \/ invCall'[r].st = "releasing" /\ invCall[r].op = "release"
              /\ reservation[invCall[r].order] = "ACTIVE" /\ UNCHANGED <<reservation, lines>>
           \/ invCall'[r].st \in {"ok", "refused"} /\ ReserveEffect(r)
           \/ invCall'[r].st \in {"ok", "refused"} /\ ReleaseEffect(r)
    BY InventoryEffect DEF IInv, TypeOK, Slots, InventoryStep, Inv!InFlight
  <1>2. UNCHANGED <<orderTables, events, pc, locals, payment>>
    BY DEF InventoryStep
  <1> DEFINE x == invCall[r].order
  <1>3. x \in Checkouts /\ InvSlot(r)
    BY <1>1 DEF IInv, Slots, InvSlot
  <1>4. \A o \in Checkouts :
          /\ reservation[o] # "NONE" => reservation'[o] # "NONE" /\ lines'[o] = lines[o]
          /\ reservation[o] = "RELEASED" => reservation'[o] = "RELEASED"
          /\ reservation[o] = "NONE" /\ reservation'[o] # "NONE" =>
               o = r /\ lines'[o] = orderItems[o] /\ invCall[o].op # "none"
    BY <1>1, <1>3 DEF IInv, TypeOK, Inv!TypeOK, InvSlot, ReserveEffect, ReleaseEffect,
                      Inv!Reserving, Inv!Releasing
  <1>5. TypeOK'
    BY <1>1, <1>2, ServicesTyped DEF IInv, TypeOK
  <1>6. Control'
    BY <1>1, <1>2, RequestAssumption DEF IInv, Control, CheckoutPoint, CancelPoint, Inv!Replied
  <1>7. Slots'
    <2>1. ASSUME NEW d \in Requests, d # r
          PROVE  InvSlot(d)'
      BY <1>1, <1>2, <1>4, <2>1 DEF IInv, Slots, InvSlot
    <2>2. InvSlot(r)'
      BY <1>1, <1>2, <1>3, <1>4
         DEF InvSlot, ReserveEffect, ReleaseEffect, IInv, TypeOK, Inv!TypeOK, Inv!Reserving,
             Inv!Releasing
    <2>3. ASSUME NEW d \in Requests
          PROVE  PaySlot(d)'
      BY <1>2 DEF IInv, Slots, PaySlot, Pay!Answered
    <2> QED BY <2>1, <2>2, <2>3 DEF Slots
  <1>8. Tables'
    BY <1>1, <1>2, <1>4 DEF IInv, Tables, Rows, Inv!Replied
  <1>9. Story'
    BY <1>2 DEF IInv, Story, EventSound
  <1> QED BY <1>5, <1>6, <1>7, <1>8, <1>9 DEF IInv

\* A decision or a fault of the payment service.
LEMMA PaymentStepKeeps ==
  ASSUME IInv, NEW r \in Requests, PaymentStep(r)
  PROVE  IInv'
  <1>1. /\ Pay!TypeOK' /\ payCall[r].op # "none" /\ payCall'[r].st # "idle"
        /\ \A d \in Requests \ {r} : payCall'[d] = payCall[d]
        /\ payCall'[r].op = payCall[r].op
        /\ payCall'[r].order = payCall[r].order
        /\ AuthorizeEffect(r) \/ RefundEffect(r)
    BY PaymentEffect DEF IInv, TypeOK, Slots, PaymentStep, AuthorizeEffect, RefundEffect
  <1>2. UNCHANGED <<orderTables, events, pc, locals, inventory>>
    BY DEF PaymentStep
  <1> DEFINE x == payCall[r].order
  <1>3. x \in Checkouts /\ PaySlot(r)
    BY <1>1 DEF IInv, Slots, PaySlot
  <1>4. \A o \in Checkouts :
          /\ payments[o] \in {"AUTHORIZED", "REFUNDED"} =>
               payments'[o] \in {"AUTHORIZED", "REFUNDED"}
          /\ payments'[o] # "NONE" => payCall[o].op = "authorize"
          /\ payments'[o] = "REFUNDED" \/ refunds'[o] > 0 => confirmedAt[o]
    BY <1>1, <1>3
       DEF IInv, TypeOK, Pay!TypeOK, Tables, Rows, PaySlot, AuthorizeEffect, RefundEffect
  <1>5. TypeOK'
    BY <1>1, <1>2, ServicesTyped DEF IInv, TypeOK
  <1>6. Control'
    BY <1>1, <1>2, RequestAssumption DEF IInv, Control, CheckoutPoint, CancelPoint, Inv!Replied
  <1>7. Slots'
    <2>1. ASSUME NEW d \in Requests, d # r
          PROVE  PaySlot(d)'
      <3>1. payCall'[d] = payCall[d] /\ PaySlot(d)
        BY <1>1, <2>1 DEF IInv, Slots
      <3> QED BY <1>2, <1>4, <3>1 DEF PaySlot, Pay!Answered
    <2>2. PaySlot(r)'
      BY <1>1, <1>2, <1>3 DEF PaySlot, Pay!Answered, AuthorizeEffect, RefundEffect
    <2>3. ASSUME NEW d \in Requests
          PROVE  InvSlot(d)'
      BY <1>2 DEF IInv, Slots, InvSlot
    <2> QED BY <2>1, <2>2, <2>3 DEF Slots
  <1>8. Tables'
    BY <1>1, <1>2, <1>4 DEF IInv, Tables, Rows, Inv!Replied
  <1>9. Story'
    BY <1>1, <1>2 DEF IInv, TypeOK, Events, Story, EventSound
  <1> QED BY <1>5, <1>6, <1>7, <1>8, <1>9 DEF IInv

-----------------------------------------------------------------------------
(* The invariant holds for ever *)

\* Nothing has happened at the start.
LEMMA InitIInv == Init => IInv
  <1> SUFFICES ASSUME Init PROVE IInv
    OBVIOUS
  <1>1. NoItems \in Baskets /\ NoItems \in Inv!Basket
    BY QuantityAssumption DEF NoItems, Baskets, Inv!Basket
  <1>2. Inv!TypeOK
    BY <1>1, StockAssumption
       DEF Init, Inv!Init, Inv!TypeOK, Inv!Statuses, Inv!NoCall, Inv!EmptyBasket, NoItems
  <1>3. Pay!TypeOK
    BY DEF Init, Pay!Init, Pay!TypeOK, Pay!Statuses, Pay!NoCall, Pay!Methods, Pay!Answers
  <1>4. TypeOK
    BY <1>1, <1>2, <1>3 DEF Init, TypeOK, OrderStatuses, PCs, Ended, NoSnap
  <1>5. Control
    BY RequestAssumption
       DEF Init, Inv!Init, Pay!Init, Inv!NoCall, Pay!NoCall, NoSnap, Control, CheckoutPoint,
           CancelPoint, Unreserved, Uncharged
  <1>6. Slots
    BY DEF Init, Inv!Init, Pay!Init, Inv!NoCall, Pay!NoCall, Slots, InvSlot, PaySlot,
           Pay!Answered
  <1>7. Tables
    BY DEF Init, Inv!Init, Pay!Init, Tables, Rows
  <1>8. Story
    BY DEF Init, Story
  <1> QED BY <1>4, <1>5, <1>6, <1>7, <1>8 DEF IInv

\* A shopper changes a cart line or starts a request.
LEMMA UserStepKeeps ==
  ASSUME IInv, UserStep
  PROVE  IInv'
  <1>1. ASSUME NEW u \in Users, NEW p \in Products, NEW q \in 1..MaxQty, addCartItem(u, p, q)
        PROVE  IInv'
    <2>1. cart[u][p] + q \in 0..MaxQty
      BY <1>1, QuantityAssumption DEF IInv, TypeOK, Baskets, addCartItem
    <2> QED BY <1>1, <2>1, CartKeeps DEF addCartItem
  <1>2. ASSUME NEW u \in Users, NEW p \in Products, NEW q \in 0..MaxQty, updateCartItem(u, p, q)
        PROVE  IInv'
    BY <1>2, CartKeeps DEF updateCartItem
  <1>3. ASSUME NEW u \in Users, NEW p \in Products, removeCartItem(u, p)
        PROVE  IInv'
    BY <1>3, CartKeeps, QuantityAssumption DEF removeCartItem
  <1> QED BY <1>1, <1>2, <1>3, CheckoutLoadCartKeeps, CancelLoadKeeps DEF UserStep

\* A handler of the order service goes on.
LEMMA HandlerStepKeeps ==
  ASSUME IInv, NEW r \in Requests, HandlerStep(r)
  PROVE  IInv'
  <1>1. CASE r \in Checkouts /\ checkout(r)
    BY <1>1, InsertOrderKeeps, InsertItemKeeps, PublishCreatedKeeps, CallReserveKeeps,
       ReserveRejectedKeeps, PublishRejectedKeeps, SaveReservationKeeps, CallAuthorizeKeeps,
       CallCompensateKeeps, MarkPaymentFailedKeeps, PublishPaymentFailedKeeps, ConfirmKeeps,
       ClearCartKeeps, PublishConfirmedKeeps
       DEF checkout
  <1>2. CASE r \in Cancels /\ cancelOrder(r)
    BY <1>2, CancelCallReleaseKeeps, CancelCallRefundKeeps, CancelMarkKeeps,
       PublishUserCancelledKeeps
       DEF cancelOrder
  <1> QED BY <1>1, <1>2 DEF HandlerStep

\* Every step of Next keeps the invariant.
LEMMA NextIInv == IInv /\ [Next]_vars => IInv'
  <1> SUFFICES ASSUME IInv, [Next]_vars PROVE IInv'
    OBVIOUS
  <1>1. CASE UserStep
    BY <1>1, UserStepKeeps
  <1>2. ASSUME NEW r \in Requests, HandlerStep(r) \/ Throw(r)
        PROVE  IInv'
    BY <1>2, HandlerStepKeeps, ThrowKeeps
  <1>3. ASSUME NEW r \in Requests, InventoryStep(r) \/ PaymentStep(r)
        PROVE  IInv'
    BY <1>3, InventoryStepKeeps, PaymentStepKeeps
  <1>4. CASE UNCHANGED vars
    <2>1. TypeOK'
      BY <1>4, ServicesTyped DEF IInv, TypeOK, vars
    <2>2. Control'
      BY <1>4 DEF IInv, Control, CheckoutPoint, CancelPoint, Inv!Replied, vars
    <2>3. Slots'
      BY <1>4 DEF IInv, Slots, InvSlot, PaySlot, Pay!Answered, vars
    <2>4. Tables' /\ Story'
      BY <1>4 DEF IInv, Tables, Rows, Inv!Replied, Story, EventSound, vars
    <2> QED BY <2>1, <2>2, <2>3, <2>4 DEF IInv
  <1> QED BY <1>1, <1>2, <1>3, <1>4 DEF Next

\* The inductive invariant holds of every behaviour of the saga.
THEOREM Invariance == Spec => []IInv
  BY InitIInv, NextIInv, PTL DEF Spec

-----------------------------------------------------------------------------
(* What follows of the saga *)

\* Columns, messages and locals keep their types, those of both services included.
THEOREM TypeCorrect == Spec => []TypeOK
  <1>1. IInv => TypeOK
    BY DEF IInv
  <1> QED BY <1>1, Invariance, PTL

\* A payment row exists only for an order whose exact items were reserved first, and whose
\* reservation the order service has recorded.
THEOREM ReservedBeforeCharged == Spec => []ChargedOnlyIfReserved
  <1>1. IInv => ChargedOnlyIfReserved
    BY DEF IInv, Tables, Rows, Slots, PaySlot, ChargedOnlyIfReserved
  <1> QED BY <1>1, Invariance, PTL

\* Money is returned only for an order that was confirmed.
THEOREM ConfirmedBeforeRefunded == Spec => []RefundedOnlyIfConfirmed
  <1>1. IInv => RefundedOnlyIfConfirmed
    BY DEF IInv, Tables, Rows, RefundedOnlyIfConfirmed
  <1> QED BY <1>1, Invariance, PTL

\* A PAYMENT_FAILED order holds stock only when its own release was refused.
THEOREM FailedPaymentHoldsNothing == Spec => []HeldOnlyIfReleaseFailed
  <1>1. IInv => HeldOnlyIfReleaseFailed
    BY DEF IInv, Tables, Rows, Slots, InvSlot, Inv!Replied, HeldOnlyIfReleaseFailed
  <1> QED BY <1>1, Invariance, PTL

\* The events of an order tell one story, whichever of them arrive.
THEOREM OneStory == Spec => []EventsTellOneStory
  <1>1. IInv => EventsTellOneStory
    BY DEF IInv, TypeOK, Events, Tables, Rows, Story, EventSound, EventsTellOneStory
  <1> QED BY <1>1, Invariance, PTL

\* No step but Confirm makes an order CONFIRMED.
LEMMA ConfirmAlone ==
  ASSUME IInv, [Next]_vars, NEW o \in Checkouts, status'[o] = "CONFIRMED",
         status[o] # "CONFIRMED"
  PROVE  Confirm(o)
  <1>1. ASSUME NEW r \in Checkouts, checkout(r)
        PROVE  Confirm(o)
    BY <1>1 DEF IInv, TypeOK, checkout, InsertOrder, InsertItem, PublishCreated, CallReserve,
       ReserveRejected, PublishRejected, SaveReservation, CallAuthorize, CallCompensate,
       MarkPaymentFailed, PublishPaymentFailed, Confirm, ClearCart, PublishConfirmed
  <1>2. ASSUME NEW c \in Cancels, cancelOrder(c)
        PROVE  FALSE
    BY <1>2 DEF IInv, TypeOK, cancelOrder, CancelCallRelease, CancelCallRefund, CancelMark,
       PublishUserCancelled
  <1>3. UserStep => UNCHANGED status
    BY DEF UserStep, addCartItem, updateCartItem, removeCartItem, SetLine, CheckoutLoadCart,
       CancelLoad
  <1>4. \A r \in Requests : Throw(r) \/ InventoryStep(r) \/ PaymentStep(r) => UNCHANGED status
    BY DEF Throw, InventoryStep, PaymentStep
  <1> QED BY <1>1, <1>2, <1>3, <1>4 DEF Next, HandlerStep, vars

\* The step that confirms an order finds its payment AUTHORIZED: a cancellation cannot have
\* refunded it in between, because it refunds only a row it has read CONFIRMED.
THEOREM AuthorizedWhenConfirmed == Spec => ConfirmOnlyAuthorized
  <1>1. ASSUME IInv, [Next]_vars, NEW o \in Checkouts, status'[o] = "CONFIRMED",
               status[o] # "CONFIRMED"
        PROVE  payments[o] = "AUTHORIZED"
    <2>1. Confirm(o)
      BY <1>1, ConfirmAlone
    <2>2. payments[o] \in {"AUTHORIZED", "REFUNDED"} /\ pc[o] = "authorizing"
      BY <1>1, <2>1 DEF Confirm, IInv, Slots, PaySlot
    <2>3. ~confirmedAt[o]
      BY <1>1, <2>2 DEF IInv, Control, CheckoutPoint
    <2> QED BY <1>1, <2>2, <2>3 DEF IInv, Tables, Rows
  <1>2. IInv /\ [Next]_vars =>
          [\A o \in Checkouts : status'[o] = "CONFIRMED" /\ status[o] # "CONFIRMED" =>
             payments[o] = "AUTHORIZED"]_vars
    BY <1>1
  <1> QED BY <1>2, Invariance, PTL DEF Spec, ConfirmOnlyAuthorized

-----------------------------------------------------------------------------
(* The inventory service, as the saga uses it *)

\* The saga starts where the ledger does.
LEMMA LedgerInit == Init => Inv!Init
  BY DEF Init

\* The handlers reach the inventory service by its two calls only.
LEMMA LedgerHandlerStep ==
  ASSUME IInv, NEW r \in Requests, HandlerStep(r)
  PROVE  Inv!Next \/ UNCHANGED Inv!vars
  <1>1. CASE r \in Checkouts /\ CallReserve(r)
    <2>1. want[r] \in Baskets /\ Inv!SendReserve(r, r, want[r])
      BY <1>1 DEF IInv, TypeOK, CallReserve
    <2> QED BY <1>1, <2>1 DEF Inv!Next
  <1>2. CASE r \in Checkouts /\ CallCompensate(r)
    BY <1>2 DEF Inv!Next, CallCompensate
  <1>3. CASE r \in Cancels /\ CancelCallRelease(r)
    <2>1. target[r] \in Checkouts /\ Inv!SendRelease(r, target[r])
      BY <1>3 DEF IInv, Control, CancelPoint, CancelCallRelease
    <2> QED BY <2>1 DEF Inv!Next
  <1>4. CASE \/ r \in Checkouts /\ checkout(r) /\ ~CallReserve(r) /\ ~CallCompensate(r)
             \/ r \in Cancels /\ cancelOrder(r) /\ ~CancelCallRelease(r)
    BY <1>4 DEF Inv!vars, checkout, InsertOrder, InsertItem, PublishCreated, ReserveRejected,
       PublishRejected, SaveReservation, CallAuthorize, MarkPaymentFailed, PublishPaymentFailed,
       Confirm, ClearCart, PublishConfirmed, cancelOrder, CancelCallRefund, CancelMark,
       PublishUserCancelled
  <1> QED BY <1>1, <1>2, <1>3, <1>4 DEF HandlerStep

\* Every step of the saga is a step or a stutter of the ledger.
LEMMA LedgerNext == IInv /\ [Next]_vars => [Inv!Next]_(Inv!vars)
  <1> SUFFICES ASSUME IInv, [Next]_vars PROVE Inv!Next \/ UNCHANGED Inv!vars
    OBVIOUS
  <1>1. CASE UserStep
    BY <1>1 DEF Inv!vars, UserStep, addCartItem, updateCartItem, removeCartItem, SetLine,
       CheckoutLoadCart, CancelLoad
  <1>2. ASSUME NEW r \in Requests, InventoryStep(r)
        PROVE  Inv!Next
    BY <1>2 DEF InventoryStep, Inv!Next
  <1>3. ASSUME NEW r \in Requests, Throw(r) \/ PaymentStep(r)
        PROVE  UNCHANGED Inv!vars
    BY <1>3 DEF Throw, PaymentStep, Inv!vars
  <1>4. UNCHANGED vars => UNCHANGED Inv!vars
    BY DEF vars, Inv!vars
  <1> QED BY <1>1, <1>2, <1>3, <1>4, LedgerHandlerStep DEF Next

\* Seen in the tables and calls of the inventory service, the saga behaves as StockLedger
\* allows: all that is proved of StockLedger holds of the service the saga calls.
THEOREM UsesTheLedger == Spec => Inv!Spec
  BY LedgerInit, LedgerNext, Invariance, PTL DEF Spec, Inv!Spec
-----------------------------------------------------------------------------
(* The stock is exact while no reservation is released twice *)

\* A release of the order's reservation that took effect, or may have.
OkRelease(r, o) == invCall[r].op = "release" /\ invCall[r].order = o /\ TookEffect(r)

\* ReleasedOnce, without counting.
SingleRelease ==
  \A o \in Checkouts, r, d \in Requests : OkRelease(r, o) /\ OkRelease(d, o) => r = d

\* The count of ReleasedOnce, read as a fact about any two requests.
LEMMA OnceIsSingle == ReleasedOnce => SingleRelease
  <1> SUFFICES ASSUME ReleasedOnce, NEW o \in Checkouts, NEW r \in Requests, NEW d \in Requests,
                      OkRelease(r, o), OkRelease(d, o), r # d
               PROVE  FALSE
    BY DEF SingleRelease
  <1> DEFINE S == Releases(o)
  <1>1. IsFiniteSet(S) /\ Cardinality(S) =< 1
    BY FiniteAssumption, FS_Subset DEF ReleasedOnce, Releases
  <1>2. {r, d} \in SUBSET S
    BY DEF OkRelease, Releases
  <1>3. Cardinality({r, d}) = 2
    <2>1. IsFiniteSet({r}) /\ Cardinality({r}) = 1
      BY FS_Singleton
    <2>2. Cardinality({r} \cup {d}) = 2
      BY <2>1, FS_AddElement
    <2> QED BY <2>2
  <1> HIDE DEF S
  <1>4. Cardinality({r, d}) =< Cardinality(S)
    BY <1>1, <1>2, FS_Subset
  <1>5. Cardinality(S) \in Nat
    BY <1>1, FS_CardinalityType
  <1> QED BY <1>1, <1>3, <1>4, <1>5

\* Only an answered release makes a reservation RELEASED.
Given == \A o \in Checkouts : reservation[o] = "RELEASED" => \E r \in Requests : OkRelease(r, o)

\* StockExact, without counting.
Exact == SingleRelease => \A p \in Products : reserved[p] = Inv!Committed(p)

\* What any step does to the inventory service: nothing, a call that has not released
\* anything yet, or a step of the service.
LEMMA LedgerStep ==
  ASSUME IInv, [Next]_vars
  PROVE  \/ UNCHANGED inventory
         \/ \E r \in Requests :
              /\ invCall[r].op # "release"
              /\ invCall'[r].st = "sent"
              /\ \A d \in Requests \ {r} : invCall'[d] = invCall[d]
              /\ UNCHANGED <<available, reserved, reservation, lines>>
         \/ \E r \in Requests : InventoryStep(r)
  <1> DEFINE Sent(r) == /\ invCall[r].op # "release"
                        /\ invCall'[r].st = "sent"
                        /\ \A d \in Requests \ {r} : invCall'[d] = invCall[d]
                        /\ UNCHANGED <<available, reserved, reservation, lines>>
  <1>1. ASSUME NEW r \in Checkouts, CallReserve(r)
        PROVE  Sent(r)
    <2>1. InvSent(r, "reserve", r, want[r]) /\ invCall[r].op = "none"
      BY <1>1, InvSend DEF IInv, TypeOK, Control, CheckoutPoint, Unreserved, CallReserve
    <2> QED BY <2>1 DEF InvSent
  <1>2. ASSUME NEW r \in Checkouts, CallCompensate(r)
        PROVE  Sent(r)
    <2>1. NoItems \in Baskets
      BY QuantityAssumption DEF NoItems, Baskets
    <2>2. InvSent(r, "release", r, Inv!EmptyBasket) /\ invCall[r].op = "reserve"
      BY <1>2, <2>1, InvSend DEF IInv, Control, CheckoutPoint, CallCompensate
    <2> QED BY <2>2 DEF InvSent
  <1>3. ASSUME NEW r \in Cancels, CancelCallRelease(r)
        PROVE  Sent(r)
    <2>1. NoItems \in Baskets
      BY QuantityAssumption DEF NoItems, Baskets
    <2>2. InvSent(r, "release", target[r], Inv!EmptyBasket) /\ invCall[r].op = "none"
      BY <1>3, <2>1, InvSend DEF IInv, Control, CancelPoint, CancelCallRelease
    <2> QED BY <2>2 DEF InvSent
  <1>4. ASSUME NEW r \in Requests, HandlerStep(r)
        PROVE  UNCHANGED inventory \/ Sent(r)
    <2>1. CASE \/ r \in Checkouts /\ checkout(r) /\ ~CallReserve(r) /\ ~CallCompensate(r)
               \/ r \in Cancels /\ cancelOrder(r) /\ ~CancelCallRelease(r)
      BY <2>1 DEF checkout, InsertOrder, InsertItem, PublishCreated, ReserveRejected,
         PublishRejected, SaveReservation, CallAuthorize, MarkPaymentFailed,
         PublishPaymentFailed, Confirm, ClearCart, PublishConfirmed, cancelOrder,
         CancelCallRefund, CancelMark, PublishUserCancelled
    <2> HIDE DEF Sent
    <2> QED BY <1>1, <1>2, <1>3, <1>4, <2>1 DEF HandlerStep
  <1>5. UserStep \/ (\E r \in Requests : Throw(r) \/ PaymentStep(r)) \/ UNCHANGED vars
          => UNCHANGED inventory
    BY DEF UserStep, addCartItem, updateCartItem, removeCartItem, SetLine, CheckoutLoadCart,
       CancelLoad, Throw, PaymentStep, vars
  <1> HIDE DEF Sent
  <1>6. \/ UNCHANGED inventory
        \/ \E r \in Requests : Sent(r)
        \/ \E r \in Requests : InventoryStep(r)
    BY <1>4, <1>5 DEF Next
  <1> QED BY <1>6 DEF Sent

\* A release that took effect is never sent again.
LEMMA ReleasesStay ==
  ASSUME IInv, [Next]_vars, NEW o \in Checkouts, NEW r \in Requests, OkRelease(r, o)
  PROVE  OkRelease(r, o)'
  <1>1. ASSUME NEW d \in Requests, InventoryStep(d)
        PROVE  invCall'[r] = invCall[r]
    <2>1. r # d
      BY <1>1 DEF OkRelease, TookEffect, InventoryStep, Inv!InFlight
    <2> QED BY <1>1, <2>1, InventoryEffect DEF IInv, TypeOK, Slots, InventoryStep
  <1> QED BY <1>1, LedgerStep DEF OkRelease, TookEffect

\* Hence what holds of the releases after a step held before it.
LEMMA SingleBefore ==
  ASSUME IInv, [Next]_vars, SingleRelease'
  PROVE  SingleRelease
  BY ReleasesStay DEF SingleRelease

\* The instance's copy of the community module adds up as the module does.
LEMMA SameSum == ASSUME NEW f PROVE Inv!SumFunction(f) = SumFunction(f)
  BY DEF Inv!SumFunction, Inv!SumFunctionOnSet, Inv!FoldFunctionOnSet, Inv!MapThenFoldSet,
         SumFunction, SumFunctionOnSet, FoldFunctionOnSet, MapThenFoldSet

\* What the transaction of one order does to the units committed.
LEMMA HeldChange ==
  ASSUME Inv!TypeOK, Inv!TypeOK', NEW p \in Products, NEW o \in Checkouts,
         \A x \in Checkouts \ {o} : reservation'[x] = reservation[x] /\ lines'[x] = lines[x]
  PROVE  /\ Inv!Committed(p) \in Nat /\ Inv!Committed(p)' \in Nat
         /\ Inv!Held(p)[o] =< Inv!Committed(p)
         /\ Inv!Committed(p)' + Inv!Held(p)[o] = Inv!Committed(p) + Inv!Held(p)'[o]
  <1> DEFINE f == Inv!Held(p)
             h == Inv!Held(p)'
  <1>1. /\ f \in [Checkouts -> Nat] /\ h \in [Checkouts -> Nat]
        /\ \A x \in Checkouts \ {o} : h[x] = f[x]
    BY DEF Inv!TypeOK, Inv!Held, Inv!Basket
  <1>2. IsFiniteSet(Checkouts)
    BY FiniteAssumption, FS_Subset
  <1> HIDE DEF f, h
  <1>3. /\ SumFunction(h) + f[o] = SumFunction(f) + h[o]
        /\ SumFunction(f) \in Nat /\ SumFunction(h) \in Nat /\ f[o] =< SumFunction(f)
    BY <1>1, <1>2, SumUpdate, SumNat
  <1>4. Inv!Committed(p) = SumFunction(f) /\ Inv!Committed(p)' = SumFunction(h)
    BY SameSum DEF Inv!Committed, f, h
  <1> QED BY <1>3, <1>4 DEF f, h

\* The two effects of the inventory service on the tables, whatever it answers.
LEMMA ServiceEffects ==
  ASSUME IInv, NEW r \in Requests, InventoryStep(r)
  PROVE  \/ Inv!Reserving(r) /\ Inv!Reserve(r) /\ TookEffect(r)'
         \/ Inv!Releasing(r) /\ Inv!Release(r) /\ TookEffect(r)'
         \/ UNCHANGED <<available, reserved, reservation, lines>>
  <1> DEFINE Effect == \/ Inv!Reserving(r) /\ Inv!Reserve(r)
                       \/ Inv!Releasing(r) /\ Inv!Release(r)
             Same == UNCHANGED <<available, reserved, reservation, lines>>
  <1>1. Inv!Reply(r, "ok") => TookEffect(r)'
    BY InvReply DEF IInv, TypeOK, TookEffect
  <1>2. "ackLost" \in Faults /\ Inv!Reply(r, "refused") => TookEffect(r)'
    BY InvReply DEF IInv, TypeOK, TookEffect
  <1>3. \/ Effect /\ Inv!Reply(r, "ok")
        \/ Effect /\ "ackLost" \in Faults /\ Inv!Reply(r, "refused")
        \/ Same
    BY DEF InventoryStep, Inv!ServiceStep, Inv!Decide, Inv!Fail, Inv!ReserveOk,
       Inv!ReserveAckLost, Inv!ReserveRefused, Inv!ReserveAborted, Inv!ReleaseRead, Inv!ReleaseOk,
       Inv!ReleaseAckLost, Inv!ReleaseCheckFails, Inv!ReleaseAborted, Inv!ledgerVars
  <1>4. (Effect /\ TookEffect(r)') \/ Same
    BY <1>1, <1>2, <1>3
  <1> QED BY <1>4

\* Every step keeps Given: the only one to release a reservation is a call of a release.
LEMMA GivenNext ==
  ASSUME IInv, Given, [Next]_vars
  PROVE  Given'
  <1> SUFFICES ASSUME NEW o \in Checkouts, reservation'[o] = "RELEASED"
               PROVE  \E r \in Requests : OkRelease(r, o)'
    BY DEF Given
  <1>1. CASE reservation[o] = "RELEASED"
    BY <1>1, ReleasesStay DEF Given
  <1>2. CASE reservation[o] # "RELEASED"
    <2>1. PICK r \in Requests : InventoryStep(r)
      BY <1>2, LedgerStep
    <2>2. Inv!Releasing(r) /\ Inv!Release(r) /\ TookEffect(r)'
      BY <1>2, <2>1, ServiceEffects DEF IInv, TypeOK, Inv!TypeOK, Inv!Reserve
    <2>3. invCall[r].order = o
      BY <1>2, <2>2 DEF IInv, TypeOK, Inv!TypeOK, Inv!Release
    <2>4. invCall'[r].op = "release" /\ invCall'[r].order = o
      BY <2>1, <2>2, <2>3, InventoryEffect DEF IInv, TypeOK, Slots, InventoryStep, Inv!Releasing
    <2> QED BY <2>2, <2>4 DEF OkRelease
  <1> QED BY <1>1, <1>2

\* Under SingleRelease, the reservation that a step releases was still ACTIVE.
LEMMA ReleasedWasActive ==
  ASSUME IInv, Given, [Next]_vars, SingleRelease',
         NEW r \in Requests, InventoryStep(r), Inv!Releasing(r), TookEffect(r)'
  PROVE  invCall[r].order \in Checkouts /\ reservation[invCall[r].order] = "ACTIVE"
  <1>1. /\ invCall[r].order \in Checkouts /\ invCall[r].op = "release"
        /\ reservation[invCall[r].order] \in {"ACTIVE", "RELEASED"}
    BY DEF IInv, TypeOK, Inv!TypeOK, Inv!Statuses, Slots, InvSlot, Inv!Releasing
  <1>2. ASSUME NEW o \in Checkouts, invCall[r].order = o, reservation[o] = "RELEASED"
        PROVE  FALSE
    <2>1. PICK d \in Requests : OkRelease(d, o)
      BY <1>2 DEF Given
    <2>2. d # r
      BY <2>1 DEF OkRelease, TookEffect, Inv!Releasing
    <2>3. OkRelease(d, o)'
      BY <2>1, ReleasesStay
    <2>4. OkRelease(r, o)'
      BY <1>1, <1>2, InventoryEffect DEF OkRelease, IInv, TypeOK, Slots, InventoryStep
    <2> QED BY <2>2, <2>3, <2>4 DEF SingleRelease
  <1> QED BY <1>1, <1>2

\* Nothing is released or reserved at the start.
LEMMA ExactInit == Init => Given /\ Exact
  <1> SUFFICES ASSUME Init, NEW p \in Products PROVE Given /\ reserved[p] = Inv!Committed(p)
    <2>1. Init => Given
      BY DEF Init, Inv!Init, Given
    <2> QED BY <2>1 DEF Exact
  <1>1. Inv!Held(p) = [o \in Checkouts |-> 0]
    BY DEF Init, Inv!Init, Inv!Held
  <1>2. IsFiniteSet(Checkouts)
    BY FiniteAssumption, FS_Subset
  <1>3. Inv!Committed(p) = 0
    BY <1>1, <1>2, SumZero, SameSum DEF Inv!Committed
  <1> QED BY <1>3 DEF Init, Inv!Init, Given

\* Every step moves the column and what the reservations hold by the same units.
LEMMA ExactNext ==
  ASSUME IInv, IInv', Given, Exact, [Next]_vars
  PROVE  Exact'
  <1> SUFFICES ASSUME SingleRelease', NEW p \in Products
               PROVE  reserved'[p] = Inv!Committed(p)'
    BY DEF Exact
  <1>1. reserved[p] = Inv!Committed(p)
    BY SingleBefore DEF Exact
  <1>2. CASE UNCHANGED <<available, reserved, reservation, lines>>
    BY <1>1, <1>2 DEF Inv!Committed, Inv!Held
  <1>3. ASSUME NEW r \in Requests, InventoryStep(r), Inv!Reserving(r), Inv!Reserve(r)
        PROVE  reserved'[p] = Inv!Committed(p)'
    <2>1. PICK o \in Checkouts : invCall[r].order = o
      BY <1>3 DEF IInv, Slots, InvSlot, Inv!Reserving
    <2>2. invCall[r].items[p] \in Nat /\ reserved[p] \in Nat
      BY DEF IInv, TypeOK, Inv!TypeOK, Inv!Basket
    <2>3. /\ Inv!Held(p)[o] = 0 /\ Inv!Held(p)'[o] = invCall[r].items[p]
          /\ reserved'[p] = reserved[p] + invCall[r].items[p]
      BY <1>3, <2>1 DEF IInv, TypeOK, Inv!TypeOK, Inv!Reserve, Inv!Held
    <2>4. \A x \in Checkouts \ {o} : reservation'[x] = reservation[x] /\ lines'[x] = lines[x]
      BY <1>3, <2>1 DEF IInv, TypeOK, Inv!TypeOK, Inv!Reserve
    <2>5. /\ Inv!Committed(p) \in Nat /\ Inv!Committed(p)' \in Nat
          /\ Inv!Committed(p)' + Inv!Held(p)[o] = Inv!Committed(p) + Inv!Held(p)'[o]
      BY <2>4, HeldChange DEF IInv, TypeOK
    <2> QED BY <1>1, <2>2, <2>3, <2>5
  <1>4. ASSUME NEW r \in Requests, InventoryStep(r), Inv!Releasing(r), Inv!Release(r),
               TookEffect(r)'
        PROVE  reserved'[p] = Inv!Committed(p)'
    <2>1. PICK o \in Checkouts : invCall[r].order = o /\ reservation[o] = "ACTIVE"
      BY <1>4, ReleasedWasActive
    <2>2. lines[o][p] \in Nat /\ reserved[p] \in Nat
      BY DEF IInv, TypeOK, Inv!TypeOK, Inv!Basket
    <2>3. /\ Inv!Held(p)[o] = lines[o][p] /\ Inv!Held(p)'[o] = 0
          /\ reserved'[p] = reserved[p] - lines[o][p]
      BY <1>4, <2>1 DEF IInv, TypeOK, Inv!TypeOK, Inv!Release, Inv!Held
    <2>4. \A x \in Checkouts \ {o} : reservation'[x] = reservation[x] /\ lines'[x] = lines[x]
      BY <1>4, <2>1 DEF IInv, TypeOK, Inv!TypeOK, Inv!Release
    <2>5. /\ Inv!Committed(p) \in Nat /\ Inv!Committed(p)' \in Nat
          /\ Inv!Committed(p)' + Inv!Held(p)[o] = Inv!Committed(p) + Inv!Held(p)'[o]
      BY <2>4, HeldChange DEF IInv, TypeOK
    <2> QED BY <1>1, <2>2, <2>3, <2>5
  <1> QED BY <1>2, <1>3, <1>4, LedgerStep, ServiceEffects

\* Two releases of one reservation are the only way for the
\* reserved column to differ from what the ACTIVE reservations hold, whatever
\* statements fail, whatever answers are lost and whatever handlers die.
THEOREM ExactStock == Spec => []StockExact
  <1>1. IInv /\ IInv' /\ Given /\ Exact /\ [Next]_vars => Given' /\ Exact'
    BY GivenNext, ExactNext
  <1>2. Spec => [](IInv /\ Given /\ Exact)
    BY <1>1, InitIInv, NextIInv, ExactInit, PTL DEF Spec
  <1>3. Exact => StockExact
    BY OnceIsSingle DEF Exact, StockExact
  <1> QED BY <1>2, <1>3, PTL

-----------------------------------------------------------------------------
(* The saga is all or nothing, when nothing fails *)

\* A checkout past its last UPDATE of the order.
Past == {"confirmed", "cleared", "unpaid", "done"}

\* The saga of o ended without a payment, or is about to.
Unpaid(o) ==
  pc[o] = "unpaid" \/ (pc[o] = "done" /\ payCall[o].op = "authorize" /\ ~confirmedAt[o])

\* The saga of o ended without a reservation, or is about to.
Rejected(o) == pc[o] = "rejected" \/ (pc[o] = "done" /\ payCall[o].op = "none")

\* Where a checkout is, against the rows of its order in the three services.
CheckoutCalm(o) ==
  /\ pc[o] # "failed"
  /\ pc[o] \in {"idle", "refused", "loaded"} => status[o] = "NONE"
  /\ Rejected(o) =>
       status[o] = "CANCELLED" /\ invCall[o].op = "reserve" /\ invCall[o].st = "refused"
  /\ Unpaid(o) =>
       status[o] \in {"PAYMENT_FAILED", "CANCELLED"} /\ invCall[o].op = "release"
       /\ Inv!Replied(o)
  /\ Unpaid(o) \/ pc[o] = "compensating" =>
       payCall[o].st = "replied" /\ payCall[o].answer # "AUTHORIZED"
  /\ confirmedAt[o] =>
       /\ status[o] \in {"CONFIRMED", "CANCELLED"}
       /\ invCall[o].op = "reserve" /\ payId[o]
       /\ Pay!Answered(o, "authorize", "AUTHORIZED")
  /\ status[o] = "PAYMENT_FAILED" => ~confirmedAt[o] /\ resvId[o]
  /\ confirmedAt[o] /\ status[o] = "CANCELLED" =>
       \E c \in Cancels : target[c] = o /\ pc[c] \in {"cancelled", "done"}
  /\ payments[o] = "REFUNDED" =>
       \E c \in Cancels : payCall[c].op = "refund" /\ payCall[c].order = o
  /\ invCall[o].op = "reserve" /\ invCall[o].st \in {"sent", "refused"} =>
       reservation[o] = "NONE"
  /\ payCall[o].op = "authorize" /\ payCall[o].st # "replied" => payments[o] = "NONE"
  /\ payCall[o].op = "authorize" /\ payCall[o].st = "replied" =>
       \/ payCall[o].answer = "AUTHORIZED"
       \/ payCall[o].answer = "DECLINED" /\ payments[o] = "DECLINED"

\* The row a cancel loaded, against the row now.
SnapCalm(c) ==
  LET o == target[c]
  IN  /\ o \in Checkouts
      /\ snap[c].status \in {"PENDING", "CONFIRMED", "PAYMENT_FAILED"}
      /\ snap[c].resvId => resvId[o]
      /\ snap[c].status # "PENDING" => snap[c].resvId /\ pc[o] \in Past
      /\ snap[c].status = "CONFIRMED" => snap[c].payId /\ confirmedAt[o]
      /\ snap[c].status = "PAYMENT_FAILED" => ~confirmedAt[o]

\* Where a cancel is, against its calls and the order it read.
CancelCalm(c) ==
  /\ pc[c] # "failed"
  /\ pc[c] = "idle" => target[c] = NoOrder
  /\ pc[c] \notin {"idle", "refused"} => SnapCalm(c)
  /\ pc[c] = "releasing" => snap[c].resvId /\ invCall[c].op = "release"
  /\ pc[c] = "refunding" => payCall[c].op = "refund"
  /\ pc[c] \in {"refunding", "cancelled", "done"} /\ snap[c].resvId =>
       invCall[c].op = "release" /\ Inv!Replied(c)
  /\ pc[c] \in {"cancelled", "done"} /\ snap[c].status = "CONFIRMED" =>
       payCall[c].op = "refund" /\ payCall[c].st = "replied"
  /\ pc[c] \in {"cancelled", "done"} /\ snap[c].status # "PENDING" =>
       status[target[c]] = "CANCELLED"
  /\ invCall[c].op = "release" => invCall[c].order = target[c] /\ resvId[target[c]]
  /\ payCall[c].op = "refund" =>
       payCall[c].order = target[c] /\ pc[c] \in {"refunding", "cancelled", "done"}
  /\ payCall[c].op = "refund" /\ payCall[c].st = "replied" => payments[target[c]] = "REFUNDED"

\* The invariant of a run without faults.
Calm == (\A o \in Checkouts : CheckoutCalm(o)) /\ (\A c \in Cancels : CancelCalm(c))

\* A refused release found the reservation released before.
RefusedReleases ==
  SingleRelease =>
    \A r \in Requests : invCall[r].op = "release" /\ invCall[r].st = "refused" =>
      reservation[invCall[r].order] = "RELEASED"

\* Calm holds before any request.
LEMMA CalmInit == Init => Calm
  BY DEF Init, Inv!Init, Pay!Init, Inv!NoCall, Pay!NoCall, Calm, CheckoutCalm, CancelCalm,
         Rejected, Unpaid

\* What a step of request r does not go back on, besides Aside.
Steady(r) ==
  /\ \A o \in Checkouts \ {r} :
       /\ payId'[o] = payId[o]
       /\ \/ status'[o] = status[o]
          \/ r \in Cancels /\ target'[r] = o /\ pc'[r] = "cancelled"
  /\ r \in Checkouts /\ pc[r] \in Past =>
       pc'[r] \in Past /\ status'[r] = status[r] /\ confirmedAt'[r] = confirmedAt[r]
  /\ r \in Checkouts /\ resvId[r] => resvId'[r]
  /\ r \in Cancels =>
       /\ target[r] # NoOrder => target'[r] = target[r]
       /\ pc[r] \in {"cancelled", "done"} => pc'[r] \in {"cancelled", "done"}
       /\ payCall[r].op = "refund" =>
            payCall'[r].op = "refund" /\ payCall'[r].order = payCall[r].order

\* The stepping request keeps its own part of Calm.
OwnCalm(r) == (r \in Checkouts => CheckoutCalm(r)') /\ (r \in Cancels => CancelCalm(r)')

\* A step that keeps its own part keeps everybody's.
LEMMA CalmStep ==
  ASSUME IInv, Calm, NEW r \in Requests, Aside(r), Steady(r), OwnCalm(r)
  PROVE  Calm'
  <1>1. ASSUME NEW o \in Checkouts, o # r
        PROVE  CheckoutCalm(o)'
    <2>1. CheckoutCalm(o) /\ CheckoutPoint(o) /\ Rows(o)
      BY DEF IInv, Control, Tables, Calm
    <2>2. /\ pc'[o] = pc[o] /\ invCall'[o] = invCall[o] /\ payCall'[o] = payCall[o]
          /\ resvId'[o] = resvId[o] /\ confirmedAt'[o] = confirmedAt[o] /\ payId'[o] = payId[o]
          /\ reservation' = reservation /\ payments' = payments
          /\ status'[o] = status[o] \/ (status[o] # "NONE" /\ status'[o] = "CANCELLED")
      BY <1>1 DEF Aside, Steady
    <2>3. ASSUME confirmedAt'[o], status'[o] = "CANCELLED"
          PROVE  \E c \in Cancels : target'[c] = o /\ pc'[c] \in {"cancelled", "done"}
      <3>1. CASE status[o] # "CANCELLED"
        BY <1>1, <2>3, <3>1 DEF Steady
      <3>2. CASE status[o] = "CANCELLED"
        <4>1. PICK c \in Cancels : target[c] = o /\ pc[c] \in {"cancelled", "done"}
          BY <2>1, <2>2, <2>3, <3>2 DEF CheckoutCalm
        <4> QED BY <4>1, RequestAssumption DEF Aside, Steady
      <3> QED BY <3>1, <3>2
    <2>4. ASSUME payments'[o] = "REFUNDED"
          PROVE  \E c \in Cancels : payCall'[c].op = "refund" /\ payCall'[c].order = o
      <3>1. PICK c \in Cancels : payCall[c].op = "refund" /\ payCall[c].order = o
        BY <2>1, <2>2, <2>4 DEF CheckoutCalm
      <3> QED BY <3>1 DEF Aside, Steady
    <2> QED BY <2>1, <2>2, <2>3, <2>4
        DEF CheckoutCalm, Rejected, Unpaid, Inv!Replied, Pay!Answered
  <1>2. ASSUME NEW c \in Cancels, c # r
        PROVE  CancelCalm(c)'
    <2>1. CancelCalm(c) /\ CancelPoint(c)
      BY DEF IInv, Control, Calm
    <2>2. /\ pc'[c] = pc[c] /\ invCall'[c] = invCall[c] /\ payCall'[c] = payCall[c]
          /\ target'[c] = target[c] /\ snap'[c] = snap[c] /\ payments' = payments
      BY <1>2 DEF Aside
    <2>3. ASSUME NEW o \in Checkouts
          PROVE  /\ resvId[o] => resvId'[o]
                 /\ pc[o] \in Past =>
                      /\ pc'[o] \in Past /\ confirmedAt'[o] = confirmedAt[o]
                      /\ status[o] = "CANCELLED" => status'[o] = "CANCELLED"
      BY DEF Aside, Steady
    <2>4. SnapCalm(c) => SnapCalm(c)'
      BY <2>2, <2>3 DEF SnapCalm
    <2>5. pc[c] \in {"releasing", "refunding", "cancelled", "done"} => SnapCalm(c)
      BY <2>1 DEF CancelCalm
    <2>6. /\ invCall[c].op = "release" => resvId'[target[c]]
          /\ pc[c] \in {"cancelled", "done"} /\ snap[c].status # "PENDING" =>
               status'[target[c]] = "CANCELLED"
      <3>1. invCall[c].op = "release" => pc[c] \notin {"idle", "refused", "loaded"}
        BY <2>1 DEF CancelPoint
      <3>2. invCall[c].op = "release" => target[c] \in Checkouts /\ resvId[target[c]]
        BY <2>1, <3>1 DEF CancelCalm, SnapCalm
      <3> QED BY <2>1, <2>3, <2>5, <3>2 DEF CancelCalm, SnapCalm
    <2> QED BY <2>1, <2>2, <2>4, <2>6 DEF CancelCalm, Inv!Replied
  <1> QED BY <1>1, <1>2 DEF OwnCalm, Calm

\* Every step of a checkout's handler, the first one included.
LEMMA CheckoutCalmKept ==
  ASSUME Faults = {}, IInv, Calm, NEW r \in Checkouts, CheckoutLoadCart(r) \/ checkout(r)
  PROVE  Steady(r) /\ OwnCalm(r)
  <1>0. r \notin Cancels
    BY RequestAssumption
  <1>1. PublishConfirmed(r) => Steady(r) /\ OwnCalm(r)
    <2> SUFFICES ASSUME PublishConfirmed(r) PROVE Steady(r) /\ CheckoutCalm(r)'
      BY <1>0 DEF OwnCalm
    <2>1. CheckoutPoint(r) /\ CheckoutCalm(r)
      BY DEF IInv, Control, Calm
    <2>2. pc[r] = "cleared" /\ confirmedAt[r] /\ payCall[r].op = "authorize"
      BY <2>1 DEF CheckoutPoint, PublishConfirmed
    <2>3. pc'[r] = "done" /\ \A c \in Cancels : pc'[c] = pc[c]
      BY <1>0 DEF IInv, TypeOK, PublishConfirmed
    <2>4. CheckoutCalm(r)'
      BY <2>1, <2>2, <2>3
         DEF CheckoutCalm, Rejected, Unpaid, Inv!Replied, Pay!Answered, PublishConfirmed
    <2>5. Steady(r)
      BY <1>0, <2>2, <2>3 DEF Steady, Past, PublishConfirmed
    <2> QED BY <2>4, <2>5
  <1> USE DEF IInv, Control, CheckoutPoint, Unreserved, Uncharged, Tables, Rows, Slots, PaySlot,
              Calm, CheckoutCalm, Rejected, Unpaid, Past, Steady, OwnCalm, Inv!Replied,
              Pay!Answered, Pay!Replied
  <1>2. CASE CheckoutLoadCart(r)
    BY <1>0, <1>2 DEF TypeOK, CheckoutLoadCart
  <1>3. CASE InsertOrder(r)
    BY <1>0, <1>3 DEF TypeOK, InsertOrder
  <1>4. CASE \E p \in Products : InsertItem(r, p)
    BY <1>0, <1>4 DEF TypeOK, InsertItem
  <1>5. CASE PublishCreated(r)
    BY <1>0, <1>5 DEF TypeOK, PublishCreated
  <1>6. CASE CallReserve(r)
    <2>1. InvSent(r, "reserve", r, want[r])
      BY <1>6, InvSend DEF TypeOK, CallReserve
    <2> QED BY <1>0, <1>6, <2>1 DEF TypeOK, InvSent, CallReserve
  <1>7. CASE ReserveRejected(r)
    BY <1>0, <1>7 DEF TypeOK, ReserveRejected
  <1>8. CASE PublishRejected(r)
    BY <1>0, <1>8 DEF TypeOK, PublishRejected
  <1>9. CASE SaveReservation(r)
    BY <1>0, <1>9 DEF TypeOK, SaveReservation
  <1>10. CASE \E m \in Pay!Methods : CallAuthorize(r, m)
    <2>1. PaySent(r, "authorize", r)
      BY <1>10, PaySend DEF CallAuthorize
    <2> QED BY <1>0, <1>10, <2>1 DEF TypeOK, PaySent, CallAuthorize
  <1>11. CASE CallCompensate(r)
    <2>1. NoItems \in Baskets
      BY QuantityAssumption DEF NoItems, Baskets
    <2>2. InvSent(r, "release", r, Inv!EmptyBasket)
      BY <1>11, <2>1, InvSend DEF CallCompensate
    <2> QED BY <1>0, <1>11, <2>2 DEF TypeOK, InvSent, CallCompensate
  <1>12. CASE MarkPaymentFailed(r)
    BY <1>0, <1>12 DEF TypeOK, MarkPaymentFailed
  <1>13. CASE PublishPaymentFailed(r)
    BY <1>0, <1>13 DEF TypeOK, PublishPaymentFailed
  <1>14. CASE Confirm(r)
    BY <1>0, <1>14 DEF TypeOK, Confirm
  <1>15. CASE ClearCart(r)
    BY <1>0, <1>15 DEF TypeOK, ClearCart
  <1> QED BY <1>1, <1>2, <1>3, <1>4, <1>5, <1>6, <1>7, <1>8, <1>9, <1>10, <1>11, <1>12,
            <1>13, <1>14, <1>15
         DEF checkout

\* Every step of a cancel's handler, the load included.
LEMMA CancelCalmKept ==
  ASSUME Faults = {}, IInv, Calm, NEW c \in Cancels,
         (\E o \in Checkouts : CancelLoad(c, o)) \/ cancelOrder(c)
  PROVE  Steady(c) /\ OwnCalm(c)
  <1>0. c \notin Checkouts
    BY RequestAssumption
  <1> USE DEF IInv, Control, CancelPoint, Slots, PaySlot, Calm, CancelCalm, SnapCalm, Past,
              Steady, OwnCalm, Inv!Replied, Pay!Replied, ReleasePassed, RefundDue
  <1>1. ASSUME NEW o \in Checkouts, CancelLoad(c, o)
        PROVE  Steady(c) /\ OwnCalm(c)
    BY <1>0, <1>1, RequestAssumption
       DEF TypeOK, OrderStatuses, Tables, Rows, CheckoutPoint, CheckoutCalm, CancelLoad
  <1>2. CASE CancelCallRelease(c)
    <2>1. NoItems \in Baskets
      BY QuantityAssumption DEF NoItems, Baskets
    <2>2. InvSent(c, "release", target[c], Inv!EmptyBasket)
      BY <1>2, <2>1, InvSend DEF CancelCallRelease
    <2> QED BY <1>0, <1>2, <2>2 DEF TypeOK, InvSent, CancelCallRelease
  <1>3. CASE CancelCallRefund(c)
    <2>1. "good" \in Pay!Methods
      BY DEF Pay!Methods
    <2>2. PaySent(c, "refund", target[c])
      BY <1>3, <2>1, PaySend DEF CancelCallRefund
    <2> QED BY <1>0, <1>3, <2>2 DEF TypeOK, PaySent, CancelCallRefund
  <1>4. CASE CancelMark(c)
    BY <1>0, <1>4 DEF TypeOK, CancelMark
  <1>5. CASE PublishUserCancelled(c)
    BY <1>0, <1>5 DEF TypeOK, PublishUserCancelled
  <1> QED BY <1>1, <1>2, <1>3, <1>4, <1>5 DEF cancelOrder

\* Every decision of the inventory service.
LEMMA InventoryCalmKept ==
  ASSUME Faults = {}, IInv, Calm, NEW r \in Requests, InventoryStep(r)
  PROVE  Calm'
  <1>1. /\ invCall[r].op # "none" /\ invCall[r].st \in {"sent", "releasing"}
        /\ \A d \in Requests \ {r} : invCall'[d] = invCall[d]
        /\ invCall'[r].op = invCall[r].op
        /\ invCall'[r].order = invCall[r].order
    BY InventoryEffect DEF IInv, TypeOK, Slots, InventoryStep, Inv!InFlight
  <1>2. UNCHANGED <<orderTables, events, pc, locals, payment>>
    BY DEF InventoryStep
  <1>3. \A o \in Checkouts :
          invCall'[o].op = "reserve" /\ invCall'[o].st \in {"sent", "refused"} =>
            reservation'[o] = "NONE"
    <2> SUFFICES ASSUME NEW o \in Checkouts, invCall'[o].op = "reserve",
                        invCall'[o].st \in {"sent", "refused"}
                 PROVE  reservation'[o] = "NONE"
      OBVIOUS
    <2>1. invCall[o].op = "reserve" /\ invCall[o].st \in {"sent", "refused"}
      <3>1. CASE o = r
        BY <1>1, <3>1 DEF IInv, Slots, InvSlot
      <3>2. CASE o # r
        BY <1>1, <3>2
      <3> QED BY <3>1, <3>2
    <2>2. reservation[o] = "NONE"
      BY <2>1 DEF Calm, CheckoutCalm
    <2>3. CASE Inv!Reserving(r) /\ Inv!Reserve(r) /\ invCall'[r].st = "ok"
      <3>1. r # o /\ invCall[r].order = r
        BY <2>3 DEF IInv, Slots, InvSlot, Inv!Reserving
      <3> QED BY <2>2, <2>3, <3>1 DEF IInv, TypeOK, Inv!TypeOK, Inv!Reserve
    <2>4. CASE Inv!Releasing(r) /\ Inv!Release(r) /\ invCall'[r].st = "ok"
      <3>1. invCall[r].order # o
        BY <2>2, <2>4 DEF IInv, Slots, InvSlot, Inv!Releasing
      <3> QED BY <2>2, <2>4, <3>1 DEF IInv, TypeOK, Inv!TypeOK, Inv!Release
    <2> QED BY <2>2, <2>3, <2>4, ServiceEffects DEF TookEffect
  <1>4. \A d \in Requests : Inv!Replied(d) => invCall'[d] = invCall[d]
    BY <1>1 DEF Inv!Replied
  <1>5. ASSUME NEW o \in Checkouts
        PROVE  CheckoutCalm(o)'
    <2>1. CheckoutCalm(o) /\ invCall'[o].op = invCall[o].op
      BY <1>1 DEF Calm
    <2>2. Rejected(o) => Inv!Replied(o)
      BY <2>1 DEF CheckoutCalm, Inv!Replied
    <2>3. invCall[o].st = "refused" => invCall'[o] = invCall[o]
      BY <1>4 DEF Inv!Replied
    <2> QED BY <1>2, <1>3, <1>4, <2>1, <2>2, <2>3
        DEF CheckoutCalm, Rejected, Unpaid, Inv!Replied, Pay!Answered
  <1>6. ASSUME NEW c \in Cancels
        PROVE  CancelCalm(c)'
    <2>1. CancelCalm(c) /\ invCall'[c].op = invCall[c].op /\ invCall'[c].order = invCall[c].order
      BY <1>1 DEF Calm
    <2> QED BY <1>2, <1>4, <2>1 DEF CancelCalm, SnapCalm, Inv!Replied
  <1> QED BY <1>5, <1>6 DEF Calm

\* A decision of the payment service, when no statement fails.
LEMMA PaymentMoves ==
  ASSUME Faults = {}, IInv, Calm, NEW r \in Requests, PaymentStep(r)
  PROVE  LET o == payCall[r].order
         IN  \/ /\ payCall'[r].st # "replied" /\ payments' = payments
                /\ payCall[r].st # "replied"
             \/ /\ payCall[r].op = "authorize" /\ payCall'[r].st = "replied"
                /\ payCall'[r].answer \in {"AUTHORIZED", "DECLINED"}
                /\ payments' = [payments EXCEPT ![o] = payCall'[r].answer]
                /\ payments[o] = "NONE"
             \/ /\ payCall[r].op = "refund" /\ payCall'[r].st = "replied"
                /\ \/ payments' = [payments EXCEPT ![o] = "REFUNDED"]
                   \/ payments' = payments /\ payments[o] # "AUTHORIZED"
  <1>0. payCall \in [Requests -> PayCallType]
    BY DEF IInv, TypeOK, Pay!TypeOK, PayCallType
  <1>1. CASE Pay!AuthorizeLookup(r)
    <2>1. payments[payCall[r].order] = "NONE"
      BY <1>1 DEF IInv, Slots, PaySlot, Calm, CheckoutCalm, Pay!AuthorizeLookup, Pay!At
    <2>2. SlotMoved(r, "checked") /\ payments' = payments /\ payCall[r].st = "sent"
      BY <1>0, <1>1, <2>1, PayAdvance DEF Pay!AuthorizeLookup, Pay!tableVars, Pay!At
    <2> QED BY <2>2 DEF SlotMoved
  <1>2. CASE Pay!AuthorizeCharge(r)
    <2>1. PICK psp \in {"AUTHORIZED", "DECLINED"} : psp = Pay!chargePsp(payCall[r].method)
      BY DEF Pay!chargePsp
    <2>2. SlotMoved(r, "replied") /\ payCall'[r].answer = psp
      BY <1>0, <1>2, <2>1, PayReply DEF Pay!AuthorizeCharge, Pay!Answers
    <2> QED BY <1>2, <2>1, <2>2
        DEF SlotMoved, Pay!AuthorizeCharge, Pay!InsertPayment, Pay!At
  <1>3. ~ Pay!AuthorizeDuplicate(r)
    BY DEF IInv, Slots, PaySlot, Calm, CheckoutCalm, Pay!AuthorizeDuplicate, Pay!At
  <1>4. CASE Pay!RefundLookup(r) \/ Pay!RefundRecord(r)
    <2>1. /\ payments' = payments /\ payCall[r].op = "refund" /\ payCall[r].st # "replied"
          /\ \/ SlotMoved(r, "checked") \/ SlotMoved(r, "recorded")
             \/ SlotMoved(r, "replied") /\ payments[payCall[r].order] # "AUTHORIZED"
      BY <1>0, <1>4, PayReply, PayAdvance
         DEF Pay!RefundLookup, Pay!RefundRecord, Pay!InsertRefund, Pay!tableVars, Pay!At,
             Pay!Answers
    <2> QED BY <2>1 DEF SlotMoved
  <1>5. CASE Pay!RefundMark(r)
    <2>1. SlotMoved(r, "replied")
      BY <1>0, <1>5, PayReply DEF Pay!RefundMark, Pay!Answers
    <2> QED BY <1>5, <2>1 DEF SlotMoved, Pay!RefundMark, Pay!MarkRefunded, Pay!At
  <1> QED
    BY <1>1, <1>2, <1>3, <1>4, <1>5
       DEF PaymentStep, Pay!ServiceStep, Pay!Decide, Pay!Fail, Pay!AuthorizeError,
           Pay!AuthorizeAckLost, Pay!RefundError, Pay!RefundAckLost

\* Every decision of the payment service.
LEMMA PaymentCalmKept ==
  ASSUME Faults = {}, IInv, Calm, NEW r \in Requests, PaymentStep(r)
  PROVE  Calm'
  <1>1. /\ payCall[r].op # "none"
        /\ \A d \in Requests \ {r} : payCall'[d] = payCall[d]
        /\ payCall'[r].op = payCall[r].op
        /\ payCall'[r].order = payCall[r].order
    BY PaymentEffect DEF IInv, TypeOK, Slots, PaymentStep
  <1>2. UNCHANGED <<orderTables, events, pc, locals, inventory>> /\ Pay!InFlight(r)
    BY DEF PaymentStep
  <1>3. PICK x \in Checkouts : payCall[r].order = x
    BY <1>1 DEF IInv, Slots, PaySlot
  <1>4. /\ payCall[r].op = "authorize" => x = r
        /\ payCall[r].op = "refund" => r \in Cancels /\ confirmedAt[x]
        /\ payCall[r].op \in {"authorize", "refund"}
    BY <1>1, <1>3 DEF IInv, TypeOK, Pay!TypeOK, Slots, PaySlot
  <1>5. confirmedAt[x] => payments[x] \in {"AUTHORIZED", "REFUNDED"}
                          /\ payCall[x].st = "replied" /\ payCall[x].answer = "AUTHORIZED"
    BY DEF IInv, Slots, PaySlot, Calm, CheckoutCalm, Pay!Answered
  <1>6. payments \in [Checkouts -> Pay!Statuses]
    BY DEF IInv, TypeOK, Pay!TypeOK
  <1>7. \/ payCall'[r].st # "replied" /\ payments' = payments /\ payCall[r].st # "replied"
        \/ /\ payCall[r].op = "authorize" /\ payCall'[r].st = "replied"
           /\ payCall'[r].answer \in {"AUTHORIZED", "DECLINED"}
           /\ payments' = [payments EXCEPT ![x] = payCall'[r].answer]
           /\ payments[x] = "NONE"
        \/ /\ payCall[r].op = "refund" /\ payCall'[r].st = "replied"
           /\ payments' = [payments EXCEPT ![x] = "REFUNDED"]
    <2>1. payCall[r].op = "refund" /\ payments' = payments /\ payments[x] # "AUTHORIZED" =>
            payments' = [payments EXCEPT ![x] = "REFUNDED"]
      BY <1>4, <1>5, <1>6
    <2> QED BY <1>3, <2>1, PaymentMoves
  <1>8. ASSUME NEW o \in Checkouts
        PROVE  CheckoutCalm(o)'
    <2>1. CheckoutCalm(o) /\ payCall'[o].op = payCall[o].op
      BY <1>1 DEF Calm
    <2>2. payCall[o].st = "replied" => payCall'[o] = payCall[o]
      BY <1>1, <1>2 DEF Pay!InFlight
    <2>3. ASSUME payments'[o] = "REFUNDED"
          PROVE  \E c \in Cancels : payCall'[c].op = "refund" /\ payCall'[c].order = o
      <3>1. CASE payments[o] = "REFUNDED"
        <4>1. PICK c \in Cancels : payCall[c].op = "refund" /\ payCall[c].order = o
          BY <2>1, <3>1 DEF CheckoutCalm
        <4> QED BY <1>1, <4>1
      <3>2. CASE payments[o] # "REFUNDED"
        <4>1. payCall[r].op = "refund" /\ o = x
          BY <1>6, <1>7, <2>3, <3>2
        <4> QED BY <1>1, <1>3, <1>4, <4>1
      <3> QED BY <3>1, <3>2
    <2>4. payCall'[o].op = "authorize" /\ payCall'[o].st # "replied" => payments'[o] = "NONE"
      <3>1. CASE o # r
        BY <1>1, <1>4, <1>5, <1>6, <1>7, <2>1, <3>1 DEF CheckoutCalm
      <3>2. CASE o = r
        BY <1>1, <1>4, <1>7, <2>1, <3>2 DEF CheckoutCalm
      <3> QED BY <3>1, <3>2
    <2>5. payCall'[o].op = "authorize" /\ payCall'[o].st = "replied" =>
            \/ payCall'[o].answer = "AUTHORIZED"
            \/ payCall'[o].answer = "DECLINED" /\ payments'[o] = "DECLINED"
      <3>1. CASE o # r
        BY <1>1, <1>4, <1>5, <1>6, <1>7, <2>1, <3>1 DEF CheckoutCalm
      <3>2. CASE o = r
        BY <1>1, <1>4, <1>6, <1>7, <2>1, <3>2 DEF CheckoutCalm
      <3> QED BY <3>1, <3>2
    <2> QED BY <1>2, <2>1, <2>2, <2>3, <2>4, <2>5
        DEF CheckoutCalm, Rejected, Unpaid, Inv!Replied, Pay!Answered
  <1>9. ASSUME NEW c \in Cancels
        PROVE  CancelCalm(c)'
    <2>1. CancelCalm(c) /\ payCall'[c].op = payCall[c].op /\ payCall'[c].order = payCall[c].order
      BY <1>1 DEF Calm
    <2>2. payCall[c].st = "replied" => payCall'[c].st = "replied"
      BY <1>1, <1>2 DEF Pay!InFlight
    <2>3. payCall'[c].op = "refund" /\ payCall'[c].st = "replied" =>
            payments'[target[c]] = "REFUNDED"
      <3> SUFFICES ASSUME payCall'[c].op = "refund", payCall'[c].st = "replied"
                   PROVE  payments'[target[c]] = "REFUNDED"
        OBVIOUS
      <3>1. payCall[c].op = "refund" /\ target[c] = payCall[c].order /\ target[c] \in Checkouts
        BY <2>1 DEF CancelCalm, SnapCalm
      <3>2. CASE c = r
        BY <1>3, <1>6, <1>7, <3>1, <3>2
      <3>3. CASE c # r
        <4>1. payments[target[c]] = "REFUNDED"
          BY <1>1, <2>1, <3>1, <3>3 DEF CancelCalm
        <4> QED BY <1>6, <1>7, <3>1, <4>1
      <3> QED BY <3>2, <3>3
    <2> QED BY <1>2, <2>1, <2>2, <2>3 DEF CancelCalm, SnapCalm, Inv!Replied
  <1> QED BY <1>8, <1>9 DEF Calm

\* Every step, of whatever request or service.
LEMMA CalmNext ==
  ASSUME Faults = {}, IInv, Calm, [Next]_vars
  PROVE  Calm'
  <1>1. ASSUME NEW r \in Checkouts, CheckoutLoadCart(r) \/ checkout(r)
        PROVE  Calm'
    <2>1. Aside(r)
      BY <1>1, CheckoutLoadCartKeeps, InsertOrderKeeps, InsertItemKeeps, PublishCreatedKeeps,
         CallReserveKeeps, ReserveRejectedKeeps, PublishRejectedKeeps, SaveReservationKeeps,
         CallAuthorizeKeeps, CallCompensateKeeps, MarkPaymentFailedKeeps,
         PublishPaymentFailedKeeps, ConfirmKeeps, ClearCartKeeps, PublishConfirmedKeeps
         DEF checkout
    <2> QED BY <1>1, <2>1, CheckoutCalmKept, CalmStep
  <1>2. ASSUME NEW c \in Cancels, (\E o \in Checkouts : CancelLoad(c, o)) \/ cancelOrder(c)
        PROVE  Calm'
    <2>1. Aside(c)
      BY <1>2, CancelLoadKeeps, CancelCallReleaseKeeps, CancelCallRefundKeeps, CancelMarkKeeps,
         PublishUserCancelledKeeps
         DEF cancelOrder
    <2> QED BY <1>2, <2>1, CancelCalmKept, CalmStep
  <1>3. ASSUME NEW u \in Users, NEW p \in Products, NEW q, SetLine(u, p, q)
        PROVE  Calm'
    BY <1>3 DEF Calm, CheckoutCalm, CancelCalm, SnapCalm, Rejected, Unpaid, Inv!Replied,
       Pay!Answered, SetLine
  <1>4. UserStep => Calm'
    <2>1. (\E u \in Users, p \in Products : \E q : SetLine(u, p, q)) => Calm'
      BY <1>3
    <2> QED BY <1>1, <1>2, <2>1 DEF UserStep, addCartItem, updateCartItem, removeCartItem
  <1>5. \A r \in Requests : HandlerStep(r) => Calm'
    BY <1>1, <1>2 DEF HandlerStep
  <1>6. \A r \in Requests : ~ Throw(r)
    BY DEF Throw
  <1>7. UNCHANGED vars => Calm'
    BY DEF vars, Calm, CheckoutCalm, CancelCalm, SnapCalm, Rejected, Unpaid, Inv!Replied,
       Pay!Answered
  <1> QED BY <1>4, <1>5, <1>6, <1>7, InventoryCalmKept, PaymentCalmKept DEF Next

\* A release is refused only once another has released the reservation: the stock being
\* exact, the CHECK on the reserved column does not fail before.
LEMMA RefusedNext ==
  ASSUME Faults = {}, IInv, Calm, Given, Exact, RefusedReleases, [Next]_vars
  PROVE  RefusedReleases'
  <1> SUFFICES ASSUME SingleRelease', NEW d \in Requests, invCall'[d].op = "release",
                      invCall'[d].st = "refused"
               PROVE  reservation'[invCall'[d].order] = "RELEASED"
    BY DEF RefusedReleases
  <1>1. SingleRelease
    BY SingleBefore
  <1>2. CASE UNCHANGED inventory
    BY <1>1, <1>2 DEF RefusedReleases
  <1>3. ASSUME NEW r \in Requests, invCall'[r].st = "sent",
               \A x \in Requests \ {r} : invCall'[x] = invCall[x],
               UNCHANGED reservation
        PROVE  reservation'[invCall'[d].order] = "RELEASED"
    BY <1>1, <1>3 DEF RefusedReleases
  <1>4. ASSUME NEW r \in Requests, InventoryStep(r)
        PROVE  reservation'[invCall'[d].order] = "RELEASED"
    <2>1. /\ \A x \in Requests \ {r} : invCall'[x] = invCall[x]
          /\ invCall'[r].op = invCall[r].op /\ invCall'[r].order = invCall[r].order
      BY <1>4, InventoryEffect DEF IInv, TypeOK, Slots, InventoryStep
    <2>2. PICK o \in Checkouts : invCall'[d].order = o /\ invCall[d].order = o
      BY <2>1 DEF IInv, Slots, InvSlot
    <2>3. invCall[d].op = "release"
      BY <2>1
    <2>4. reservation[o] = "RELEASED"
      <3>1. CASE d # r
        BY <1>1, <2>1, <2>2, <3>1 DEF RefusedReleases
      <3>2. CASE d = r
        <4>1. reservation[o] # "NONE"
          <5>1. resvId[o]
            <6>1. ASSUME d \in Checkouts PROVE resvId[o]
              <7>1. CheckoutPoint(d) /\ CheckoutCalm(d) /\ InvSlot(d) /\ PaySlot(d)
                BY <6>1 DEF IInv, Control, Slots, Calm
              <7>2. o = d
                BY <2>2, <2>3, <6>1, <7>1 DEF InvSlot
              <7>3. pc[d] \in {"compensating", "unpaid", "done"}
                BY <2>3, <7>1 DEF CheckoutPoint, CheckoutCalm, Unreserved, Uncharged
              <7>4. payCall[d].op \in {"none", "authorize"}
                BY <6>1, <7>1 DEF PaySlot, IInv, TypeOK, Pay!TypeOK
              <7>5. payCall[d].op = "authorize"
                BY <2>3, <7>1, <7>3, <7>4 DEF CheckoutPoint, CheckoutCalm, Rejected
              <7> QED BY <7>1, <7>2, <7>5 DEF PaySlot
            <6>2. ASSUME d \in Cancels PROVE resvId[o]
              <7>1. invCall[d].order = target[d] /\ resvId[target[d]]
                BY <2>3, <6>2 DEF Calm, CancelCalm
              <7>2. target[d] = o
                BY <2>2, <7>1
              <7> QED BY <7>1, <7>2
            <6> QED BY <6>1, <6>2
          <5> QED BY <5>1 DEF IInv, Tables, Rows
        <4>2. Inv!ReleaseRead(r) \/ Inv!ReleaseCheckFails(r)
          <5>1. Inv!Reply(r, "ok") => invCall'[r].st = "ok"
            BY InvReply DEF IInv, TypeOK
          <5> QED
            BY <1>4, <2>3, <3>2, <5>1
               DEF InventoryStep, Inv!ServiceStep, Inv!Decide, Inv!Fail, Inv!ReserveOk,
                   Inv!ReserveRefused, Inv!Reserving, Inv!ReleaseOk, Inv!ReserveAborted,
                   Inv!ReserveAckLost, Inv!ReleaseAborted, Inv!ReleaseAckLost
        <4>3. CASE Inv!ReleaseRead(r)
          <5>1. reservation[o] # "ACTIVE"
            <6>1. Inv!Reply(r, "releasing") => invCall'[r].st = "releasing"
              BY InvReply DEF IInv, TypeOK
            <6> QED BY <2>2, <3>2, <4>3, <6>1 DEF Inv!ReleaseRead
          <5> QED BY <4>1, <5>1 DEF IInv, TypeOK, Inv!TypeOK, Inv!Statuses
        <4>4. CASE Inv!ReleaseCheckFails(r)
          <5>1. PICK p \in Products : ~ (reserved[p] >= lines[o][p])
            BY <2>2, <3>2, <4>4 DEF Inv!ReleaseCheckFails, Inv!CheckHolds
          <5>2. reserved[p] = Inv!Committed(p)
            BY <1>1 DEF Exact
          <5>3. Inv!Held(p)[o] =< Inv!Committed(p)
            <6>1. Inv!Held(p) \in [Checkouts -> Nat]
              BY DEF IInv, TypeOK, Inv!TypeOK, Inv!Held, Inv!Basket
            <6>2. IsFiniteSet(Checkouts)
              BY FiniteAssumption, FS_Subset
            <6> QED BY <6>1, <6>2, SumNat, SameSum DEF Inv!Committed
          <5>4. reservation[o] # "ACTIVE"
            <6>1. reservation[o] = "ACTIVE" => Inv!Held(p)[o] = lines[o][p]
              BY DEF Inv!Held
            <6> QED BY <5>1, <5>2, <5>3, <6>1 DEF IInv, TypeOK, Inv!TypeOK, Inv!Basket
          <5> QED BY <4>1, <5>4 DEF IInv, TypeOK, Inv!TypeOK, Inv!Statuses
        <4> QED BY <4>2, <4>3, <4>4
      <3> QED BY <3>1, <3>2
    <2>5. reservation'[o] = "RELEASED"
      BY <1>4, <2>4, ServiceEffects, InventoryEffect
         DEF IInv, TypeOK, Inv!TypeOK, Slots, InventoryStep, ReserveEffect, ReleaseEffect
    <2> QED BY <2>2, <2>5
  <1> QED BY <1>2, <1>3, <1>4, LedgerStep

\* The five ways to end, one for each way the saga and the last cancellation went.
LEMMA SettledOrders ==
  ASSUME Faults = {}, IInv, Calm, Given, RefusedReleases, SingleRelease, NEW o \in Checkouts,
         Settled(o), status[o] # "NONE", NotCancelledEarly(o)
  PROVE  <<status[o], reservation[o], payments[o]>> \in
           {<<"CONFIRMED", "ACTIVE", "AUTHORIZED">>,
            <<"PAYMENT_FAILED", "RELEASED", "DECLINED">>,
            <<"CANCELLED", "NONE", "NONE">>,
            <<"CANCELLED", "RELEASED", "REFUNDED">>,
            <<"CANCELLED", "RELEASED", "DECLINED">>}
  <1>1. CheckoutCalm(o) /\ Rows(o) /\ CheckoutPoint(o) /\ InvSlot(o) /\ PaySlot(o)
    BY DEF IInv, Control, Tables, Slots, Calm, Requests
  <1>2. pc[o] = "done"
    BY <1>1 DEF Settled, Ended, CheckoutCalm
  <1>3. /\ reservation[o] \in {"NONE", "ACTIVE", "RELEASED"}
        /\ payCall[o].op \in {"none", "authorize", "refund"}
    BY DEF IInv, TypeOK, Inv!TypeOK, Inv!Statuses, Pay!TypeOK
  <1>4. ASSUME NEW c \in CancelsOf(o)
        PROVE  /\ c \in Cancels /\ target[c] = o /\ pc[c] = "done"
               /\ CancelCalm(c) /\ SnapCalm(c) /\ snap[c].status # "PENDING"
    <2>1. c \in Cancels /\ target[c] = o /\ pc[c] # "refused" /\ CancelCalm(c)
      BY DEF CancelsOf, Calm
    <2>2. pc[c] = "done"
      BY <2>1 DEF Settled, Ended, CancelCalm
    <2> QED BY <2>1, <2>2 DEF CancelCalm, NotCancelledEarly
  <1>5. CASE Rejected(o)
    <2>1. payCall[o].op = "none"
      BY <1>2, <1>5 DEF Rejected
    <2> QED BY <1>1, <1>5, <2>1 DEF CheckoutCalm, Rows
  <1>6. CASE Unpaid(o)
    <2>1. /\ status[o] \in {"PAYMENT_FAILED", "CANCELLED"} /\ payments[o] = "DECLINED"
          /\ invCall[o].op = "release" /\ invCall[o].st \in {"ok", "refused"}
      BY <1>1, <1>2, <1>6 DEF CheckoutCalm, Unpaid, Inv!Replied
    <2>2. invCall[o].order = o
      BY <1>1, <2>1 DEF InvSlot
    <2>3. reservation[o] = "RELEASED"
      BY <1>1, <2>1, <2>2 DEF InvSlot, RefusedReleases
    <2> QED BY <2>1, <2>3
  <1>7. CASE confirmedAt[o] /\ status[o] = "CONFIRMED"
    <2>1. CancelsOf(o) = {}
      BY <1>4, <1>7 DEF CancelCalm
    <2>2. reservation[o] # "RELEASED"
      <3> SUFFICES ASSUME reservation[o] = "RELEASED" PROVE FALSE
        OBVIOUS
      <3>1. PICK r \in Requests : OkRelease(r, o)
        BY DEF Given
      <3>2. r \notin Checkouts
        BY <1>1, <1>7, <3>1 DEF OkRelease, IInv, Slots, InvSlot, CheckoutCalm
      <3>3. r \in Cancels /\ target[r] = o /\ pc[r] \notin {"idle", "refused", "loaded"}
        BY <3>1, <3>2 DEF OkRelease, IInv, Control, CancelPoint, Calm, CancelCalm
      <3> QED BY <2>1, <3>3 DEF CancelsOf
    <2>3. payments[o] # "REFUNDED"
      <3> SUFFICES ASSUME payments[o] = "REFUNDED" PROVE FALSE
        OBVIOUS
      <3>1. PICK c \in Cancels : payCall[c].op = "refund" /\ payCall[c].order = o
        BY <1>1 DEF CheckoutCalm
      <3>2. target[c] = o /\ pc[c] # "refused"
        BY <3>1 DEF Calm, CancelCalm
      <3> QED BY <2>1, <3>2 DEF CancelsOf
    <2>4. reservation[o] # "NONE" /\ payments[o] \in {"AUTHORIZED", "REFUNDED"}
      BY <1>1, <1>7 DEF CheckoutCalm, Rows, PaySlot, Pay!Answered
    <2> QED BY <1>3, <1>7, <2>2, <2>3, <2>4
  <1>8. CASE confirmedAt[o] /\ status[o] = "CANCELLED"
    <2>1. PICK c \in Cancels : target[c] = o /\ pc[c] \in {"cancelled", "done"}
      BY <1>1, <1>8 DEF CheckoutCalm
    <2>2. c \in CancelsOf(o)
      BY <2>1 DEF CancelsOf
    <2>3. snap[c].status = "CONFIRMED" /\ snap[c].resvId /\ CancelCalm(c) /\ pc[c] = "done"
      BY <1>4, <1>8, <2>1, <2>2 DEF SnapCalm
    <2>4. payments[o] = "REFUNDED"
      BY <2>1, <2>3 DEF CancelCalm
    <2>5. invCall[c].op = "release" /\ invCall[c].st \in {"ok", "refused"}
      BY <2>1, <2>3 DEF CancelCalm, Inv!Replied
    <2>6. invCall[c].order = o
      BY <2>1, <2>3, <2>5 DEF CancelCalm
    <2>7. reservation[o] = "RELEASED"
      BY <2>1, <2>5, <2>6 DEF IInv, Slots, InvSlot, Requests, RefusedReleases
    <2> QED BY <1>8, <2>4, <2>7
  <1>9. Rejected(o) \/ Unpaid(o) \/ confirmedAt[o]
    BY <1>1, <1>2, <1>3 DEF Rejected, Unpaid, PaySlot
  <1>10. confirmedAt[o] => status[o] \in {"CONFIRMED", "CANCELLED"}
    BY <1>1 DEF CheckoutCalm
  <1> QED BY <1>5, <1>6, <1>7, <1>8, <1>9, <1>10

\* With no fault, an order that no cancellation read while its checkout was running ends in
\* one of the five ways the three databases agree on.
THEOREM SagaAllOrNothing ==
  ASSUME Faults = {}
  PROVE  Spec => []AllOrNothing
  <1> DEFINE J == IInv /\ Calm /\ Given /\ Exact /\ RefusedReleases
  <1>1. Init => J
    <2>1. Init => RefusedReleases
      BY DEF Init, Inv!Init, Inv!NoCall, RefusedReleases
    <2> QED BY <2>1, InitIInv, CalmInit, ExactInit
  <1>2. J /\ [Next]_vars => J'
    <2>1. "ackLost" \notin Faults
      OBVIOUS
    <2> QED BY <2>1, NextIInv, CalmNext, GivenNext, ExactNext, RefusedNext
  <1>3. J => AllOrNothing
    BY OnceIsSingle, SettledOrders DEF AllOrNothing
  <1>4. Spec => []J
    BY <1>1, <1>2, PTL DEF Spec
  <1> QED BY <1>3, <1>4, PTL

-----------------------------------------------------------------------------
(* What is proved of the two services, in the saga *)

\* The theorems of the two services, about the tables and calls of the saga.  MaxRefunds is no
\* part of them.
LedgerFacts == INSTANCE StockLedgerProofs WITH Orders <- Checkouts, Calls <- Requests
PaymentFacts == INSTANCE PaymentProofs
                  WITH Orders <- Checkouts, Calls <- Requests, MaxRefunds <- 0

\* What the theorems about the ledger assume, from the assumptions about the saga.
LEMMA LedgerAssumptions ==
  /\ InitialStock \in [Products -> Nat]
  /\ Baskets \subseteq [Products -> Nat]
  /\ NoOrder \notin Checkouts
  /\ LedgerFacts!IsFiniteSet(Checkouts)
  <1>1. IsFiniteSet(Checkouts)
    <2>1. Checkouts \in SUBSET Requests
      BY DEF Requests
    <2> QED BY <2>1, FiniteAssumption, FS_Subset
  <1>2. LedgerFacts!IsFiniteSet(Checkouts)
    BY <1>1 DEF LedgerFacts!IsFiniteSet, IsFiniteSet
  <1> QED BY <1>2, RequestAssumption, StockAssumption, QuantityAssumption DEF Baskets

\* The ledger that the theorems are about starts as the one that the saga is composed with.
LEMMA LedgerStarts == Inv!Init => LedgerFacts!Init
  BY DEF Inv!Init, Inv!EmptyBasket, Inv!NoCall,
         LedgerFacts!Init, LedgerFacts!EmptyBasket, LedgerFacts!NoCall

\* Its transactions decide and fail alike.
LEMMA LedgerServes ==
  ASSUME NEW c
  PROVE  Inv!ServiceStep(c) => LedgerFacts!ServiceStep(c)
  <1>1. Inv!ReserveOk(c) => LedgerFacts!ReserveOk(c)
    BY DEF Inv!ReserveOk, Inv!Reserving, Inv!Reserve, Inv!Reply, Inv!InFlight, Inv!EmptyBasket,
           Inv!ledgerVars, LedgerFacts!ReserveOk, LedgerFacts!Reserving, LedgerFacts!Reserve,
           LedgerFacts!Reply, LedgerFacts!InFlight, LedgerFacts!EmptyBasket,
           LedgerFacts!ledgerVars
  <1>2. Inv!ReserveRefused(c) => LedgerFacts!ReserveRefused(c)
    BY DEF Inv!ReserveRefused, Inv!Reserving, Inv!Reply, Inv!InFlight, Inv!EmptyBasket,
           Inv!ledgerVars, LedgerFacts!ReserveRefused, LedgerFacts!Reserving, LedgerFacts!Reply,
           LedgerFacts!InFlight, LedgerFacts!EmptyBasket, LedgerFacts!ledgerVars
  <1>3. Inv!ReserveAborted(c) => LedgerFacts!ReserveAborted(c)
    BY DEF Inv!ReserveAborted, Inv!Reserving, Inv!Reply, Inv!InFlight, Inv!EmptyBasket,
           Inv!ledgerVars, LedgerFacts!ReserveAborted, LedgerFacts!Reserving, LedgerFacts!Reply,
           LedgerFacts!InFlight, LedgerFacts!EmptyBasket, LedgerFacts!ledgerVars
  <1>4. Inv!ReserveAckLost(c) => LedgerFacts!ReserveAckLost(c)
    BY DEF Inv!ReserveAckLost, Inv!Reserving, Inv!Reserve, Inv!Reply, Inv!InFlight,
           Inv!EmptyBasket, Inv!ledgerVars, LedgerFacts!ReserveAckLost, LedgerFacts!Reserving,
           LedgerFacts!Reserve, LedgerFacts!Reply, LedgerFacts!InFlight,
           LedgerFacts!EmptyBasket, LedgerFacts!ledgerVars
  <1>5. Inv!ReleaseRead(c) => LedgerFacts!ReleaseRead(c)
    BY DEF Inv!ReleaseRead, Inv!Reply, Inv!InFlight, Inv!EmptyBasket, Inv!ledgerVars,
           LedgerFacts!ReleaseRead, LedgerFacts!Reply, LedgerFacts!InFlight,
           LedgerFacts!EmptyBasket, LedgerFacts!ledgerVars
  <1>6. Inv!ReleaseOk(c) => LedgerFacts!ReleaseOk(c)
    BY DEF Inv!ReleaseOk, Inv!Releasing, Inv!CheckHolds, Inv!Release, Inv!Reply, Inv!InFlight,
           Inv!EmptyBasket, Inv!ledgerVars, LedgerFacts!ReleaseOk, LedgerFacts!Releasing,
           LedgerFacts!CheckHolds, LedgerFacts!Release, LedgerFacts!Reply, LedgerFacts!InFlight,
           LedgerFacts!EmptyBasket, LedgerFacts!ledgerVars
  <1>7. Inv!ReleaseCheckFails(c) => LedgerFacts!ReleaseCheckFails(c)
    BY DEF Inv!ReleaseCheckFails, Inv!Releasing, Inv!CheckHolds, Inv!Reply, Inv!InFlight,
           Inv!EmptyBasket, Inv!ledgerVars, LedgerFacts!ReleaseCheckFails,
           LedgerFacts!Releasing, LedgerFacts!CheckHolds, LedgerFacts!Reply,
           LedgerFacts!InFlight, LedgerFacts!EmptyBasket, LedgerFacts!ledgerVars
  <1>8. Inv!ReleaseAborted(c) => LedgerFacts!ReleaseAborted(c)
    BY DEF Inv!ReleaseAborted, Inv!Releasing, Inv!Reply, Inv!InFlight, Inv!EmptyBasket,
           Inv!ledgerVars, LedgerFacts!ReleaseAborted, LedgerFacts!Releasing, LedgerFacts!Reply,
           LedgerFacts!InFlight, LedgerFacts!EmptyBasket, LedgerFacts!ledgerVars
  <1>9. Inv!ReleaseAckLost(c) => LedgerFacts!ReleaseAckLost(c)
    BY DEF Inv!ReleaseAckLost, Inv!Releasing, Inv!CheckHolds, Inv!Release, Inv!Reply,
           Inv!InFlight, Inv!EmptyBasket, Inv!ledgerVars, LedgerFacts!ReleaseAckLost,
           LedgerFacts!Releasing, LedgerFacts!CheckHolds, LedgerFacts!Release,
           LedgerFacts!Reply, LedgerFacts!InFlight, LedgerFacts!EmptyBasket,
           LedgerFacts!ledgerVars
  <1> QED BY <1>1, <1>2, <1>3, <1>4, <1>5, <1>6, <1>7, <1>8, <1>9 DEF Inv!ServiceStep,
         Inv!Decide, Inv!Fail, LedgerFacts!ServiceStep, LedgerFacts!Decide, LedgerFacts!Fail

\* Its calls are sent alike.
LEMMA LedgerIsAsked ==
  ASSUME NEW c, NEW o
  PROVE  /\ \A items : Inv!SendReserve(c, o, items) => LedgerFacts!SendReserve(c, o, items)
         /\ Inv!SendRelease(c, o) => LedgerFacts!SendRelease(c, o)
  BY DEF Inv!SendReserve, Inv!SendRelease, Inv!InFlight, Inv!EmptyBasket, Inv!ledgerVars,
         LedgerFacts!SendReserve, LedgerFacts!SendRelease, LedgerFacts!InFlight,
         LedgerFacts!EmptyBasket, LedgerFacts!ledgerVars

\* So the two are one specification.
LEMMA SameLedger == Inv!Spec => LedgerFacts!Spec
  <1>1. Inv!Next => LedgerFacts!Next
    BY LedgerServes, LedgerIsAsked DEF Inv!Next, LedgerFacts!Next
  <1>2. [Inv!Next]_(Inv!vars) => [LedgerFacts!Next]_(LedgerFacts!vars)
    <2>1. UNCHANGED Inv!vars => UNCHANGED LedgerFacts!vars
      BY DEF Inv!vars, LedgerFacts!vars
    <2> QED BY <1>1, <2>1
  <1> QED BY LedgerStarts, <1>2, PTL DEF Inv!Spec, LedgerFacts!Spec

\* Among checkouts and cancellations, units are conserved and none is reserved without an
\* ACTIVE reservation that returns it, and an ok that a handler reads is true.
THEOREM SagaStock == Spec => [](Inv!StockConserved /\ Inv!NoStrandedStock /\ Inv!OkIsTruthful)
  <1>1. ASSUME NEW f PROVE Inv!SumFunction(f) = LedgerFacts!SumFunction(f)
    BY DEF Inv!SumFunction, Inv!SumFunctionOnSet, Inv!FoldFunctionOnSet, Inv!MapThenFoldSet,
           LedgerFacts!SumFunction, LedgerFacts!SumFunctionOnSet,
           LedgerFacts!FoldFunctionOnSet, LedgerFacts!MapThenFoldSet
  <1>2. LedgerFacts!NoStrandedStock => Inv!NoStrandedStock
    BY <1>1 DEF Inv!NoStrandedStock, Inv!Committed, Inv!Held,
                LedgerFacts!NoStrandedStock, LedgerFacts!Committed, LedgerFacts!Held
  <1>3. LedgerFacts!StockConserved => Inv!StockConserved
    BY DEF Inv!StockConserved, LedgerFacts!StockConserved
  <1>4. LedgerFacts!OkIsTruthful => Inv!OkIsTruthful
    BY DEF Inv!OkIsTruthful, LedgerFacts!OkIsTruthful
  <1>5. LedgerFacts!Spec => []LedgerFacts!StockConserved
    BY LedgerAssumptions, LedgerFacts!Conservation DEF LedgerFacts!Conservation
  <1>6. LedgerFacts!Spec => []LedgerFacts!NoStrandedStock
    BY LedgerAssumptions, LedgerFacts!NothingStranded DEF LedgerFacts!NothingStranded
  <1>7. LedgerFacts!Spec => []LedgerFacts!OkIsTruthful
    BY LedgerAssumptions, LedgerFacts!Truthful DEF LedgerFacts!Truthful
  <1> QED BY <1>2, <1>3, <1>4, <1>5, <1>6, <1>7, UsesTheLedger, SameLedger, PTL

\* The handlers reach the payment service by its two calls only.
LEMMA PaymentHandlerStep ==
  ASSUME IInv, NEW r \in Requests, HandlerStep(r)
  PROVE  PaymentFacts!AnyNext \/ UNCHANGED PaymentFacts!vars
  <1>1. ASSUME NEW method \in Pay!Methods, r \in Checkouts, CallAuthorize(r, method)
        PROVE  PaymentFacts!AnyNext
    <2>1. PaymentFacts!SendAuthorize(r, r, method) /\ method \in PaymentFacts!Methods
      BY <1>1 DEF CallAuthorize, Pay!Methods, PaymentFacts!Methods, Pay!SendAuthorize,
                  Pay!InFlight, Pay!tableVars, PaymentFacts!SendAuthorize,
                  PaymentFacts!InFlight, PaymentFacts!tableVars
    <2> QED BY <1>1, <2>1 DEF PaymentFacts!AnyNext
  <1>2. CASE r \in Cancels /\ CancelCallRefund(r)
    <2>1. target[r] \in Checkouts
      BY <1>2 DEF IInv, Control, CancelPoint, CancelCallRefund, ReleasePassed
    <2>2. PaymentFacts!SendRefund(r, target[r])
      BY <1>2 DEF CancelCallRefund, Pay!SendRefund, Pay!InFlight, Pay!tableVars,
                  PaymentFacts!SendRefund, PaymentFacts!InFlight, PaymentFacts!tableVars
    <2> QED BY <2>1, <2>2 DEF PaymentFacts!AnyNext
  <1>3. CASE r \in Checkouts /\ checkout(r) /\ ~\E method \in Pay!Methods : CallAuthorize(r, method)
    <2>1. PublishCreated(r) \/ PublishConfirmed(r) => UNCHANGED <<payments, refunds, payCall>>
      BY Zenon DEF PublishCreated, PublishConfirmed
    <2>2. ASSUME ~PublishCreated(r), ~PublishConfirmed(r)
          PROVE  UNCHANGED <<payments, refunds, payCall>>
      BY <1>3, <2>2 DEF checkout, InsertOrder, InsertItem, CallReserve, ReserveRejected,
         PublishRejected, SaveReservation, CallCompensate, MarkPaymentFailed,
         PublishPaymentFailed, Confirm, ClearCart
    <2>3. UNCHANGED <<payments, refunds, payCall>>
      BY <2>1, <2>2
    <2> QED BY <2>3 DEF PaymentFacts!vars, PaymentFacts!tableVars
  <1>4. CASE r \in Cancels /\ cancelOrder(r) /\ ~CancelCallRefund(r)
    <2>1. UNCHANGED <<payments, refunds, payCall>>
      BY <1>4 DEF payment, cancelOrder, CancelCallRelease, CancelMark, PublishUserCancelled
    <2> QED BY <2>1 DEF PaymentFacts!vars, PaymentFacts!tableVars
  <1> QED BY <1>1, <1>2, <1>3, <1>4 DEF HandlerStep, checkout

\* Every step of the saga is a step or a stutter of the payment service.
LEMMA PaymentNext == IInv /\ [Next]_vars => [PaymentFacts!AnyNext]_(PaymentFacts!vars)
  <1> SUFFICES ASSUME IInv, [Next]_vars PROVE PaymentFacts!AnyNext \/ UNCHANGED PaymentFacts!vars
    OBVIOUS
  <1>1. ASSUME NEW r \in Requests, PaymentStep(r)
        PROVE  PaymentFacts!AnyNext
    <2>1. PaymentFacts!ServiceStep(r)
      BY <1>1 DEF PaymentStep,
         Pay!ServiceStep, Pay!Decide, Pay!Fail, Pay!At, Pay!Advance, Pay!Reply, Pay!InFlight,
         Pay!tableVars, Pay!chargePsp, Pay!AuthorizeLookup, Pay!InsertPayment,
         Pay!AuthorizeCharge, Pay!AuthorizeDuplicate, Pay!AuthorizeError, Pay!AuthorizeAckLost,
         Pay!RefundLookup, Pay!InsertRefund, Pay!RefundRecord, Pay!MarkRefunded,
         Pay!RefundMark, Pay!RefundError, Pay!RefundAckLost,
         PaymentFacts!ServiceStep, PaymentFacts!Decide, PaymentFacts!Fail, PaymentFacts!At,
         PaymentFacts!Advance, PaymentFacts!Reply, PaymentFacts!InFlight,
         PaymentFacts!tableVars, PaymentFacts!chargePsp, PaymentFacts!AuthorizeLookup,
         PaymentFacts!InsertPayment, PaymentFacts!AuthorizeCharge,
         PaymentFacts!AuthorizeDuplicate, PaymentFacts!AuthorizeError,
         PaymentFacts!AuthorizeAckLost, PaymentFacts!RefundLookup, PaymentFacts!InsertRefund,
         PaymentFacts!RefundRecord, PaymentFacts!MarkRefunded, PaymentFacts!RefundMark,
         PaymentFacts!RefundError, PaymentFacts!RefundAckLost
    <2> QED BY <2>1 DEF PaymentFacts!AnyNext
  <1>2. CASE UserStep
    <2>1. UNCHANGED payment
      BY <1>2 DEF payment, UserStep, addCartItem, updateCartItem, removeCartItem, SetLine,
         CheckoutLoadCart, CancelLoad
    <2> QED BY <2>1 DEF payment, PaymentFacts!vars, PaymentFacts!tableVars
  <1>3. ASSUME NEW r \in Requests, Throw(r) \/ InventoryStep(r)
        PROVE  UNCHANGED PaymentFacts!vars
    BY <1>3 DEF Throw, InventoryStep, payment, PaymentFacts!vars, PaymentFacts!tableVars
  <1>4. UNCHANGED vars => UNCHANGED PaymentFacts!vars
    BY DEF vars, payment, PaymentFacts!vars, PaymentFacts!tableVars
  <1> QED BY <1>1, <1>2, <1>3, <1>4, PaymentHandlerStep DEF Next

\* Among checkouts and cancellations, a refund is of a charge, what a handler was answered
\* about a payment stays true, and an order's payment is decided once.
THEOREM SagaPayments == Spec => /\ [](Pay!RefundsAreOfCharges /\ Pay!AnswersAreTruthful)
                                /\ Pay!ChargedOnce
  <1>1. Init => PaymentFacts!Init
    BY DEF Init, Pay!Init, Pay!NoCall, PaymentFacts!Init, PaymentFacts!NoCall
  <1>2. Spec => PaymentFacts!Unbounded
    BY <1>1, PaymentNext, Invariance, PTL DEF Spec, PaymentFacts!Unbounded
  <1>3. NoOrder \notin Checkouts /\ 0 \in Nat
    BY RequestAssumption
  <1>4. PaymentFacts!Unbounded =>
          [](PaymentFacts!RefundsAreOfCharges /\ PaymentFacts!AnswersAreTruthful)
    BY <1>3, PaymentFacts!UnboundedSound DEF PaymentFacts!UnboundedSound
  <1>5. PaymentFacts!Unbounded => PaymentFacts!ChargedOnce
    BY <1>3, PaymentFacts!UnboundedCharge DEF PaymentFacts!UnboundedCharge
  <1>6. PaymentFacts!RefundsAreOfCharges /\ PaymentFacts!AnswersAreTruthful =>
          Pay!RefundsAreOfCharges /\ Pay!AnswersAreTruthful
    BY DEF Pay!RefundsAreOfCharges, Pay!AnswersAreTruthful, Pay!Replied,
           PaymentFacts!RefundsAreOfCharges, PaymentFacts!AnswersAreTruthful,
           PaymentFacts!Replied
  <1>7. PaymentFacts!ChargedOnce => Pay!ChargedOnce
    BY DEF Pay!ChargedOnce, Pay!vars, Pay!tableVars, PaymentFacts!ChargedOnce,
           PaymentFacts!vars, PaymentFacts!tableVars
  <1> QED BY <1>2, <1>4, <1>5, <1>6, <1>7, PTL
=============================================================================
