---------------------------- MODULE CheckoutSaga ----------------------------
(***************************************************************************)
(* The order service (apps/order-service): the cart, the checkout saga and  *)
(* the user's cancellation, composed with what the inventory service         *)
(* promises (StockLedger) and with the payment service (Payment).            *)
(*                                                                          *)
(* A handler runs from one await to the next: its pc names the await it is   *)
(* at, and each SQL statement, publish and gRPC call is a step of its own.   *)
(* Any two requests interleave between steps, and a thrown error ends a      *)
(* request with a 500 and no compensation.                                  *)
(*                                                                          *)
(* Each checkout request inserts one order, so an order is named by the      *)
(* request that made it.  A handler's local variables are read back from     *)
(* where they were fixed: cartRows is want, the row loadOrder returned is    *)
(* snap, and the reply a handler awaited stays in its slot of invCall or     *)
(* payCall until its next call.                                             *)
(***************************************************************************)
EXTENDS Integers, FiniteSets

CONSTANTS Users,
          Products,
          Checkouts,    \* POST /checkout requests, and the orders they insert
          Cancels,      \* POST /orders/:id/cancel requests
          Caller,       \* the authenticated user of each request
          NoOrder,      \* the order of a cancel that has not loaded one
          MaxQty,       \* bound on the quantity of a cart line
          InitialStock, \* units in stock at the start
          Faults        \* "abort", "ackLost": of the database, see the services
                        \* "throw": a handler of the order service dies at an await

Requests == Checkouts \cup Cancels

ASSUME RequestAssumption == Checkouts \cap Cancels = {} /\ NoOrder \notin Checkouts
ASSUME FiniteAssumption == IsFiniteSet(Requests)
ASSUME CallerAssumption == Caller \in [Requests -> Users]
ASSUME QuantityAssumption == MaxQty \in Nat \ {0}
ASSUME StockAssumption == InitialStock \in [Products -> Nat]

VARIABLES cart,         \* cart_items.quantity per user, 0 for an absent line
          status,       \* orders.status, "NONE" while the row is absent
          orderItems,   \* order_items.quantity per order
          resvId,       \* orders.reservation_id IS NOT NULL
          payId,        \* orders.payment_id is set and not the empty string
          confirmedAt,  \* orders.confirmed_at IS NOT NULL
          events,       \* events handed to the publisher
          pc,           \* where each request is
          want,         \* cartRows of a checkout
          target,       \* the order a cancel loaded
          snap,         \* raw, the row a cancel loaded
          available, reserved, reservation, lines, invCall, \* StockLedger
          payments, refunds, payCall                        \* Payment

Baskets == [Products -> 0..MaxQty]
NoItems == [p \in Products |-> 0]

Inv == INSTANCE StockLedger
         WITH Orders <- Checkouts, Calls <- Requests, Baskets <- Baskets
Pay == INSTANCE Payment
         WITH Orders <- Checkouts, Calls <- Requests, MaxRefunds <- 0

orderRow == <<status, resvId, payId, confirmedAt>>
orderTables == <<cart, orderItems, orderRow>>
locals == <<want, target, snap>>
inventory == <<available, reserved, reservation, lines, invCall>>
payment == <<payments, refunds, payCall>>
vars == <<orderTables, events, pc, locals, inventory, payment>>

OrderStatuses == {"NONE", "PENDING", "CONFIRMED", "CANCELLED", "PAYMENT_FAILED"}
NoSnap == [status |-> "NONE", resvId |-> FALSE, payId |-> FALSE]

Init ==
  /\ cart = [u \in Users |-> NoItems]
  /\ status = [o \in Checkouts |-> "NONE"]
  /\ orderItems = [o \in Checkouts |-> NoItems]
  /\ resvId = [o \in Checkouts |-> FALSE]
  /\ payId = [o \in Checkouts |-> FALSE]
  /\ confirmedAt = [o \in Checkouts |-> FALSE]
  /\ events = {}
  /\ pc = [r \in Requests |-> "idle"]
  /\ want = [o \in Checkouts |-> NoItems]
  /\ target = [c \in Cancels |-> NoOrder]
  /\ snap = [c \in Cancels |-> NoSnap]
  /\ Inv!Init
  /\ Pay!Init

Goto(r, here, there) == pc[r] = here /\ pc' = [pc EXCEPT ![r] = there]

-----------------------------------------------------------------------------
(* The cart: POST, PATCH and DELETE of /cart/items; each is one statement. *)

SetLine(u, p, q) ==
  /\ cart' = [cart EXCEPT ![u][p] = q]
  /\ UNCHANGED <<orderItems, orderRow, events, pc, locals, inventory, payment>>

\* INSERT ... ON CONFLICT DO UPDATE SET quantity = cart_items.quantity + $3
addCartItem(u, p, q) ==
  /\ cart[u][p] + q =< MaxQty
  /\ SetLine(u, p, cart[u][p] + q)

\* Quantity 0 deletes the line; another quantity needs a line, or is a 404.
updateCartItem(u, p, q) ==
  /\ q = 0 \/ cart[u][p] > 0
  /\ SetLine(u, p, q)

\* Mutant: the button takes one unit off instead of the line.
removeCartItemByOne(u, p) == SetLine(u, p, cart[u][p] - 1)

removeCartItem(u, p) == SetLine(u, p, 0)

-----------------------------------------------------------------------------
(* POST /checkout *)

\* SELECT ... FROM cart_items; an empty cart is a 409.
CheckoutLoadCart(r) ==
  LET rows == cart[Caller[r]]
  IN  /\ IF rows = NoItems THEN Goto(r, "idle", "refused") ELSE Goto(r, "idle", "loaded")
      /\ want' = [want EXCEPT ![r] = rows]
      /\ UNCHANGED <<orderTables, events, target, snap, inventory, payment>>

InsertOrder(r) ==
  /\ Goto(r, "loaded", "items")
  /\ status' = [status EXCEPT ![r] = "PENDING"]
  /\ UNCHANGED <<cart, orderItems, resvId, payId, confirmedAt, events, locals, inventory, payment>>

\* One INSERT INTO order_items, no transaction around the loop.
InsertItem(r, p) ==
  /\ pc[r] = "items"
  /\ orderItems[r][p] # want[r][p]
  /\ orderItems' = [orderItems EXCEPT ![r][p] = want[r][p]]
  /\ UNCHANGED <<cart, orderRow, events, pc, locals, inventory, payment>>

\* A best-effort publish: without a broker, or after a swallowed error, the event is
\* lost and the saga goes on all the same, so that what arrives is a part of events.
Publish(type, o, reason) ==
  events' = events \cup {[type |-> type, order |-> o, reason |-> reason]}

PublishCreated(r) ==
  /\ orderItems[r] = want[r]
  /\ Goto(r, "items", "created")
  /\ Publish("order.created", r, "")
  /\ UNCHANGED <<orderTables, locals, inventory, payment>>

CallReserve(r) ==
  /\ Goto(r, "created", "reserving")
  /\ Inv!SendReserve(r, r, want[r])
  /\ UNCHANGED <<orderTables, events, locals, payment>>

\* reservation.ok is false: UPDATE orders SET status = 'CANCELLED'.
ReserveRejected(r) ==
  /\ Goto(r, "reserving", "rejected")
  /\ invCall[r].st = "refused"
  /\ status' = [status EXCEPT ![r] = "CANCELLED"]
  /\ UNCHANGED <<cart, orderItems, resvId, payId, confirmedAt, events, locals, inventory, payment>>

PublishRejected(r) ==
  /\ Goto(r, "rejected", "done")
  /\ Publish("order.cancelled", r, "INVENTORY_REJECTED")
  /\ UNCHANGED <<orderTables, locals, inventory, payment>>

\* Mutant: reservation.ok is not looked at.
SaveReservationUnchecked(r) ==
  /\ Goto(r, "reserving", "reserved")
  /\ Inv!Replied(r)
  /\ resvId' = [resvId EXCEPT ![r] = TRUE]
  /\ UNCHANGED <<cart, orderItems, status, payId, confirmedAt, events, locals, inventory, payment>>

SaveReservation(r) ==
  /\ Goto(r, "reserving", "reserved")
  /\ invCall[r].st = "ok"
  /\ resvId' = [resvId EXCEPT ![r] = TRUE]
  /\ UNCHANGED <<cart, orderItems, status, payId, confirmedAt, events, locals, inventory, payment>>

CallAuthorize(r, method) ==
  /\ Goto(r, "reserved", "authorizing")
  /\ Pay!SendAuthorize(r, r, method)
  /\ UNCHANGED <<orderTables, events, locals, inventory>>

\* Mutant: the compensation is forgotten.
CallCompensateSkipped(r) ==
  /\ Goto(r, "authorizing", "compensating")
  /\ Pay!Replied(r)
  /\ payCall[r].answer # "AUTHORIZED"
  /\ UNCHANGED <<orderTables, events, locals, inventory, payment>>

\* payment.ok is false: the compensation, ReleaseReservation.
CallCompensate(r) ==
  /\ Goto(r, "authorizing", "compensating")
  /\ Pay!Replied(r)
  /\ payCall[r].answer # "AUTHORIZED"
  /\ Inv!SendRelease(r, r)
  /\ UNCHANGED <<orderTables, events, locals, payment>>

\* Mutant: the order is marked only after a release that answered ok.
MarkPaymentFailedIfReleased(r) ==
  /\ Goto(r, "compensating", "unpaid")
  /\ invCall[r].st = "ok"
  /\ status' = [status EXCEPT ![r] = "PAYMENT_FAILED"]
  /\ payId' = [payId EXCEPT ![r] = payCall[r].answer # "ERROR"]
  /\ UNCHANGED <<cart, orderItems, resvId, confirmedAt, events, locals, inventory, payment>>

\* Whatever the release answered: UPDATE ... 'PAYMENT_FAILED', payment_id.
MarkPaymentFailed(r) ==
  /\ Goto(r, "compensating", "unpaid")
  /\ Inv!Replied(r)
  /\ status' = [status EXCEPT ![r] = "PAYMENT_FAILED"]
  /\ payId' = [payId EXCEPT ![r] = payCall[r].answer # "ERROR"]
  /\ UNCHANGED <<cart, orderItems, resvId, confirmedAt, events, locals, inventory, payment>>

PublishPaymentFailed(r) ==
  /\ Goto(r, "unpaid", "done")
  /\ Publish("order.cancelled", r, "PAYMENT_FAILED")
  /\ UNCHANGED <<orderTables, locals, inventory, payment>>

\* Mutant: payment.ok is not looked at.
ConfirmAnyAnswer(r) ==
  /\ Goto(r, "authorizing", "confirmed")
  /\ Pay!Replied(r)
  /\ status' = [status EXCEPT ![r] = "CONFIRMED"]
  /\ payId' = [payId EXCEPT ![r] = TRUE]
  /\ confirmedAt' = [confirmedAt EXCEPT ![r] = TRUE]
  /\ UNCHANGED <<cart, orderItems, resvId, events, locals, inventory, payment>>

\* Mutant: confirmed_at is left out of the UPDATE.
ConfirmUnstamped(r) ==
  /\ Goto(r, "authorizing", "confirmed")
  /\ Pay!Answered(r, "authorize", "AUTHORIZED")
  /\ status' = [status EXCEPT ![r] = "CONFIRMED"]
  /\ payId' = [payId EXCEPT ![r] = TRUE]
  /\ UNCHANGED <<cart, orderItems, resvId, confirmedAt, events, locals, inventory, payment>>

\* UPDATE ... 'CONFIRMED', payment_id, confirmed_at, whatever the status is by now.
Confirm(r) ==
  /\ Goto(r, "authorizing", "confirmed")
  /\ Pay!Answered(r, "authorize", "AUTHORIZED")
  /\ status' = [status EXCEPT ![r] = "CONFIRMED"]
  /\ payId' = [payId EXCEPT ![r] = TRUE]
  /\ confirmedAt' = [confirmedAt EXCEPT ![r] = TRUE]
  /\ UNCHANGED <<cart, orderItems, resvId, events, locals, inventory, payment>>

\* DELETE FROM cart_items: the whole cart, as it is by now.
ClearCart(r) ==
  /\ Goto(r, "confirmed", "cleared")
  /\ cart' = [cart EXCEPT ![Caller[r]] = NoItems]
  /\ UNCHANGED <<orderItems, orderRow, events, locals, inventory, payment>>

PublishConfirmed(r) ==
  /\ Goto(r, "cleared", "done")
  /\ Publish("order.confirmed", r, "")
  /\ UNCHANGED <<orderTables, locals, inventory, payment>>

checkout(r) ==
  \/ InsertOrder(r)
  \/ \E p \in Products : InsertItem(r, p)
  \/ PublishCreated(r)
  \/ CallReserve(r)
  \/ ReserveRejected(r)
  \/ PublishRejected(r)
  \/ SaveReservation(r)
  \/ \E method \in Pay!Methods : CallAuthorize(r, method)
  \/ CallCompensate(r)
  \/ MarkPaymentFailed(r)
  \/ PublishPaymentFailed(r)
  \/ Confirm(r)
  \/ ClearCart(r)
  \/ PublishConfirmed(r)

-----------------------------------------------------------------------------
(* POST /orders/:id/cancel *)

\* loadOrder: another user's order is a 404; a CANCELLED one is a 409.
CancelLoad(c, o) ==
  /\ status[o] # "NONE"
  /\ Caller[o] = Caller[c]
  /\ IF status[o] = "CANCELLED" THEN Goto(c, "idle", "refused") ELSE Goto(c, "idle", "loaded")
  /\ target' = [target EXCEPT ![c] = o]
  /\ snap' = [snap EXCEPT ![c] = [status |-> status[o], resvId |-> resvId[o], payId |-> payId[o]]]
  /\ UNCHANGED <<orderTables, events, want, inventory, payment>>

CancelCallRelease(c) ==
  /\ Goto(c, "loaded", "releasing")
  /\ snap[c].resvId
  /\ Inv!SendRelease(c, target[c])
  /\ UNCHANGED <<orderTables, events, locals, payment>>

\* Mutant: the cancellation goes on only after a release that answered ok.
ReleasePassedIfOk(c) ==
  \/ pc[c] = "loaded" /\ ~snap[c].resvId
  \/ pc[c] = "releasing" /\ invCall[c].st = "ok"

\* Past the release: none was needed, or it answered, whatever it answered.
ReleasePassed(c) ==
  \/ pc[c] = "loaded" /\ ~snap[c].resvId
  \/ pc[c] = "releasing" /\ Inv!Replied(c)

\* Mutant: the refund follows the reservation instead of the CONFIRMED status.
RefundDueIfReserved(c) == snap[c].resvId

RefundDue(c) == snap[c].payId /\ snap[c].status = "CONFIRMED"

CancelCallRefund(c) ==
  /\ ReleasePassed(c)
  /\ RefundDue(c)
  /\ pc' = [pc EXCEPT ![c] = "refunding"]
  /\ Pay!SendRefund(c, target[c])
  /\ UNCHANGED <<orderTables, events, locals, inventory>>

\* UPDATE orders SET status = 'CANCELLED', whatever the status is by now.
CancelMark(c) ==
  /\ \/ ReleasePassed(c) /\ ~RefundDue(c)
     \/ pc[c] = "refunding" /\ Pay!Replied(c)
  /\ pc' = [pc EXCEPT ![c] = "cancelled"]
  /\ status' = [status EXCEPT ![target[c]] = "CANCELLED"]
  /\ UNCHANGED <<cart, orderItems, resvId, payId, confirmedAt, events, locals, inventory, payment>>

PublishUserCancelled(c) ==
  /\ Goto(c, "cancelled", "done")
  /\ Publish("order.cancelled", target[c], "USER_CANCELLED")
  /\ UNCHANGED <<orderTables, locals, inventory, payment>>

cancelOrder(c) ==
  \/ CancelCallRelease(c)
  \/ CancelCallRefund(c)
  \/ CancelMark(c)
  \/ PublishUserCancelled(c)

-----------------------------------------------------------------------------
Ended == {"done", "refused", "failed"}

\* A statement, a fetch or a gRPC call rejects, or the process dies: errorHandler
\* answers 500, and nothing that was done is undone.
Throw(r) ==
  /\ "throw" \in Faults
  /\ pc[r] \notin Ended \cup {"idle"}
  /\ pc' = [pc EXCEPT ![r] = "failed"]
  /\ UNCHANGED <<orderTables, events, locals, inventory, payment>>

\* A service works on the calls it has not answered.
InventoryStep(r) ==
  /\ Inv!InFlight(r)
  /\ Inv!ServiceStep(r)
  /\ UNCHANGED <<orderTables, events, pc, locals, payment>>

PaymentStep(r) ==
  /\ Pay!InFlight(r)
  /\ Pay!ServiceStep(r)
  /\ UNCHANGED <<orderTables, events, pc, locals, inventory>>

UserStep ==
  \/ \E u \in Users, p \in Products :
       \/ \E q \in 1..MaxQty : addCartItem(u, p, q)
       \/ \E q \in 0..MaxQty : updateCartItem(u, p, q)
       \/ removeCartItem(u, p)
  \/ \E r \in Checkouts : CheckoutLoadCart(r)
  \/ \E c \in Cancels, o \in Checkouts : CancelLoad(c, o)

HandlerStep(r) ==
  \/ r \in Checkouts /\ checkout(r)
  \/ r \in Cancels /\ cancelOrder(r)

Next ==
  \/ UserStep
  \/ \E r \in Requests : HandlerStep(r) \/ Throw(r) \/ InventoryStep(r) \/ PaymentStep(r)

\* A started handler goes on, and both services decide; no fault is owed to anybody.
Fairness ==
  \A r \in Requests :
    /\ WF_vars(HandlerStep(r))
    /\ WF_vars(InventoryStep(r) /\ Inv!Decide(r))
    /\ WF_vars(PaymentStep(r) /\ Pay!Decide(r))

Spec == Init /\ [][Next]_vars
FairSpec == Spec /\ Fairness

-----------------------------------------------------------------------------
(* Properties that hold under every fault and interleaving *)

PCs == Ended \cup {"idle", "loaded", "items", "created", "reserving", "rejected", "reserved",
                   "authorizing", "compensating", "unpaid", "confirmed", "cleared",
                   "releasing", "refunding", "cancelled"}
Events == [type : {"order.created", "order.confirmed", "order.cancelled"}, order : Checkouts,
           reason : {"", "INVENTORY_REJECTED", "PAYMENT_FAILED", "USER_CANCELLED"}]

\* Every variable holds a value of its column's, message's or local's type.
TypeOK ==
  /\ cart \in [Users -> Baskets]
  /\ status \in [Checkouts -> OrderStatuses]
  /\ orderItems \in [Checkouts -> Baskets]
  /\ resvId \in [Checkouts -> BOOLEAN]
  /\ payId \in [Checkouts -> BOOLEAN]
  /\ confirmedAt \in [Checkouts -> BOOLEAN]
  /\ events \subseteq Events
  /\ pc \in [Requests -> PCs]
  /\ want \in [Checkouts -> Baskets]
  /\ target \in [Cancels -> Checkouts \cup {NoOrder}]
  /\ snap \in [Cancels -> [status : OrderStatuses, resvId : BOOLEAN, payId : BOOLEAN]]
  /\ Inv!TypeOK
  /\ Pay!TypeOK

\* "Orders are never CONFIRMED without an authorized payment" (ARCHITECTURE.md 5): the
\* step that confirms an order finds its payment AUTHORIZED, not declined, not yet
\* refunded, whatever cancellations ran between the authorization and the UPDATE.
ConfirmOnlyAuthorized ==
  [][\A o \in Checkouts : status'[o] = "CONFIRMED" /\ status[o] # "CONFIRMED" =>
       payments[o] = "AUTHORIZED"]_vars

\* A payment row exists only for an order whose exact items were reserved first and
\* whose reservation the order service knows, so that a cancellation can return it.
ChargedOnlyIfReserved ==
  \A o \in Checkouts : payments[o] # "NONE" =>
    /\ reservation[o] # "NONE"
    /\ lines[o] = orderItems[o]
    /\ resvId[o]

\* Money is returned only for an order that was confirmed: the saga's own failures
\* never refund, and a cancellation refunds only on a CONFIRMED row it has read.
RefundedOnlyIfConfirmed ==
  \A o \in Checkouts : refunds[o] > 0 \/ payments[o] = "REFUNDED" => confirmedAt[o]

\* "Stock is never left reserved on failure" (ARCHITECTURE.md 102), as far as it goes for an
\* order whose payment failed: it holds stock only when its own release was sent and refused,
\* whose answer the saga does not look at.  A lost authorization, a handler that dies and
\* a cancellation under way leave no other PAYMENT_FAILED order with an ACTIVE reservation.
HeldOnlyIfReleaseFailed ==
  \A o \in Checkouts : status[o] = "PAYMENT_FAILED" /\ reservation[o] = "ACTIVE" =>
    /\ invCall[o].op = "release"
    /\ invCall[o].st = "refused"

\* The events of an order, whichever of them arrive, tell one story: it is not both
\* confirmed and failed by the saga, and none precedes the row that it tells of.
EventsTellOneStory ==
  \A e \in events :
    /\ status[e.order] # "NONE"
    /\ e.type = "order.confirmed" => confirmedAt[e.order]
    /\ e.reason \in {"INVENTORY_REJECTED", "PAYMENT_FAILED"} => ~confirmedAt[e.order]
    /\ e.reason = "INVENTORY_REJECTED" => payments[e.order] = "NONE"
    /\ e.reason = "PAYMENT_FAILED" => resvId[e.order] /\ payments[e.order] # "REFUNDED"

-----------------------------------------------------------------------------
(* How orders and requests end *)

CancelsOf(o) == {c \in Cancels : target[c] = o /\ pc[c] # "refused"}

\* No request is at work on the order any more.
Settled(o) ==
  /\ pc[o] \in Ended
  /\ \A c \in CancelsOf(o) : pc[c] \in Ended

\* No cancellation read the order while its checkout was still running.
NotCancelledEarly(o) == \A c \in CancelsOf(o) : snap[c].status # "PENDING"

\* The call was answered ok, or may have taken effect: a lost answer reads as refused.
TookEffect(r) ==
  \/ invCall[r].st = "ok"
  \/ invCall[r].st = "refused" /\ "ackLost" \in Faults

Releases(o) == {r \in Requests : /\ invCall[r].op = "release"
                                 /\ invCall[r].order = o
                                 /\ TookEffect(r)}

\* No reservation was given back to the stock by two releases.
ReleasedOnce == \A o \in Checkouts : Cardinality(Releases(o)) =< 1

\* Two releases of one reservation that overlap are the only leak: without them the
\* reserved column is what the ACTIVE reservations hold, to the unit, through every
\* interleaving of checkouts, compensations and cancellations and every fault.
StockExact == ReleasedOnce => \A p \in Products : reserved[p] = Inv!Committed(p)

\* A call made for the order failed, or looks to its caller as if it had: a handler died,
\* the payment service threw, a release was refused, or a reserve that took effect was
\* answered ok: false.
CallFailed(o) ==
  /\ Faults # {}
  /\ \/ \E r \in {o} \cup CancelsOf(o) :
          \/ pc[r] = "failed"
          \/ payCall[r].answer = "ERROR"
          \/ invCall[r].op = "release" /\ invCall[r].st = "refused"
     \/ invCall[o].op = "reserve" /\ invCall[o].st = "refused" /\ reservation[o] # "NONE"

\* The saga is all or nothing: an order nobody cancelled early, and none of whose own calls
\* failed, ends in one of five ways, and the three databases agree on which.
AllOrNothing ==
  ReleasedOnce =>
    \A o \in Checkouts :
      Settled(o) /\ status[o] # "NONE" /\ NotCancelledEarly(o) /\ ~CallFailed(o) =>
        <<status[o], reservation[o], payments[o]>> \in
          {<<"CONFIRMED", "ACTIVE", "AUTHORIZED">>,
           <<"PAYMENT_FAILED", "RELEASED", "DECLINED">>,
           <<"CANCELLED", "NONE", "NONE">>,
           <<"CANCELLED", "RELEASED", "REFUNDED">>,
           <<"CANCELLED", "RELEASED", "DECLINED">>}

\* Every request the order service starts is answered, although transactions of the
\* inventory service and statements of the payment service fail or lose their COMMIT's
\* answer, as long as every call of the handler itself returns.
RequestsEnd == \A r \in Requests : pc[r] # "idle" ~> pc[r] \in Ended

\* No order stays PENDING: a refusal, a failed transaction or statement of a service, a lost
\* answer to a COMMIT or a release that fails still lead the saga to one of its terminal
\* states.  A call of the handler that rejects (Throw) does leave the order PENDING.
PendingResolves == \A o \in Checkouts : status[o] = "PENDING" ~> status[o] # "PENDING"

-----------------------------------------------------------------------------
(* What the documents say and the code does not do *)

\* "Any reserved stock has been released and any authorized payment refunded" is
\* shown for a CANCELLED order.  A cancellation that read the order PENDING, with
\* nothing to undo yet, marks it CANCELLED after the checkout paid and confirmed it.
CancelledIsUndone ==
  \A o \in Checkouts : status[o] = "CANCELLED" /\ Settled(o) =>
    reservation[o] # "ACTIVE" /\ payments[o] # "AUTHORIZED"
=============================================================================
