------------------------------ MODULE OrderApi ------------------------------
(***************************************************************************)
(* The handlers of the order service as the storefront meets them behind the   *)
(* gateway: one shopper's cart and the orders made of it.  CheckoutSaga has    *)
(* what a checkout and a cancellation do inside; here a saga has an outcome.    *)
(***************************************************************************)
EXTENDS Gateway, FiniteSets

CONSTANTS Products,
          Writes,  \* requests that change something, numbered as they are sent; a checkout
                   \* gives its number to its order
          NoBody

VARIABLES cart,  \* cart_items.quantity, 0 while there is no row
          order, \* orders.status, "none" while there is no row
          body   \* what a request was answered

apiVars == <<cart, order, body>>

EmptyCart == [p \in Products |-> 0]
Statuses == {"PENDING", "CONFIRMED", "CANCELLED", "PAYMENT_FAILED"}

\* requireAuth has passed the request to its handler.
Accepted(r, o) == work[r] = "new" /\ op[r].do = o

EndWith(r, result) ==
  /\ End(r, 200)
  /\ body' = [body EXCEPT ![r] = IF leg[r] = "upstream" THEN result ELSE @]

\* Any await throws: what was done stays done.
Throws(r) ==
  /\ Working(r)
  /\ End(r, Failure)
  /\ UNCHANGED apiVars

\* The product service does not answer for a product of the cart: 404 for the cart, which
\* may just have been written, or for the checkout, which has written nothing.
fetchProductFails(r) ==
  /\ Accepted(r, "getCart") \/ Accepted(r, "checkout") \/ work[r] = "written"
  /\ cart # EmptyCart
  /\ End(r, 404)
  /\ UNCHANGED apiVars

getCart(r) ==
  /\ Accepted(r, "getCart")
  /\ EndWith(r, cart)
  /\ UNCHANGED <<cart, order>>

\* The order's row; its items and amounts are left out.
loadOrder(r) == order[op[r].order]

\* getOrder, and the one message of streamOrder.
getOrder(r) ==
  /\ \E o \in {"getOrder", "stream"} : Accepted(r, o)
  /\ EndWith(r, loadOrder(r))
  /\ UNCHANGED <<cart, order>>

\* The quantity is added to the line's.
addCartItem(w) ==
  /\ Accepted(w, "add")
  /\ cart' = [cart EXCEPT ![op[w].product] = @ + op[w].quantity]
  /\ Proceed(w, "written") /\ UNCHANGED <<order, body>>

removeCartItem(w) ==
  /\ Accepted(w, "remove")
  /\ cart' = [cart EXCEPT ![op[w].product] = 0]
  /\ Proceed(w, "written") /\ UNCHANGED <<order, body>>

buildCart(w) ==
  /\ work[w] = "written"
  /\ EndWith(w, cart)
  /\ UNCHANGED <<cart, order>>

CheckoutOfNothing(w) ==
  /\ Accepted(w, "checkout") /\ cart = EmptyCart
  /\ End(w, 409)
  /\ UNCHANGED apiVars

CheckoutStarts(w) ==
  /\ Accepted(w, "checkout") /\ cart # EmptyCart
  /\ order' = [order EXCEPT ![w] = "PENDING"]
  /\ Proceed(w, "saga") /\ UNCHANGED <<cart, body>>

SagaFails(w) ==
  /\ work[w] = "saga"
  /\ \E status \in {"CANCELLED", "PAYMENT_FAILED"} :
       order' = [order EXCEPT ![w] = status] /\ EndWith(w, status)
  /\ UNCHANGED cart

SagaConfirms(w) ==
  /\ work[w] = "saga"
  /\ order' = [order EXCEPT ![w] = "CONFIRMED"]
  /\ Proceed(w, "paid")
  /\ UNCHANGED <<cart, body>>

ClearCart(w) ==
  /\ work[w] = "paid"
  /\ cart' = EmptyCart
  /\ EndWith(w, "CONFIRMED")
  /\ UNCHANGED order

CancelTwice(w) ==
  /\ Accepted(w, "cancel") /\ loadOrder(w) = "CANCELLED"
  /\ End(w, 409)
  /\ UNCHANGED apiVars

CancelStarts(w) ==
  /\ Accepted(w, "cancel") /\ loadOrder(w) # "CANCELLED"
  /\ Proceed(w, "undoing") /\ UNCHANGED apiVars

CancelEnds(w) ==
  /\ work[w] = "undoing"
  /\ order' = [order EXCEPT ![op[w].order] = "CANCELLED"]
  /\ EndWith(w, "CANCELLED")
  /\ UNCHANGED cart

ReadStep(r) == fetchProductFails(r) \/ getCart(r) \/ getOrder(r)
WriteStep(w) ==
  \/ addCartItem(w) \/ removeCartItem(w) \/ buildCart(w)
  \/ CheckoutOfNothing(w) \/ CheckoutStarts(w) \/ SagaFails(w) \/ SagaConfirms(w) \/ ClearCart(w)
  \/ CancelTwice(w) \/ CancelStarts(w) \/ CancelEnds(w)
=============================================================================
