----------------------------- MODULE ShopPages -----------------------------
(***************************************************************************)
(* One tab of the storefront with a signed-in shopper (apps/storefront):      *)
(* product, cart, checkout and order pages over the gateway and the order       *)
(* service, with React Query's copy of the cart between them.                   *)
(*                                                                          *)
(* Writes are numbered from 1 as they are sent; the other requests, one of      *)
(* each at a time, have negative numbers.                                      *)
(***************************************************************************)
EXTENDS OrderApi

CONSTANTS InitialCart, \* the stored cart when the tab opens
          MaxOpen      \* bound: writes under way in the tab at a time

CartFetch == -1
OrderFetch == -2
OrderStream == -3
Subscriptions == {OrderFetch, OrderStream}

ASSUME RequestAssumption ==
  Writes \subseteq Nat /\ Requests = Writes \cup {CartFetch} \cup Subscriptions
ASSUME CartAssumption ==
  InitialCart \in [Products -> Nat] /\ NoBody \notin [Products -> Nat] /\ NoBody \notin Writes

VARIABLES loc,    \* the page; "product" stands for the catalog too
          shown,  \* the order of an order page
          data,   \* React Query's cart, NoBody before the first
          stale,  \* it was invalidated
          seen,   \* the status the order page shows, "none" before, "error" instead
          prev,   \* the cart a mutation of the cart page replaced
          mine,   \* writes whose page has not been left
          doubt   \* history: why the cart on display need not be the stored one

pageVars == <<loc, shown, data, stale, seen, prev, mine, doubt>>
vars == <<gatewayVars, apiVars, pageVars>>

Pending(w) == Open(w) \/ Working(w)
CartRequests == {w \in Writes : prev[w] # NoBody}

\* What the functions of api/orders.ts ask for.
fetchCart == [do |-> "getCart"]
fetchOrder(o) == [do |-> "getOrder", order |-> o]
streamOrder(o) == [do |-> "stream", order |-> o]
addToCart(p, q) == [do |-> "add", product |-> p, quantity |-> q]
removeFromCart(p) == [do |-> "remove", product |-> p]
placeOrder == [do |-> "checkout"]
cancelOrder(o) == [do |-> "cancel", order |-> o]

\* The Navbar asks for the cart as soon as the tab is open.
Init ==
  /\ op = [r \in Requests |-> IF r = CartFetch THEN fetchCart ELSE Nothing]
  /\ leg = [r \in Requests |-> IF r = CartFetch THEN "edge" ELSE "idle"]
  /\ work = [r \in Requests |-> "none"] /\ code = [r \in Requests |-> 0]
  /\ fresh = [r \in Requests |-> FALSE]
  /\ cart = InitialCart /\ order = [w \in Writes |-> "none"]
  /\ body = [r \in Requests |-> NoBody]
  /\ loc = "product" /\ shown = NoBody
  /\ data = NoBody /\ stale = FALSE
  /\ seen = "none" /\ prev = [w \in Writes |-> NoBody] /\ mine = [w \in Writes |-> FALSE]
  /\ doubt = FALSE

-----------------------------------------------------------------------------
(* Requests that leave, and requests that are not looked at any more. *)

Exchange(new, dropped, done) ==
  /\ Transmit(new, dropped, done)
  /\ body' = [r \in Requests |-> IF r \in DOMAIN new \cup dropped \cup done THEN NoBody ELSE body[r]]

None == [r \in {} |-> Nothing]
Drop(R) == Exchange(None, R, {})
Shut(w) == Exchange(None, {}, {w}) /\ prev' = [prev EXCEPT ![w] = NoBody]

-----------------------------------------------------------------------------
(* Moving between pages. *)

\* A mounted observer fetches a cart that is missing, invalidated or older than staleTime,
\* unless a fetch is under way.
WantsCart(page, aged) ==
  page \in {"cart", "checkout"} /\ ~Open(CartFetch) /\ (data = NoBody \/ stale \/ aged)

\* The page opens, unless it is the one that is open, with a fetch of the cart or without.
\* An order page asks for its order and subscribes to it; what the page before subscribed
\* to is closed.
Enter(page, o, fetch, done) ==
  LET same == loc = page /\ shown = o
      subscribed == IF page = "order" THEN Subscriptions ELSE {}
      new == (IF fetch THEN {CartFetch} ELSE {}) \cup (IF same THEN {} ELSE subscribed)
  IN  /\ loc' = page /\ shown' = o
      /\ seen' = IF same THEN seen ELSE "none"
      /\ mine' = [w \in Writes |-> mine[w] /\ same /\ w \notin done]
      /\ Exchange([r \in new |-> CASE r = CartFetch -> fetchCart
                                   [] r = OrderFetch -> fetchOrder(o)
                                   [] r = OrderStream -> streamOrder(o)],
                  IF same THEN {} ELSE Subscriptions, done)

\* Bound: the link of an order is followed when nothing about the cart is under way, with
\* which an order page shares nothing.
Visit(page, o) ==
  /\ IF page = "order"
     THEN /\ o # NoBody /\ order[o] # "none"
          /\ \A r \in Requests : Open(r) => op[r].do \in {"getOrder", "stream", "cancel"}
     ELSE o = NoBody
  /\ page # loc \/ o # shown
  /\ \E aged \in BOOLEAN :
       /\ Enter(page, o, WantsCart(page, aged), {})
       /\ doubt' = (doubt \/ (WantsCart(page, aged) /\ \E w \in CartRequests : Open(w)))
  /\ UNCHANGED <<cart, order, data, stale, prev>>

-----------------------------------------------------------------------------
(* Answers of reads. *)

CartArrives ==
  /\ leg[CartFetch] = "answered" /\ code[CartFetch] = 200
  /\ data' = body[CartFetch] /\ stale' = FALSE
  \* The cart on display is the stored one again, if nothing is going on.
  /\ doubt' = (doubt /\ ~(body[CartFetch] = cart /\ \A w \in Writes : ~Pending(w)))
  /\ Drop({CartFetch})
  /\ UNCHANGED <<cart, order, loc, shown, seen, prev, mine>>

\* Mutant: every error but a conflict is retried.
ResendAny(r) ==
  /\ leg[r] = "answered" /\ code[r] \in {401, Failure} /\ HasToken(r)
  /\ leg' = [leg EXCEPT ![r] = "edge"]
  /\ work' = [work EXCEPT ![r] = "none"]
  /\ code' = [code EXCEPT ![r] = 0]
  /\ fresh' = [fresh EXCEPT ![r] = TRUE]
  /\ UNCHANGED <<op, apiVars, pageVars>>

\* api(): a 401 refreshes the token and sends the request once more.
Resend(r) ==
  /\ leg[r] = "answered" /\ code[r] = 401 /\ HasToken(r)
  /\ leg' = [leg EXCEPT ![r] = "edge"]
  /\ code' = [code EXCEPT ![r] = 0]
  /\ fresh' = [fresh EXCEPT ![r] = TRUE]
  /\ UNCHANGED <<op, work, apiVars, pageVars>>

\* The error goes to the caller, that of a 401 when the refresh is refused too.
Failed(r) == leg[r] = "answered" /\ code[r] # 200

\* retry: 1, not counted.
CartFails ==
  /\ Failed(CartFetch)
  /\ Exchange([x \in {CartFetch} |-> op[CartFetch]], {}, {}) \/ Drop({CartFetch})
  /\ UNCHANGED <<cart, order, loc, shown, data, stale, seen, prev, mine, doubt>>

OrderArrives ==
  /\ leg[OrderFetch] = "answered"
  /\ \/ code[OrderFetch] = 200 /\ seen' = body[OrderFetch]
     \/ Failed(OrderFetch) /\ seen' = "error"
  /\ Drop({OrderFetch})
  /\ UNCHANGED <<cart, order, loc, shown, data, stale, prev, mine, doubt>>

\* onmessage shows what the stream brings; its end or refusal closes it.
StreamEnds ==
  /\ leg[OrderStream] = "answered"
  /\ seen' = IF code[OrderStream] = 200 /\ seen # "error" THEN body[OrderStream] ELSE seen
  /\ Drop({OrderStream})
  /\ UNCHANGED <<cart, order, loc, shown, data, stale, prev, mine, doubt>>

-----------------------------------------------------------------------------
(* Clicks. *)

\* A write leaves, and what is dropped is not waited for.
Send(w, request, dropped, doubtful) ==
  /\ leg[w] = "idle" /\ \A v \in Writes : v < w => leg[v] # "idle"
  /\ Cardinality({v \in Writes : Open(v)}) < MaxOpen
  /\ Exchange([x \in {w} |-> request], dropped, {})
  /\ mine' = [mine EXCEPT ![w] = TRUE]
  /\ doubt' = (doubt \/ doubtful \/ \E v \in Writes : Pending(v))
  /\ UNCHANGED <<cart, order, loc, shown, seen>>

\* The page's button is disabled while its own request is under way.
Ready(o) == \A w \in Writes : mine[w] /\ op[w].do = o => ~Open(w)

ClickAdd(w, p) ==
  /\ loc = "product" /\ Ready("add")
  /\ Send(w, addToCart(p, 1), {}, FALSE)
  /\ UNCHANGED <<data, stale, prev>>

\* Mutant: a line that was stepped down to nothing stays on the page.
LinesUnfiltered == IF data = NoBody THEN {} ELSE Products

\* The lines of the cart page.
Lines == IF data = NoBody THEN {} ELSE {p \in Products : data[p] > 0}

\* QuantityStepper: one less or one more than the quantity on display, down to 0.
Stepped(p) == {data[p] - 1, data[p] + 1}

\* Mutant: cancelQueries is left out.
ClickStepUncancelled(w, p) ==
  /\ loc = "cart" /\ p \in Lines
  /\ \E q \in Stepped(p) :
       /\ Send(w, IF q = 0 THEN removeFromCart(p) ELSE addToCart(p, q), {}, stale)
       /\ data' = [data EXCEPT ![p] = q]
  /\ prev' = [prev EXCEPT ![w] = data]
  /\ stale' = FALSE

\* updateMutation: the line shows the new quantity at once.  The fetch under way is
\* cancelled; the quantity is sent as an addition, or the line is removed.
ClickStep(w, p) ==
  /\ loc = "cart" /\ p \in Lines
  /\ \E q \in Stepped(p) :
       /\ Send(w, IF q = 0 THEN removeFromCart(p) ELSE addToCart(p, q), {CartFetch}, stale)
       /\ data' = [data EXCEPT ![p] = q]
  /\ prev' = [prev EXCEPT ![w] = data]
  /\ stale' = FALSE

ClickCheckout(w) ==
  /\ loc = "checkout" /\ Lines # {} /\ Ready("checkout")
  /\ Send(w, placeOrder, {}, FALSE)
  /\ UNCHANGED <<data, stale, prev>>

ClickCancel(w) ==
  /\ loc = "order" /\ seen \in {"PENDING", "CONFIRMED"} /\ Ready("cancel")
  /\ Send(w, cancelOrder(shown), {}, FALSE)
  /\ UNCHANGED <<data, stale, prev>>

-----------------------------------------------------------------------------
(* Answers of writes. *)

Done(w) == leg[w] = "answered" /\ code[w] = 200

\* addMutation: the cart is invalidated, and fetched anew.  A first fetch that is still
\* under way is not: React Query cancels none that has no data yet.
AddDone(w) ==
  /\ Done(w) /\ op[w].do = "add" /\ w \notin CartRequests
  /\ LET kept == Open(CartFetch) /\ data = NoBody
     IN  /\ stale' = (data # NoBody)
         /\ Enter("cart", NoBody, ~kept, {w})
         /\ doubt' = (doubt \/ kept)
  /\ UNCHANGED <<cart, order, data, prev>>

\* The quantities of the answer are not looked at.
StepDone(w) ==
  /\ Done(w) /\ w \in CartRequests
  /\ Shut(w)
  /\ mine' = [mine EXCEPT ![w] = FALSE]
  /\ doubt' = (doubt \/ op[w].do = "add")
  /\ UNCHANGED <<cart, order, loc, shown, data, stale, seen>>

\* Whatever became of the order, the cart on display is emptied and the order shown.
CheckoutDone(w) ==
  /\ Done(w) /\ op[w].do = "checkout"
  /\ data' = EmptyCart /\ stale' = FALSE
  /\ Enter("order", w, FALSE, {w})
  /\ doubt' = (doubt \/ body[w] # "CONFIRMED" \/ Open(CartFetch))
  /\ UNCHANGED <<cart, order, prev>>

\* The page shows the order as cancelled, if it is still there.
CancelDone(w) ==
  /\ Done(w) /\ op[w].do = "cancel"
  /\ seen' = IF mine[w] THEN body[w] ELSE seen
  /\ Shut(w)
  /\ mine' = [mine EXCEPT ![w] = FALSE]
  /\ UNCHANGED <<cart, order, loc, shown, data, stale, doubt>>

\* An error: a mutation of the cart page puts back the cart it replaced.
WriteFails(w) ==
  /\ Failed(w) /\ Shut(w)
  /\ mine' = [mine EXCEPT ![w] = FALSE]
  /\ data' = IF w \in CartRequests THEN prev[w] ELSE data
  /\ stale' = (stale /\ w \notin CartRequests)
  /\ doubt' = (doubt \/ Begun(w) \/ Working(w))
  /\ UNCHANGED <<cart, order, loc, shown, seen>>

-----------------------------------------------------------------------------
GatewayStep ==
  /\ \E r \in Requests : EdgeStep(r) \/ GiveUp(r)
  /\ UNCHANGED <<apiVars, pageVars>>

ServiceStep ==
  /\ \/ \E r \in Requests : Throws(r) \/ ReadStep(r)
     \/ \E w \in Writes : WriteStep(w)
  /\ UNCHANGED pageVars

Click ==
  \/ \E page \in {"product", "cart", "checkout", "order"}, o \in Writes \cup {NoBody} : Visit(page, o)
  \/ \E w \in Writes : ClickCheckout(w) \/ ClickCancel(w)
  \/ \E w \in Writes, p \in Products : ClickAdd(w, p) \/ ClickStep(w, p)

\* What the page does about the answer of a write.
Answered(w) ==
  AddDone(w) \/ StepDone(w) \/ CheckoutDone(w) \/ CancelDone(w) \/ WriteFails(w)

BrowserStep ==
  \/ CartArrives \/ CartFails \/ OrderArrives \/ StreamEnds
  \/ \E r \in Requests : Resend(r)
  \/ \E w \in Writes : Answered(w)

Next == GatewayStep \/ ServiceStep \/ Click \/ BrowserStep

\* The gateway's own steps, its timer included, and the callbacks of the page are sure to
\* happen: the services may hang, and the shopper owes nothing.
Fairness == \A w \in Writes :
  /\ WF_vars((EdgeStep(w) \/ GiveUp(w)) /\ UNCHANGED <<apiVars, pageVars>>)
  /\ WF_vars(Resend(w) \/ Answered(w))

Spec == Init /\ [][Next]_vars
FairSpec == Spec /\ Fairness

-----------------------------------------------------------------------------
(* Properties *)

Carts == [Products -> Nat]

\* Every variable has a value of its type; only an order page shows an order's status.
TypeOK ==
  /\ GatewayTypeOK
  /\ cart \in Carts /\ order \in [Writes -> Statuses \cup {"none"}]
  /\ loc \in {"product", "cart", "checkout", "order"}
  /\ data = NoBody \/ data \in Carts
  /\ loc = "order" <=> shown # NoBody
  /\ seen \in Statuses \cup {"none", "error"} /\ (loc # "order" => seen = "none")

Quiet == ~Open(CartFetch) /\ \A w \in Writes : ~Pending(w)

\* React Query's cart ("mutations invalidate precisely"): once nothing is under way, the cart
\* that the pages take for current is the stored one - unless, since it last was,
\*   a write was sent while another was under way or was given up with its handler working,
\*   a write that had begun was answered with an error,
\*   a quantity was stepped: the absolute number is sent to the handler that adds,
\*   a quantity was stepped while the fetch after an addition was awaited, which ends it,
\*   a checkout emptied the cart on display although the order was not confirmed, or
\*   a fetch crossed an addition, a checkout or a step that it should have followed.
FreshCartIsStored == Quiet /\ data # NoBody /\ ~stale /\ ~doubt => data = cart

\* A 401 or a 409 means that nothing was done: no handler wrote, or still works, for a
\* request that was refused, whatever else the gateway gave up on.
RefusalsAreClean ==
  \A w \in Writes : code[w] \in {401, 409} => ~Begun(w) /\ ~Working(w)

\* api() "retries once": no click is sent again once its handler has run, so that no product
\* is added twice and no cart ordered twice by a retry of the storefront's own.
SentAgainUntouched == [][
  \A w \in Writes : leg[w] = "answered" /\ leg'[w] = "edge" => ~Begun(w) /\ ~Working(w)]_vars

\* OrderTracking: while its page stays, an order that was shown as cancelled is not shown as
\* anything else.  It takes the stream's refusal for it: an event read before the
\* cancellation could arrive after its answer.
CancelSticks == [][seen = "CANCELLED" /\ loc' = "order" /\ shown' = shown => seen' = "CANCELLED"]_vars

\* proxyTimeout ("a dead upstream must be a clean 502, never a hung socket"): every click's
\* request is answered and its button enabled again, even if its handler never ends.
ClicksEnd == \A w \in Writes : Open(w) ~> leg[w] = "done"
=============================================================================
