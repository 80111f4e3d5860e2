--------------------------- MODULE ShopPagesProofs ---------------------------
(***************************************************************************)
(* What one tab of the storefront shows and does for any products, clicks    *)
(* and bounds: nothing was done for a request that was refused, no click is   *)
(* sent again once its handler has run, a cancelled order stays cancelled on  *)
(* its page, and a cart that is taken for current is the stored one.          *)
(*                                                                          *)
(* The last relates React Query's copy to a row that handlers change behind   *)
(* the gateway.  While there is no doubt, one write at most is pending; the    *)
(* inductive invariant (Certain) says what the copy, the answer of the fetch   *)
(* under way and the stored cart are to each other at each of its points.     *)
(***************************************************************************)
EXTENDS ShopPages, TLAPS

-----------------------------------------------------------------------------
(* The inductive invariant *)

Places == {"none", "new", "written", "saga", "paid", "undoing", "ended"}
Deeds == {"none", "add", "remove", "checkout", "cancel"}

Types ==
  /\ leg \in [Requests -> {"idle", "edge", "upstream", "answered", "done"}]
  /\ work \in [Requests -> Places]
  /\ code \in [Requests -> {0, 200, 401, 404, 409, Failure}]
  /\ fresh \in [Requests -> BOOLEAN]
  /\ DOMAIN op = Requests /\ DOMAIN body = Requests
  /\ cart \in Carts /\ order \in [Writes -> Statuses \cup {"none"}]
  /\ loc \in {"product", "cart", "checkout", "order"} /\ shown \in Writes \cup {NoBody}
  /\ data \in Carts \cup {NoBody} /\ stale \in BOOLEAN
  /\ seen \in Statuses \cup {"none", "error"}
  /\ prev \in [Writes -> Carts \cup {NoBody}] /\ mine \in [Writes -> BOOLEAN]
  /\ doubt \in BOOLEAN

\* The gateway: a handler runs for a request that was let through, and for no other.
GateSound(r) ==
  /\ leg[r] \in {"idle", "edge"} => work[r] = "none"
  /\ leg[r] # "answered" => code[r] = 0
  /\ code[r] \in {401, 409} => work[r] = "none"

\* What a write asks for, and where its handler can be.
WriteSound(w) ==
  /\ op[w].do \in Deeds
  /\ op[w].do \in {"add", "remove"} => op[w].product \in Products
  /\ op[w].do = "add" => op[w].quantity \in Nat
  /\ op[w].do = "cancel" => op[w].order \in Writes
  /\ work[w] = "written" => op[w].do \in {"add", "remove"}
  /\ work[w] \in {"saga", "paid"} => op[w].do = "checkout"
  /\ work[w] = "undoing" => op[w].do = "cancel"
  /\ code[w] = 200 => work[w] = "ended"
  /\ code[w] = 200 /\ op[w].do = "cancel" => body[w] = "CANCELLED"

\* The reads, which nothing works on but their own handlers.
ReadsSound ==
  /\ op[CartFetch].do \in {"none", "getCart"}
  /\ code[CartFetch] = 200 => body[CartFetch] \in Carts
  /\ op[OrderFetch].do \in {"none", "getOrder"}
  /\ op[OrderFetch].do = "getOrder" => op[OrderFetch].order \in Writes
  /\ code[OrderFetch] = 200 => body[OrderFetch] \in Statuses \cup {"none"}
  /\ op[OrderStream].do \in {"none", "stream"}
  /\ leg[OrderStream] # "idle" => op[OrderStream].do = "stream"
  /\ leg[OrderStream] # "upstream" /\ code[OrderStream] # 200
  /\ work[CartFetch] \in {"none", "new"} /\ work[OrderFetch] \in {"none", "new"}
  /\ work[OrderStream] = "none"
  /\ leg[CartFetch] # "done" /\ leg[OrderFetch] # "done"

\* The order page: its status was answered to it, or to a click on it.
PageSound ==
  /\ loc = "order" <=> shown # NoBody
  /\ loc # "order" => seen = "none"
  /\ leg[OrderFetch] # "idle" => loc = "order" /\ seen = "none"
  /\ \A w \in Writes : mine[w] /\ op[w].do = "cancel" => seen # "none"

\* A mutation of the cart page is under way until it is answered.
StepSound(w) ==
  prev[w] # NoBody => Open(w) /\ op[w].do \in {"add", "remove"}

\* What is known of the carts while there is no doubt.
Stepping(w) == w \in CartRequests /\ Pending(w)
OnePending == \A v, w \in Writes : Pending(v) /\ Pending(w) => v = w
Harmless(w) == Pending(w) => w \notin CartRequests /\ (~Begun(w) \/ op[w].do = "cancel")
FetchRight == code[CartFetch] = 200 => body[CartFetch] = cart
DataRight == data # NoBody /\ ~stale => data = cart

StepRight(w) ==
  Stepping(w) =>
    /\ ~Open(CartFetch) /\ ~stale
    /\ ~Begun(w) => cart = prev[w]
    /\ op[w].do = "remove" =>
         data = [prev[w] EXCEPT ![op[w].product] = 0] /\ (Begun(w) => cart = data)

CheckoutRight(w) ==
  code[w] = 200 /\ op[w].do = "checkout" /\ body[w] = "CONFIRMED" => cart = EmptyCart

Certain ==
  ~doubt =>
    /\ OnePending
    /\ (\A w \in Writes : Harmless(w)) => FetchRight /\ DataRight
    /\ \A w \in Writes : StepRight(w) /\ CheckoutRight(w)
    /\ \A w \in Writes : leg[w] = "done" => ~Working(w)

IInv ==
  /\ Types
  /\ \A r \in Requests : GateSound(r)
  /\ \A w \in Writes : WriteSound(w) /\ StepSound(w)
  /\ ReadsSound
  /\ PageSound
  /\ Certain

-----------------------------------------------------------------------------
(* Requests *)

\* The writes have their numbers, and the other requests have none of them.
LEMMA Names ==
  /\ CartFetch \notin Writes /\ OrderFetch \notin Writes /\ OrderStream \notin Writes
  /\ CartFetch # OrderFetch /\ CartFetch # OrderStream /\ OrderFetch # OrderStream
  /\ Subscriptions = {OrderFetch, OrderStream}
  /\ Requests = Writes \cup {CartFetch, OrderFetch, OrderStream}
  /\ NoBody \notin Writes /\ NoBody \notin Carts
  BY RequestAssumption, CartAssumption DEF CartFetch, OrderFetch, OrderStream, Subscriptions, Carts

GatewayTypes ==
  /\ leg \in [Requests -> {"idle", "edge", "upstream", "answered", "done"}]
  /\ work \in [Requests -> Places]
  /\ code \in [Requests -> {0, 200, 401, 404, 409, Failure}]
  /\ fresh \in [Requests -> BOOLEAN]
  /\ DOMAIN op = Requests /\ DOMAIN body = Requests

\* What an exchange may do to a request.
SentAs(r, request) ==
  op'[r] = request /\ leg'[r] = "edge" /\ work'[r] = "none" /\ code'[r] = 0
Forgotten(r) ==
  op'[r] = Nothing /\ leg'[r] = "idle" /\ work'[r] = "none" /\ code'[r] = 0
Ended(r) ==
  /\ leg'[r] = "done" /\ code'[r] = 0
  /\ Working(r) => work'[r] = work[r] /\ op'[r] = op[r]
  /\ ~Working(r) => work'[r] = "none" /\ op'[r] = Nothing
Same(r) ==
  /\ op'[r] = op[r] /\ leg'[r] = leg[r] /\ work'[r] = work[r] /\ code'[r] = code[r]
  /\ body'[r] = body[r]

\* What an exchange does to each request.
LEMMA ExchangeAt ==
  ASSUME GatewayTypes, NEW new, NEW dropped, NEW done, Exchange(new, dropped, done)
  PROVE  /\ GatewayTypes'
         /\ \A r \in Requests :
              /\ r \in DOMAIN new => SentAs(r, new[r])
              /\ r \in dropped \ DOMAIN new => Forgotten(r)
              /\ r \in done \ (dropped \cup DOMAIN new) => Ended(r)
              /\ r \notin DOMAIN new \cup dropped \cup done => Same(r)
  <1>1. /\ Transmit(new, dropped, done)
        /\ body' = [r \in Requests |->
                      IF r \in DOMAIN new \cup dropped \cup done THEN NoBody ELSE body[r]]
    BY DEF Exchange
  <1>2. ASSUME NEW r \in Requests
        PROVE  /\ r \in DOMAIN new => SentAs(r, new[r])
               /\ r \in dropped \ DOMAIN new => Forgotten(r)
               /\ r \in done \ (dropped \cup DOMAIN new) => Ended(r)
               /\ r \notin DOMAIN new \cup dropped \cup done => Same(r)
    <2>1. CASE r \in DOMAIN new
      BY <1>1, <2>1 DEF Transmit, SentAs
    <2>2. CASE r \in dropped \ DOMAIN new
      BY <1>1, <2>2 DEF Transmit, Forgotten
    <2>3. CASE r \in done \ (dropped \cup DOMAIN new)
      BY <1>1, <2>3 DEF Transmit, Ended
    <2>4. CASE r \notin DOMAIN new \cup dropped \cup done
      BY <1>1, <2>4 DEF Transmit, Same
    <2> QED BY <2>1, <2>2, <2>3, <2>4
  <1>3. ASSUME NEW r \in Requests
        PROVE  /\ leg'[r] \in {"idle", "edge", "upstream", "answered", "done"}
               /\ work'[r] \in Places /\ code'[r] \in {0, 200, 401, 404, 409, Failure}
    BY <1>2 DEF GatewayTypes, Places, SentAs, Forgotten, Ended, Same
  <1>4. ASSUME NEW r \in Requests
        PROVE  fresh'[r] \in BOOLEAN
    <2>1. CASE r \in DOMAIN new
      BY <1>1, <2>1 DEF Transmit
    <2>2. CASE r \in dropped \ DOMAIN new
      BY <1>1, <2>2 DEF Transmit
    <2>3. CASE r \in done \ (dropped \cup DOMAIN new)
      BY <1>1, <2>3 DEF Transmit
    <2>4. CASE r \notin DOMAIN new \cup dropped \cup done
      BY <1>1, <2>4 DEF Transmit, GatewayTypes
    <2> QED BY <2>1, <2>2, <2>3, <2>4
  <1>5. GatewayTypes'
    <2>1. /\ DOMAIN leg' = Requests /\ DOMAIN work' = Requests /\ DOMAIN code' = Requests
          /\ DOMAIN fresh' = Requests /\ DOMAIN op' = Requests /\ DOMAIN body' = Requests
      BY <1>1 DEF Transmit
    <2>2. /\ leg' = [r \in Requests |-> leg'[r]] /\ work' = [r \in Requests |-> work'[r]]
          /\ code' = [r \in Requests |-> code'[r]] /\ fresh' = [r \in Requests |-> fresh'[r]]
      BY <1>1 DEF Transmit
    <2> QED BY <1>3, <1>4, <2>1, <2>2 DEF GatewayTypes
  <1> QED BY <1>2, <1>5

\* The gateway and the handlers of the service find every request as it should be.
LEMMA ExchangeSound ==
  ASSUME NEW r, GateSound(r),
         Same(r) \/ Forgotten(r) \/ Ended(r) \/ (\E request : SentAs(r, request))
  PROVE  /\ GateSound(r)'
         /\ WriteSound(r) /\ (Same(r) \/ Forgotten(r) \/ Ended(r)) => WriteSound(r)'
  <1>1. GateSound(r)'
    BY DEF GateSound, Same, Forgotten, Ended, SentAs
  <1>2. ASSUME WriteSound(r), Same(r) \/ Forgotten(r)
        PROVE  WriteSound(r)'
    BY <1>2 DEF WriteSound, Same, Forgotten, Nothing, Deeds
  <1>3. ASSUME WriteSound(r), Ended(r)
        PROVE  WriteSound(r)'
    <2>1. CASE Working(r)
      BY <1>3, <2>1 DEF WriteSound, Ended
    <2>2. CASE ~Working(r)
      BY <1>3, <2>2 DEF WriteSound, Ended, Nothing, Deeds
    <2> QED BY <2>1, <2>2
  <1> QED BY <1>1, <1>2, <1>3

-----------------------------------------------------------------------------
(* Every step of the gateway and of the services keeps the invariant *)

\* A step with one request, which the pages do not see, keeps what is said of the others.
LEMMA OneMoves ==
  ASSUME IInv, NEW r \in Requests, UNCHANGED pageVars, Types',
         \A q \in Requests \ {r} : Same(q),
         GateSound(r)', r \in Writes => WriteSound(r)', ReadsSound', Certain',
         op'[r] = op[r] \/ (leg[r] = "done" /\ op'[r] = Nothing),
         Open(r)' = Open(r), leg'[r] = "idle" <=> leg[r] = "idle"
  PROVE  IInv'
  <1>1. ASSUME NEW q \in Requests
        PROVE  GateSound(q)'
    BY DEF IInv, GateSound, Same
  <1>2. ASSUME NEW w \in Writes
        PROVE  WriteSound(w)'
    BY Names DEF IInv, WriteSound, Same
  <1>3. ASSUME NEW w \in Writes
        PROVE  StepSound(w)'
    <2>1. CASE w = r
      <3>1. Open(r) => op'[r] = op[r]
        BY DEF Open, InFlight
      <3> QED BY <2>1, <3>1 DEF IInv, StepSound, pageVars
    <2>2. CASE w # r
      BY <2>2, Names DEF IInv, StepSound, Same, Open, InFlight, pageVars
    <2> QED BY <2>1, <2>2
  <1>4. PageSound'
    <2>1. \A w \in Writes : op'[w].do = "cancel" => op[w].do = "cancel"
      BY Names DEF Same, Nothing
    <2>2. leg'[OrderFetch] = "idle" <=> leg[OrderFetch] = "idle"
      BY Names DEF Same
    <2> QED BY <2>1, <2>2 DEF IInv, PageSound, pageVars
  <1> QED BY <1>1, <1>2, <1>3, <1>4 DEF IInv

\* While nothing is written to the cart and no other write begins, what is certain stays so.
LEMMA CertainQuiet ==
  ASSUME IInv, NEW r \in Requests, UNCHANGED pageVars, cart' = cart,
         \A q \in Requests \ {r} : Same(q),
         ~doubt =>
           /\ op'[r] = op[r] /\ Open(r)' = Open(r) /\ Pending(r)' = Pending(r)
           /\ Begun(r)' = Begun(r) \/ (op[r].do = "cancel" /\ Begun(r)')
           /\ leg'[r] = "done" => ~Working(r)',
         r \in Writes /\ code'[r] = 200 /\ op[r].do = "checkout" /\ body'[r] = "CONFIRMED" =>
           code[r] = 200 /\ body[r] = "CONFIRMED",
         r = CartFetch /\ code'[r] = 200 =>
           body'[r] = cart \/ (code[r] = 200 /\ body'[r] = body[r])
  PROVE  Certain'
  <1> SUFFICES ASSUME ~doubt
               PROVE  /\ OnePending'
                      /\ (\A w \in Writes : Harmless(w)') => FetchRight' /\ DataRight'
                      /\ \A w \in Writes : StepRight(w)' /\ CheckoutRight(w)'
                      /\ \A w \in Writes : leg'[w] = "done" => ~Working(w)'
    BY DEF Certain, pageVars
  <1>1. ASSUME NEW q \in Requests, q # r
        PROVE  /\ op'[q] = op[q] /\ Open(q)' = Open(q) /\ Pending(q)' = Pending(q)
               /\ Begun(q)' = Begun(q) /\ Working(q)' = Working(q) /\ leg'[q] = leg[q]
    BY <1>1 DEF Same, Open, InFlight, Pending, Working, Begun
  <1>2. \A q \in Requests :
          /\ op'[q] = op[q] /\ Open(q)' = Open(q) /\ Pending(q)' = Pending(q)
          /\ Begun(q)' = Begun(q) \/ (op[q].do = "cancel" /\ Begun(q)')
    BY <1>1
  <1>3. OnePending'
    BY <1>2, Names DEF IInv, Certain, OnePending
  <1>4. ASSUME \A w \in Writes : Harmless(w)'
        PROVE  FetchRight' /\ DataRight'
    <2>1. CartRequests' = CartRequests
      BY DEF CartRequests, pageVars
    <2>2. \A w \in Writes : Harmless(w)
      BY <1>2, <1>4, <2>1, Names DEF Harmless
    <2>3. FetchRight /\ DataRight
      BY <2>2 DEF IInv, Certain
    <2>4. FetchRight'
      BY <2>3, Names DEF FetchRight, Same
    <2> QED BY <2>3, <2>4 DEF DataRight, pageVars
  <1>5. ASSUME NEW w \in Writes
        PROVE  StepRight(w)'
    <2>1. StepRight(w) /\ StepSound(w)
      BY DEF IInv, Certain
    <2> SUFFICES ASSUME Stepping(w)'
                 PROVE  StepRight(w)'
      BY DEF StepRight
    <2>2. Stepping(w) /\ op[w].do # "cancel" /\ prev'[w] = prev[w] /\ data' = data /\ stale' = stale
      BY <1>2, <2>1, Names DEF Stepping, CartRequests, StepSound, pageVars
    <2>3. Open(CartFetch)' = Open(CartFetch) /\ Begun(w)' = Begun(w) /\ op'[w] = op[w]
      BY <1>2, <2>2, Names
    <2> QED BY <2>1, <2>2, <2>3 DEF StepRight
  <1>6. ASSUME NEW w \in Writes
        PROVE  CheckoutRight(w)'
    BY <1>2, Names DEF IInv, Certain, CheckoutRight, Same
  <1>7. \A w \in Writes : leg'[w] = "done" => ~Working(w)'
    BY <1>1, Names DEF IInv, Certain
  <1> QED BY <1>3, <1>4, <1>5, <1>6, <1>7

\* A write that has begun is alone while there is no doubt, and nothing is claimed of the
\* cart but what is known of this write.
LEMMA CertainWrite ==
  ASSUME IInv, NEW w \in Writes, UNCHANGED pageVars, \A q \in Requests \ {w} : Same(q),
         Working(w), Begun(w)', op[w].do # "cancel",
         ~doubt => /\ op'[w] = op[w] /\ Open(w)' /\ StepRight(w)' /\ CheckoutRight(w)'
  PROVE  Certain'
  <1> SUFFICES ASSUME ~doubt
               PROVE  /\ OnePending'
                      /\ (\A v \in Writes : Harmless(v)') => FetchRight' /\ DataRight'
                      /\ \A v \in Writes : StepRight(v)' /\ CheckoutRight(v)'
                      /\ \A v \in Writes : leg'[v] = "done" => ~Working(v)'
    BY DEF Certain, pageVars
  <1>1. ASSUME NEW v \in Writes, v # w
        PROVE  ~Pending(v) /\ ~Pending(v)' /\ ~Open(v)'
    <2>1. Pending(v)' = Pending(v) /\ Open(v)' = Open(v)
      BY <1>1, Names DEF Same, Pending, Open, InFlight, Working
    <2>2. ~Pending(v)
      BY <1>1 DEF IInv, Certain, OnePending, Pending
    <2> QED BY <2>1, <2>2 DEF Pending
  <1>2. OnePending'
    BY <1>1 DEF OnePending
  <1>3. ~Harmless(w)'
    BY DEF Harmless, Pending
  <1>4. ASSUME NEW v \in Writes
        PROVE  StepRight(v)' /\ CheckoutRight(v)'
    <2>1. CASE v # w
      <3>1. code'[v] = code[v] /\ code[v] # 200
        BY <1>1, <2>1, Names DEF IInv, GateSound, Same, Open, InFlight
      <3> QED BY <1>1, <2>1, <3>1 DEF StepRight, Stepping, CheckoutRight
    <2> QED BY <2>1
  <1>5. ASSUME NEW v \in Writes, leg'[v] = "done"
        PROVE  ~Working(v)'
    BY <1>1, <1>5 DEF Open, InFlight, Pending
  <1> QED BY <1>2, <1>3, <1>4, <1>5

\* A request at the gateway is refused, given up on, let through, or sent once more.
LEMMA GatewayKeeps ==
  ASSUME IInv, NEW r \in Requests,
         \/ (EdgeStep(r) \/ GiveUp(r)) /\ UNCHANGED <<apiVars, pageVars>>
         \/ Resend(r)
  PROVE  IInv'
  <1>1. /\ Types /\ UNCHANGED <<op, cart, order, body, pageVars>>
        /\ \A q \in Requests \ {r} : Same(q)
    BY DEF IInv, Types, EdgeStep, TooMany, Unauthorized, UpstreamDown, Forward, GiveUp, AnswerWith,
           Resend, Same, apiVars
  <1>2. PICK l \in {"edge", "upstream", "answered"}, s \in {0, 401, Failure},
             k \in {"none", "new"}, b \in BOOLEAN :
          /\ leg' = [leg EXCEPT ![r] = l] /\ code' = [code EXCEPT ![r] = s]
          /\ fresh' = [fresh EXCEPT ![r] = b]
          /\ work' = work \/ (work' = [work EXCEPT ![r] = k] /\ k = "new" /\ s = 0)
    <2>1. CASE Forward(r)
      <3>1. code' = code /\ code[r] = 0 /\ code = [code EXCEPT ![r] = 0]
        BY <1>1, <2>1 DEF IInv, Types, GateSound, Forward
      <3> QED BY <2>1, <3>1 DEF Forward
    <2>2. CASE Resend(r)
      BY <2>2 DEF Resend
    <2>3. CASE TooMany(r) \/ Unauthorized(r) \/ UpstreamDown(r) \/ GiveUp(r)
      BY <2>3 DEF TooMany, Unauthorized, UpstreamDown, GiveUp, AnswerWith
    <2> QED BY <2>1, <2>2, <2>3 DEF EdgeStep
  <1>3. Open(r) /\ leg'[r] = l /\ code'[r] = s /\ Open(r)'
    BY <1>1, <1>2 DEF Types, EdgeStep, TooMany, Unauthorized, UpstreamDown, Forward, GiveUp, Resend,
           Open, InFlight
  <1>4. Types'
    BY <1>1, <1>2 DEF Types, Places, Failure, pageVars
  <1>5. /\ Begun(r)' = Begun(r) /\ work'[r] \in {work[r], "new"}
        /\ work[r] = "none" \/ work'[r] = work[r]
    <2>1. CASE Forward(r)
      BY <1>1, <2>1 DEF IInv, Types, GateSound, Forward, Begun
    <2>2. CASE ~Forward(r)
      BY <1>1, <2>2 DEF EdgeStep, TooMany, Unauthorized, UpstreamDown, GiveUp, AnswerWith, Resend, Begun
    <2> QED BY <2>1, <2>2
  <1>6. GateSound(r)'
    BY <1>1 DEF IInv, Types, GateSound, EdgeStep, TooMany, Unauthorized, UpstreamDown, Forward, GiveUp,
           AnswerWith, Resend, Failure
  <1>7. r \in Writes => WriteSound(r)'
    BY <1>1, <1>3, <1>5 DEF IInv, WriteSound, Failure
  <1>8. ReadsSound'
    <2>1. r = OrderStream => leg'[r] = "answered" /\ work' = work
      <3> SUFFICES ASSUME r = OrderStream
                   PROVE  leg'[r] = "answered" /\ work' = work
        OBVIOUS
      <3>1. ~HasToken(r) /\ leg[r] # "upstream"
        BY <1>3 DEF IInv, ReadsSound, HasToken, Open, InFlight
      <3> QED BY <1>1, <3>1
          DEF Types, EdgeStep, TooMany, Unauthorized, UpstreamDown, Forward, GiveUp, AnswerWith, Resend
    <2>2. \A q \in Requests : code'[q] = 200 => code[q] = 200
      BY <1>1, <1>2 DEF Types, Failure
    <2>3. /\ \A q \in {CartFetch, OrderFetch} : work'[q] \in {"none", "new"}
          /\ work'[OrderStream] = "none"
      BY <1>1, <1>5, <2>1, Names DEF IInv, ReadsSound, Same
    <2>4. /\ leg'[OrderStream] # "upstream" /\ leg'[CartFetch] # "done" /\ leg'[OrderFetch] # "done"
          /\ leg'[OrderStream] # "idle" => leg[OrderStream] # "idle"
      BY <1>1, <1>2, <1>3, <2>1, Names DEF IInv, ReadsSound, Same, Open, InFlight
    <2> QED BY <1>1, <2>2, <2>3, <2>4, Names DEF IInv, ReadsSound
  <1>9. Certain'
    <2>1. Pending(r)' = Pending(r) /\ leg'[r] # "done" /\ code'[r] # 200
      BY <1>3 DEF Pending, Failure
    <2> QED BY <1>1, <1>3, <1>5, <2>1, CertainQuiet
  <1>10. leg'[r] # "idle" /\ leg[r] # "idle"
    BY <1>3 DEF Open, InFlight
  <1> QED BY <1>1, <1>3, <1>4, <1>6, <1>7, <1>8, <1>9, <1>10, OneMoves

\* What the end of a handler does to its request.
LEMMA EndAt ==
  ASSUME Types, NEW r \in Requests, NEW status \in {200, 404, 409, Failure}, End(r, status)
  PROVE  /\ leg' \in [Requests -> {"idle", "edge", "upstream", "answered", "done"}]
         /\ work' \in [Requests -> Places]
         /\ code' \in [Requests -> {0, 200, 401, 404, 409, Failure}]
         /\ fresh' \in [Requests -> BOOLEAN] /\ DOMAIN op' = Requests
         /\ work'[r] = IF leg[r] # "done" /\ Begun(r) THEN "ended" ELSE "none"
         /\ leg'[r] = IF leg[r] = "upstream" THEN "answered" ELSE leg[r]
         /\ code'[r] = IF leg[r] = "upstream" THEN status ELSE code[r]
         /\ op'[r] = IF leg[r] = "done" THEN Nothing ELSE op[r]
         /\ \A q \in Requests \ {r} :
              op'[q] = op[q] /\ leg'[q] = leg[q] /\ work'[q] = work[q] /\ code'[q] = code[q]
  BY DEF Types, End, Places

\* The end of a handler, whatever it did to the tables.
LEMMA EndKeeps ==
  ASSUME IInv, NEW r \in Requests, NEW status \in {200, 404, 409, Failure}, Working(r),
         End(r, status), UNCHANGED pageVars, DOMAIN body' = Requests,
         \A q \in Requests \ {r} : body'[q] = body[q],
         cart' \in Carts, order' \in [Writes -> Statuses \cup {"none"}],
         status = 409 => ~Begun(r),
         r \in Writes /\ status = 200 =>
           Begun(r) /\ (op[r].do = "cancel" /\ leg[r] = "upstream" => body'[r] = "CANCELLED"),
         r \notin Writes => ReadsSound',
         Certain'
  PROVE  IInv'
  <1>1. Types
    BY DEF IInv
  <1>2. \A q \in Requests \ {r} : Same(q)
    BY <1>1, EndAt DEF Same
  <1>3. Types'
    BY <1>1, EndAt DEF Types, pageVars
  <1>4. leg[r] \in {"upstream", "answered", "done"}
    BY DEF IInv, Types, GateSound, Working
  <1>5. GateSound(r)'
    BY <1>1, <1>4, EndAt DEF IInv, GateSound, Working, Failure
  <1>6. r \in Writes => WriteSound(r)'
    BY <1>1, <1>4, EndAt DEF IInv, GateSound, WriteSound, Working, Deeds, Nothing, Failure
  <1>7. r \in Writes => ReadsSound'
    BY <1>2, Names DEF IInv, ReadsSound, Same
  <1>8. /\ Open(r)' = Open(r) /\ (leg'[r] = "idle" <=> leg[r] = "idle")
        /\ op'[r] = op[r] \/ (leg[r] = "done" /\ op'[r] = Nothing)
    BY <1>1, <1>4, EndAt DEF Open, InFlight
  <1> QED BY <1>2, <1>3, <1>5, <1>6, <1>7, <1>8, OneMoves

\* A handler that ends without writing to the cart leaves what is certain as it is.
LEMMA EndCertain ==
  ASSUME IInv, NEW r \in Requests, NEW status \in {200, 404, 409, Failure}, Working(r),
         End(r, status), UNCHANGED pageVars, cart' = cart,
         \A q \in Requests \ {r} : body'[q] = body[q],
         leg[r] # "upstream" => body'[r] = body[r],
         status = 200 /\ r \in Writes /\ leg[r] = "upstream" /\ op[r].do = "checkout" =>
           body'[r] # "CONFIRMED",
         status = 200 /\ r = CartFetch /\ leg[r] = "upstream" => body'[r] = cart,
         r \notin Writes => leg[r] # "done"
  PROVE  Certain'
  <1>1. Types
    BY DEF IInv
  <1>2. \A q \in Requests \ {r} : Same(q)
    BY <1>1, EndAt DEF Same
  <1>3. leg[r] \in {"upstream", "answered", "done"}
    BY DEF IInv, Types, GateSound, Working
  <1>4. ASSUME ~doubt
        PROVE  /\ op'[r] = op[r] /\ Open(r)' = Open(r) /\ Pending(r)' = Pending(r)
               /\ Begun(r)' = Begun(r) /\ (leg'[r] = "done" => ~Working(r)')
    <2>1. leg[r] \in {"upstream", "answered"}
      BY <1>3, <1>4 DEF IInv, Certain
    <2> QED BY <1>1, <2>1, EndAt DEF Open, InFlight, Pending, Begun, Working
  <1>5. code'[r] = 200 =>
          \/ leg[r] = "upstream" /\ status = 200
          \/ code[r] = 200 /\ body'[r] = body[r]
    BY <1>1, EndAt DEF Failure
  <1>6. /\ r \in Writes /\ code'[r] = 200 /\ op[r].do = "checkout" /\ body'[r] = "CONFIRMED" =>
             code[r] = 200 /\ body[r] = "CONFIRMED"
        /\ r = CartFetch /\ code'[r] = 200 =>
             body'[r] = cart \/ (code[r] = 200 /\ body'[r] = body[r])
    BY <1>5
  <1> QED BY <1>2, <1>4, <1>6, CertainQuiet

\* A handler that throws, or finds nothing to do.
LEMMA EndsEarly ==
  ASSUME IInv, NEW r \in Requests, UNCHANGED pageVars,
         Throws(r) \/ fetchProductFails(r) \/ CheckoutOfNothing(r) \/ CancelTwice(r)
  PROVE  IInv'
  <1>1. PICK status \in {404, 409, Failure} :
          End(r, status) /\ Working(r) /\ (status = 409 => ~Begun(r)) /\ UNCHANGED <<cart, order, body>>
    BY DEF Throws, fetchProductFails, CheckoutOfNothing, CancelTwice, apiVars, Accepted, Working, Begun,
           Failure
  <1>2. r \notin Writes => leg[r] # "done"
    BY <1>1, Names DEF IInv, ReadsSound, Working
  <1>3. Certain'
    BY <1>1, <1>2, EndCertain DEF Failure
  <1>4. Types
    BY DEF IInv
  <1>5. r \notin Writes => ReadsSound'
    <2> SUFFICES ASSUME r \notin Writes
                 PROVE  ReadsSound'
      OBVIOUS
    <2>1. r # OrderStream
      BY <1>1 DEF IInv, ReadsSound, Working
    <2>2. work'[r] \in {"none", "new"} /\ leg'[r] # "done" /\ code'[r] \in {code[r], 404, 409, Failure}
          /\ op'[r] = op[r]
      BY <1>1, <1>2, <1>4, <2>1, EndAt, Names DEF IInv, ReadsSound, Begun
    <2>3. \A q \in Requests \ {r} :
            op'[q] = op[q] /\ leg'[q] = leg[q] /\ work'[q] = work[q] /\ code'[q] = code[q]
      BY <1>1, <1>4, EndAt
    <2> QED BY <1>1, <2>1, <2>2, <2>3, Names DEF IInv, ReadsSound, Failure
  <1> QED BY <1>1, <1>3, <1>4, <1>5, EndKeeps DEF Types, Failure

\* A read is answered.
LEMMA ReadKeeps ==
  ASSUME IInv, NEW r \in Requests, UNCHANGED pageVars, getCart(r) \/ getOrder(r)
  PROVE  IInv'
  <1> DEFINE result == IF getCart(r) THEN cart ELSE loadOrder(r)
  <1>1. /\ Types /\ UNCHANGED <<cart, order>> /\ Working(r) /\ End(r, 200)
        /\ body' = [body EXCEPT ![r] = IF leg[r] = "upstream" THEN result ELSE @]
    BY DEF IInv, getCart, getOrder, EndWith, Accepted, Working
  <1>2. \/ getCart(r) /\ r = CartFetch /\ op[r].do = "getCart"
        \/ getOrder(r) /\ r = OrderFetch /\ op[r].do = "getOrder"
    <2>1. op[r].do \in {"getCart", "getOrder", "stream"} /\ work[r] = "new"
      BY DEF getCart, getOrder, Accepted
    <2>2. r \notin Writes
      BY <2>1 DEF IInv, WriteSound, Deeds
    <2>3. r \in {CartFetch, OrderFetch}
      BY <2>1, <2>2, Names DEF IInv, ReadsSound
    <2>4. CASE r = CartFetch
      BY <2>4 DEF IInv, ReadsSound, getCart, getOrder, Accepted
    <2>5. CASE r = OrderFetch
      BY <2>5 DEF IInv, ReadsSound, getCart, getOrder, Accepted
    <2> QED BY <2>3, <2>4, <2>5
  <1>3. /\ r \notin Writes /\ leg[r] # "done"
        /\ r = CartFetch => result = cart
        /\ r = OrderFetch => result \in Statuses \cup {"none"}
    <2>1. CASE r = CartFetch
      BY <1>2, <2>1, Names DEF IInv, ReadsSound
    <2>2. CASE r = OrderFetch
      <3>1. ~getCart(r)
        BY <1>2, <2>2, Names DEF getCart, getOrder, Accepted
      <3> QED BY <1>1, <1>2, <2>2, <3>1, Names DEF IInv, Types, ReadsSound, loadOrder
    <2> QED BY <1>2, <2>1, <2>2
  <1> HIDE DEF result
  <1>4. /\ DOMAIN body' = Requests /\ \A q \in Requests \ {r} : body'[q] = body[q]
        /\ body'[r] = IF leg[r] = "upstream" THEN result ELSE body[r]
    BY <1>1 DEF Types
  <1>5. Certain'
    BY <1>1, <1>3, <1>4, EndCertain
  <1>6. ReadsSound'
    <2> DEFINE others == \A q \in Requests \ {r} :
                           /\ op'[q] = op[q] /\ leg'[q] = leg[q] /\ work'[q] = work[q]
                           /\ code'[q] = code[q] /\ body'[q] = body[q]
    <2>0. /\ others /\ work'[r] = "none" /\ op'[r] = op[r] /\ leg'[r] # "done"
          /\ leg[r] # "upstream" => code'[r] = code[r] /\ body'[r] = body[r]
          /\ leg[r] = "upstream" => body'[r] = result
      BY <1>1, <1>2, <1>3, <1>4, EndAt DEF getCart, getOrder, Accepted, Begun
    <2>1. CASE r = CartFetch
      BY <1>1, <1>3, <2>0, <2>1, Names DEF IInv, Types, ReadsSound
    <2>2. CASE r = OrderFetch
      BY <1>1, <1>3, <2>0, <2>2, Names DEF IInv, Types, ReadsSound
    <2> QED BY <1>2, <2>1, <2>2
  <1> QED BY <1>1, <1>3, <1>4, <1>5, <1>6, EndKeeps DEF Types

\* A handler that goes on to its next await.
LEMMA ProceedKeeps ==
  ASSUME IInv, NEW w \in Writes, UNCHANGED <<body, pageVars>>, Working(w),
         NEW place \in Places \ {"none", "ended"}, Proceed(w, place),
         place = "written" => op[w].do \in {"add", "remove"},
         place \in {"saga", "paid"} => op[w].do = "checkout",
         place = "undoing" => op[w].do = "cancel",
         cart' \in Carts, order' \in [Writes -> Statuses \cup {"none"}], Certain'
  PROVE  IInv'
  <1>1. /\ Types /\ UNCHANGED <<op, leg, code, fresh, body>> /\ work' = [work EXCEPT ![w] = place]
    BY DEF IInv, Proceed
  <1>2. w \in Requests
    BY Names
  <1>3. work'[w] = place /\ \A q \in Requests \ {w} : Same(q)
    BY <1>1, <1>2 DEF Types, Same
  <1>4. Types'
    BY <1>1 DEF Types, pageVars
  <1>5. GateSound(w)' /\ WriteSound(w)'
    BY <1>1, <1>2, <1>3 DEF IInv, GateSound, WriteSound, Working
  <1>6. ReadsSound'
    BY <1>1, <1>3, Names DEF IInv, ReadsSound, Same
  <1> QED BY <1>1, <1>2, <1>3, <1>4, <1>5, <1>6, OneMoves DEF Open, InFlight

\* A handler works for a request that somebody waits for, while there is no doubt.
LEMMA WorkingOpen ==
  ASSUME IInv, ~doubt, NEW w \in Writes, Working(w)
  PROVE  leg[w] \in {"upstream", "answered"} /\ Open(w)
  <1>1. w \in Requests
    BY Names
  <1> QED BY <1>1 DEF IInv, Certain, Types, GateSound, Working, Open, InFlight

\* addCartItem and removeCartItem.
LEMMA CartWriteKeeps ==
  ASSUME IInv, NEW w \in Writes, UNCHANGED pageVars, addCartItem(w) \/ removeCartItem(w)
  PROVE  IInv'
  <1>1. /\ Types /\ Working(w) /\ ~Begun(w) /\ UNCHANGED <<order, body>> /\ Proceed(w, "written")
        /\ \/ op[w].do = "add" /\ cart' = [cart EXCEPT ![op[w].product] = @ + op[w].quantity]
           \/ op[w].do = "remove" /\ cart' = [cart EXCEPT ![op[w].product] = 0]
    BY DEF IInv, addCartItem, removeCartItem, Accepted, Working, Begun
  <1>2. cart' \in Carts
    BY <1>1 DEF IInv, Types, WriteSound, Carts
  <1>3. /\ UNCHANGED <<op, leg, code>> /\ Begun(w)' /\ w \in Requests
        /\ \A q \in Requests \ {w} : Same(q)
    BY <1>1, Names DEF Proceed, Types, Same, Begun
  <1>4. ASSUME ~doubt
        PROVE  Open(w)' /\ StepRight(w)' /\ CheckoutRight(w)'
    <2>1. Open(w) /\ Open(w)' /\ Open(CartFetch)' = Open(CartFetch)
      BY <1>1, <1>3, <1>4, WorkingOpen DEF Open, InFlight
    <2>2. StepRight(w)'
      <3> SUFFICES ASSUME Stepping(w)'
                   PROVE  StepRight(w)'
        BY DEF StepRight
      <3>1. Stepping(w) /\ StepRight(w)
        BY <1>1, <1>4 DEF IInv, Certain, Stepping, CartRequests, Pending, pageVars
      <3>2. /\ ~Open(CartFetch)' /\ ~stale' /\ data' = data /\ prev' = prev /\ op' = op
            /\ op[w].do = "remove" =>
                 data = [prev[w] EXCEPT ![op[w].product] = 0] /\ cart = prev[w]
        BY <1>1, <1>3, <2>1, <3>1 DEF StepRight, pageVars
      <3>3. op[w].do = "remove" => cart' = data
        BY <1>1, <3>2
      <3> QED BY <1>3, <3>2, <3>3 DEF StepRight
    <2>3. CheckoutRight(w)'
      BY <1>1, <1>3 DEF CheckoutRight
    <2> QED BY <2>1, <2>2, <2>3
  <1>5. Certain'
    BY <1>1, <1>3, <1>4, CertainWrite
  <1> QED BY <1>1, <1>2, <1>5, ProceedKeeps DEF Types, Places

\* A checkout creates its order, or confirms it; a cancel begins.
LEMMA OrderWriteKeeps ==
  ASSUME IInv, NEW w \in Writes, UNCHANGED pageVars,
         CheckoutStarts(w) \/ SagaConfirms(w) \/ CancelStarts(w)
  PROVE  IInv'
  <1>1. /\ Types /\ Working(w) /\ UNCHANGED <<cart, body>> /\ w \in Requests
        /\ order' \in [Writes -> Statuses \cup {"none"}]
    BY Names DEF IInv, Types, CheckoutStarts, SagaConfirms, CancelStarts, Accepted, Working, apiVars,
           Statuses
  <1>2. PICK place \in {"saga", "paid", "undoing"} :
          /\ Proceed(w, place)
          /\ place \in {"saga", "paid"} => op[w].do = "checkout"
          /\ place = "undoing" => op[w].do = "cancel"
    BY DEF IInv, WriteSound, CheckoutStarts, SagaConfirms, CancelStarts, Accepted
  <1>3. /\ UNCHANGED <<op, leg, code>> /\ Begun(w)' /\ Working(w)'
        /\ \A q \in Requests \ {w} : Same(q)
    BY <1>1, <1>2 DEF Proceed, Types, Same, Begun, Working
  <1>4. ASSUME ~doubt
        PROVE  leg[w] # "done" /\ Open(w) /\ Open(w)'
    BY <1>1, <1>3, <1>4, WorkingOpen DEF Open, InFlight
  <1>5. CASE op[w].do = "cancel"
    <2>1. Certain'
      BY <1>1, <1>3, <1>4, <1>5, CertainQuiet, Names DEF Pending
    <2> QED BY <1>1, <1>2, <2>1, ProceedKeeps DEF IInv, Types, Places
  <1>6. CASE op[w].do = "checkout"
    <2>1. StepRight(w)'
      BY <1>3, <1>6 DEF IInv, StepSound, StepRight, Stepping, CartRequests, pageVars
    <2>2. CheckoutRight(w)'
      BY <1>1, <1>3 DEF IInv, WriteSound, CheckoutRight, Working
    <2>3. Certain'
      BY <1>1, <1>3, <1>4, <1>6, <2>1, <2>2, CertainWrite
    <2> QED BY <1>1, <1>2, <2>3, ProceedKeeps DEF IInv, Types, Places
  <1> QED BY <1>2, <1>5, <1>6

\* A write is done, and answered if somebody still waits.
LEMMA WriteEndsKeeps ==
  ASSUME IInv, NEW w \in Writes, UNCHANGED pageVars,
         buildCart(w) \/ SagaFails(w) \/ ClearCart(w) \/ CancelEnds(w)
  PROVE  IInv'
  <1>1. PICK result :
          /\ EndWith(w, result)
          /\ ~ClearCart(w) => cart' = cart
          /\ ClearCart(w) => cart' = EmptyCart
          /\ op[w].do = "cancel" => result = "CANCELLED"
          /\ op[w].do = "checkout" /\ ~ClearCart(w) => result # "CONFIRMED"
    <2>1. CASE buildCart(w)
      BY <2>1 DEF IInv, WriteSound, buildCart, ClearCart
    <2>2. CASE SagaFails(w)
      BY <2>2 DEF IInv, WriteSound, SagaFails, ClearCart
    <2>3. CASE ClearCart(w)
      BY <2>3 DEF IInv, WriteSound, ClearCart
    <2>4. CASE CancelEnds(w)
      BY <2>4 DEF IInv, WriteSound, CancelEnds, ClearCart
    <2> QED BY <2>1, <2>2, <2>3, <2>4
  <1>2. /\ Types /\ Working(w) /\ Begun(w) /\ w \in Requests /\ End(w, 200)
        /\ body' = [body EXCEPT ![w] = IF leg[w] = "upstream" THEN result ELSE @]
    BY <1>1, Names DEF IInv, buildCart, SagaFails, ClearCart, CancelEnds, EndWith, Working, Begun
  <1>3. /\ DOMAIN body' = Requests /\ \A q \in Requests \ {w} : body'[q] = body[q]
        /\ body'[w] = IF leg[w] = "upstream" THEN result ELSE body[w]
    BY <1>2 DEF Types
  <1>4. order' \in [Writes -> Statuses \cup {"none"}]
    BY <1>2 DEF IInv, Types, WriteSound, buildCart, SagaFails, ClearCart, CancelEnds, Statuses
  <1>5. cart' \in Carts
    BY <1>1, <1>2 DEF Types, EmptyCart, Carts
  <1>6. Certain'
    <2>1. CASE ~ClearCart(w)
      BY <1>1, <1>2, <1>3, <2>1, EndCertain, Names
    <2>2. CASE ClearCart(w)
      <3>1. op[w].do = "checkout" /\ cart' = EmptyCart
        BY <1>1, <2>2 DEF IInv, WriteSound, ClearCart
      <3>2. \A q \in Requests \ {w} : Same(q)
        BY <1>2, <1>3, EndAt DEF Same
      <3>3. ASSUME ~doubt
            PROVE  /\ op'[w] = op[w] /\ Open(w)' /\ Begun(w)'
                   /\ StepRight(w)' /\ CheckoutRight(w)'
        <4>1. leg[w] \in {"upstream", "answered"}
          BY <1>2, <3>3, WorkingOpen
        <4>2. op'[w] = op[w] /\ Open(w)' /\ Begun(w)'
          BY <1>2, <4>1, EndAt DEF Open, InFlight, Begun
        <4>3. StepRight(w)'
          BY <3>1 DEF IInv, StepSound, StepRight, Stepping, CartRequests, pageVars
        <4>4. CheckoutRight(w)'
          BY <3>1 DEF CheckoutRight, EmptyCart
        <4> QED BY <4>2, <4>3, <4>4
      <3>4. CASE doubt
        BY <3>4 DEF Certain, pageVars
      <3>5. CASE ~doubt
        BY <1>2, <3>1, <3>2, <3>3, <3>5, CertainWrite
      <3> QED BY <3>4, <3>5
    <2> QED BY <2>1, <2>2
  <1> QED BY <1>1, <1>2, <1>3, <1>4, <1>5, <1>6, EndKeeps

-----------------------------------------------------------------------------
(* Every step of the pages keeps the invariant *)

\* What a page may do to the reads.
ReadsMoved ==
  /\ \/ Same(CartFetch) \/ Forgotten(CartFetch)
     \/ \E q : SentAs(CartFetch, q) /\ q.do \in {"none", "getCart"}
  /\ \/ Same(OrderFetch) \/ Forgotten(OrderFetch)
     \/ \E o \in Writes : SentAs(OrderFetch, fetchOrder(o))
  /\ \/ Same(OrderStream) \/ Forgotten(OrderStream)
     \/ \E o \in Writes : SentAs(OrderStream, streamOrder(o))

\* The tables of the services stay, and the requests move as an exchange moves them.
LEMMA PageMove ==
  ASSUME IInv, UNCHANGED <<cart, order>>, GatewayTypes', ReadsMoved,
         loc' \in {"product", "cart", "checkout", "order"}, shown' \in Writes \cup {NoBody},
         data' \in Carts \cup {NoBody}, stale' \in BOOLEAN,
         seen' \in Statuses \cup {"none", "error"},
         prev' \in [Writes -> Carts \cup {NoBody}], mine' \in [Writes -> BOOLEAN],
         doubt' \in BOOLEAN,
         \A w \in Writes :
           /\ \/ Same(w) \/ Forgotten(w) \/ Ended(w)
              \/ (\E q : SentAs(w, q)) /\ WriteSound(w)'
           /\ StepSound(w)',
         PageSound', Certain'
  PROVE  IInv'
  <1>1. Types'
    BY DEF IInv, Types, GatewayTypes
  <1>2. ASSUME NEW r \in Requests
        PROVE  GateSound(r)'
    BY ExchangeSound, Names DEF IInv, ReadsMoved
  <1>3. ASSUME NEW w \in Writes
        PROVE  WriteSound(w)'
    BY ExchangeSound, Names DEF IInv
  <1>4. ReadsSound'
    <2>1. /\ op'[CartFetch].do \in {"none", "getCart"} /\ work'[CartFetch] \in {"none", "new"}
          /\ code'[CartFetch] = 200 => body'[CartFetch] \in Carts
          /\ leg'[CartFetch] # "done"
      BY DEF IInv, ReadsSound, ReadsMoved, Same, Forgotten, SentAs, Nothing
    <2>2. /\ op'[OrderFetch].do \in {"none", "getOrder"} /\ work'[OrderFetch] \in {"none", "new"}
          /\ op'[OrderFetch].do = "getOrder" => op'[OrderFetch].order \in Writes
          /\ code'[OrderFetch] = 200 => body'[OrderFetch] \in Statuses \cup {"none"}
          /\ leg'[OrderFetch] # "done"
      <3>1. CASE Same(OrderFetch)
        BY <3>1 DEF IInv, ReadsSound, Same
      <3>2. CASE Forgotten(OrderFetch)
        BY <3>2 DEF Forgotten, Nothing
      <3>3. ASSUME NEW o \in Writes, SentAs(OrderFetch, fetchOrder(o))
            PROVE  /\ op'[OrderFetch].do \in {"none", "getOrder"} /\ work'[OrderFetch] \in {"none", "new"}
                   /\ op'[OrderFetch].do = "getOrder" => op'[OrderFetch].order \in Writes
                   /\ code'[OrderFetch] = 200 => body'[OrderFetch] \in Statuses \cup {"none"}
                   /\ leg'[OrderFetch] # "done"
        BY <3>3 DEF SentAs, fetchOrder
      <3> QED BY <3>1, <3>2, <3>3 DEF ReadsMoved
    <2>3. /\ op'[OrderStream].do \in {"none", "stream"} /\ work'[OrderStream] = "none"
          /\ leg'[OrderStream] # "idle" => op'[OrderStream].do = "stream"
          /\ leg'[OrderStream] # "upstream" /\ code'[OrderStream] # 200
      <3>1. CASE Same(OrderStream)
        BY <3>1 DEF IInv, ReadsSound, Same
      <3>2. CASE Forgotten(OrderStream)
        BY <3>2 DEF Forgotten, Nothing
      <3>3. ASSUME NEW o \in Writes, SentAs(OrderStream, streamOrder(o))
            PROVE  /\ op'[OrderStream].do \in {"none", "stream"} /\ work'[OrderStream] = "none"
                   /\ leg'[OrderStream] # "idle" => op'[OrderStream].do = "stream"
                   /\ leg'[OrderStream] # "upstream" /\ code'[OrderStream] # 200
        BY <3>3 DEF SentAs, streamOrder
      <3> QED BY <3>1, <3>2, <3>3 DEF ReadsMoved
    <2> QED BY <2>1, <2>2, <2>3 DEF ReadsSound
  <1> QED BY <1>1, <1>2, <1>3, <1>4 DEF IInv

\* Nothing is pending any more, and the copies are right.
LEMMA CertainCalm ==
  ASSUME NEW x, x = doubt', \A w \in Writes : GateSound(w)',
         ~x => /\ \A w \in Writes : ~Pending(w)'
               /\ FetchRight' /\ DataRight'
  PROVE  Certain'
  BY DEF Certain, OnePending, StepRight, Stepping, CheckoutRight, GateSound, Pending, Open, InFlight

\* A write that is over leaves nothing pending while there is no doubt, unless its handler
\* still works.
LEMMA OverCalm ==
  ASSUME IInv, ~doubt, NEW w \in Writes, Open(w), ~Working(w), Ended(w),
         \A v \in Writes \ {w} : Same(v)
  PROVE  \A v \in Writes : ~Pending(v)'
  <1> TAKE v \in Writes
  <1>1. CASE v = w
    BY <1>1 DEF Ended, Pending, Open, InFlight, Working
  <1>2. CASE v # w
    <2>1. ~Pending(v)
      BY <1>2 DEF IInv, Certain, OnePending, Pending
    <2> QED BY <1>2, <2>1 DEF Same, Pending, Open, InFlight, Working
  <1> QED BY <1>1, <1>2

\* A page opens, or stays.
LEMMA EnterMoves ==
  ASSUME IInv, NEW page \in {"product", "cart", "checkout", "order"},
         NEW o \in Writes \cup {NoBody}, page = "order" <=> o # NoBody,
         NEW fetch \in BOOLEAN, NEW done \in SUBSET Writes, Enter(page, o, fetch, done)
  PROVE  /\ GatewayTypes' /\ ReadsMoved
         /\ \A w \in Writes : IF w \in done THEN Ended(w) ELSE Same(w)
         /\ IF fetch THEN SentAs(CartFetch, fetchCart) ELSE Same(CartFetch)
         /\ IF loc = page /\ shown = o THEN Same(OrderFetch)
            ELSE page # "order" => Forgotten(OrderFetch)
         /\ loc' = page /\ shown' = o /\ mine' \in [Writes -> BOOLEAN]
         /\ seen' = IF loc = page /\ shown = o THEN seen ELSE "none"
         /\ \A w \in Writes : mine'[w] => mine[w] /\ loc = page /\ shown = o /\ w \notin done
  <1> DEFINE same == loc = page /\ shown = o
             subscribed == IF page = "order" THEN Subscriptions ELSE {}
             keys == (IF fetch THEN {CartFetch} ELSE {}) \cup (IF same THEN {} ELSE subscribed)
             new == [r \in keys |-> CASE r = CartFetch -> fetchCart
                                      [] r = OrderFetch -> fetchOrder(o)
                                      [] r = OrderStream -> streamOrder(o)]
             dropped == IF same THEN {} ELSE Subscriptions
  <1>1. /\ loc' = page /\ shown' = o /\ seen' = (IF same THEN seen ELSE "none")
        /\ mine' = [w \in Writes |-> mine[w] /\ same /\ w \notin done]
        /\ Exchange(new, dropped, done)
    BY DEF Enter
  <1>2. GatewayTypes
    BY DEF IInv, Types, GatewayTypes
  <1>3. /\ DOMAIN new = keys
        /\ CartFetch \in keys <=> fetch
        /\ OrderFetch \in keys <=> ~same /\ page = "order"
        /\ OrderStream \in keys <=> ~same /\ page = "order"
        /\ \A w \in Writes : w \notin keys /\ w \notin dropped
        /\ CartFetch \notin dropped /\ (~same => OrderFetch \in dropped /\ OrderStream \in dropped)
        /\ CartFetch \notin done /\ OrderFetch \notin done /\ OrderStream \notin done
    BY Names
  <1>4. /\ fetch => new[CartFetch] = fetchCart
        /\ OrderFetch \in keys => new[OrderFetch] = fetchOrder(o)
        /\ OrderStream \in keys => new[OrderStream] = streamOrder(o)
    BY Names
  <1> HIDE DEF keys, new
  <1>5. /\ GatewayTypes'
        /\ \A r \in Requests :
             /\ r \in DOMAIN new => SentAs(r, new[r])
             /\ r \in dropped \ DOMAIN new => Forgotten(r)
             /\ r \in done \ (dropped \cup DOMAIN new) => Ended(r)
             /\ r \notin DOMAIN new \cup dropped \cup done => Same(r)
    BY <1>1, <1>2, ExchangeAt
  <1>6. /\ \A w \in Writes : IF w \in done THEN Ended(w) ELSE Same(w)
        /\ IF fetch THEN SentAs(CartFetch, fetchCart) ELSE Same(CartFetch)
    BY <1>3, <1>4, <1>5, Names
  <1>7. /\ same => Same(OrderFetch) /\ Same(OrderStream)
        /\ ~same /\ page # "order" => Forgotten(OrderFetch) /\ Forgotten(OrderStream)
        /\ ~same /\ page = "order" =>
             SentAs(OrderFetch, fetchOrder(o)) /\ SentAs(OrderStream, streamOrder(o))
    BY <1>3, <1>4, <1>5, Names
  <1>8. fetchCart.do = "getCart"
    BY DEF fetchCart
  <1>9. ReadsMoved
    BY <1>6, <1>7, <1>8 DEF ReadsMoved
  <1>10. mine' \in [Writes -> BOOLEAN]
         /\ \A w \in Writes : mine'[w] => mine[w] /\ same /\ w \notin done
    BY <1>1 DEF IInv, Types
  <1> QED BY <1>1, <1>5, <1>6, <1>7, <1>9, <1>10

\* A link is followed.
LEMMA VisitKeeps ==
  ASSUME IInv, NEW page \in {"product", "cart", "checkout", "order"},
         NEW o \in Writes \cup {NoBody}, Visit(page, o)
  PROVE  IInv'
  <1>1. PICK aged \in BOOLEAN :
          /\ Enter(page, o, WantsCart(page, aged), {})
          /\ doubt' = (doubt \/ (WantsCart(page, aged) /\ \E w \in CartRequests : Open(w)))
    BY DEF Visit
  <1> DEFINE wants == WantsCart(page, aged)
  <1>2. /\ UNCHANGED <<cart, order, data, stale, prev>> /\ (page = "order" <=> o # NoBody)
        /\ ~(loc = page /\ shown = o) /\ wants \in BOOLEAN /\ {} \in SUBSET Writes
    BY DEF Visit, WantsCart
  <1>3. /\ GatewayTypes' /\ ReadsMoved /\ \A w \in Writes : Same(w)
        /\ IF wants THEN SentAs(CartFetch, fetchCart) ELSE Same(CartFetch)
        /\ page # "order" => Forgotten(OrderFetch)
        /\ loc' = page /\ shown' = o /\ mine' \in [Writes -> BOOLEAN] /\ seen' = "none"
        /\ \A w \in Writes : ~mine'[w]
    BY <1>1, <1>2, EnterMoves
  <1> HIDE DEF wants
  <1>4. PageSound'
    BY <1>2, <1>3 DEF PageSound, Forgotten
  <1>5. ASSUME NEW w \in Writes
        PROVE  /\ StepSound(w)' /\ Open(w)' = Open(w) /\ Pending(w)' = Pending(w)
               /\ Begun(w)' = Begun(w) /\ Working(w)' = Working(w) /\ Same(w)
    BY <1>2, <1>3 DEF IInv, StepSound, Same, Open, InFlight, Pending, Working, Begun
  <1>6. Certain'
    <2> SUFFICES ASSUME ~doubt'
                 PROVE  /\ OnePending'
                        /\ (\A w \in Writes : Harmless(w)') => FetchRight' /\ DataRight'
                        /\ \A w \in Writes : StepRight(w)' /\ CheckoutRight(w)'
                        /\ \A w \in Writes : leg'[w] = "done" => ~Working(w)'
      BY DEF Certain
    <2>1. ~doubt /\ (wants => \A w \in CartRequests : ~Open(w))
      BY <1>1 DEF wants
    <2>2. OnePending'
      BY <1>5, <2>1 DEF IInv, Certain, OnePending
    <2>3. ASSUME \A w \in Writes : Harmless(w)'
          PROVE  FetchRight' /\ DataRight'
      <3>1. \A w \in Writes : Harmless(w)
        BY <1>2, <1>5, <2>3 DEF Harmless, CartRequests, Same
      <3>2. FetchRight /\ DataRight
        BY <2>1, <3>1 DEF IInv, Certain
      <3> QED BY <1>2, <1>3, <3>2 DEF FetchRight, DataRight, SentAs, Same
    <2>4. ASSUME NEW w \in Writes
          PROVE  StepRight(w)' /\ CheckoutRight(w)'
      <3>1. StepRight(w)'
        <4> SUFFICES ASSUME Stepping(w)'
                     PROVE  StepRight(w)'
          BY DEF StepRight
        <4>1. Stepping(w) /\ Open(w) /\ w \in CartRequests
          BY <1>2, <1>5 DEF IInv, StepSound, Stepping, CartRequests
        <4>2. ~wants /\ Open(CartFetch)' = Open(CartFetch)
          BY <1>3, <2>1, <4>1 DEF Same, Open, InFlight
        <4> QED BY <1>2, <1>5, <2>1, <4>1, <4>2 DEF IInv, Certain, StepRight, Same
      <3>2. CheckoutRight(w)'
        BY <1>2, <1>5, <2>1 DEF IInv, Certain, CheckoutRight, Same
      <3> QED BY <3>1, <3>2
    <2>5. \A w \in Writes : leg'[w] = "done" => ~Working(w)'
      BY <1>5, <2>1 DEF IInv, Certain, Same
    <2> QED BY <2>2, <2>3, <2>4, <2>5
  <1> QED BY <1>1, <1>2, <1>3, <1>4, <1>5, <1>6, PageMove DEF IInv, Types

\* What is certain stays so while the writes, the carts they replaced and the stored one do.
LEMMA CertainStill ==
  ASSUME IInv, UNCHANGED <<cart, prev>>, \A w \in Writes : Same(w), ~doubt, ~doubt',
         FetchRight /\ DataRight => FetchRight' /\ DataRight',
         \A w \in Writes : Stepping(w) =>
           Open(CartFetch)' = Open(CartFetch) /\ data' = data /\ stale' = stale
  PROVE  Certain'
  <1>1. ASSUME NEW w \in Writes
        PROVE  /\ Open(w)' = Open(w) /\ Pending(w)' = Pending(w) /\ Begun(w)' = Begun(w)
               /\ Working(w)' = Working(w) /\ leg'[w] = leg[w] /\ op'[w] = op[w]
               /\ (w \in CartRequests)' = (w \in CartRequests)
    BY DEF Same, Open, InFlight, Pending, Working, Begun, CartRequests
  <1>2. OnePending'
    BY <1>1 DEF IInv, Certain, OnePending
  <1>3. ASSUME \A w \in Writes : Harmless(w)'
        PROVE  FetchRight' /\ DataRight'
    <2>1. \A w \in Writes : Harmless(w)
      BY <1>1, <1>3 DEF Harmless
    <2> QED BY <2>1 DEF IInv, Certain
  <1>4. ASSUME NEW w \in Writes
        PROVE  StepRight(w)' /\ CheckoutRight(w)'
    <2>1. Stepping(w)' => Stepping(w)
      BY <1>1 DEF Stepping
    <2>2. StepRight(w)'
      BY <1>1, <2>1 DEF IInv, Certain, StepRight
    <2>3. CheckoutRight(w)'
      BY DEF IInv, Certain, CheckoutRight, Same
    <2> QED BY <2>2, <2>3
  <1>5. \A w \in Writes : leg'[w] = "done" => ~Working(w)'
    BY <1>1 DEF IInv, Certain
  <1> QED BY <1>2, <1>3, <1>4, <1>5 DEF Certain

\* A read is sent again, or looked at no more.
LEMMA ReadMoves ==
  ASSUME IInv, NEW r \in {CartFetch, OrderFetch, OrderStream},
         \/ Drop({r})
         \/ r = CartFetch /\ Exchange([x \in {CartFetch} |-> op[CartFetch]], {}, {})
  PROVE  /\ GatewayTypes' /\ ReadsMoved
         /\ Forgotten(r) \/ (r = CartFetch /\ SentAs(CartFetch, op[CartFetch]))
         /\ \A q \in Requests \ {r} : Same(q)
  <1>1. GatewayTypes
    BY DEF IInv, Types, GatewayTypes
  <1>2. r \in Requests
    BY Names
  <1>3. CASE Drop({r})
    <2>1. Exchange(None, {r}, {}) /\ DOMAIN None = {}
      BY <1>3 DEF Drop, None
    <2>2. /\ GatewayTypes' /\ Forgotten(r)
          /\ \A q \in Requests \ {r} : Same(q)
      <3> HIDE DEF None
      <3> QED BY <1>1, <1>2, <2>1, ExchangeAt
    <2> QED BY <2>2, Names DEF ReadsMoved
  <1>4. CASE r = CartFetch /\ Exchange([x \in {CartFetch} |-> op[CartFetch]], {}, {})
    <2> DEFINE new == [x \in {CartFetch} |-> op[CartFetch]]
    <2>1. DOMAIN new = {CartFetch} /\ new[CartFetch] = op[CartFetch]
      OBVIOUS
    <2>2. Exchange(new, {}, {})
      BY <1>4
    <2> HIDE DEF new
    <2>3. /\ GatewayTypes' /\ SentAs(CartFetch, op[CartFetch])
          /\ \A q \in Requests \ {r} : Same(q)
      BY <1>1, <1>2, <1>4, <2>1, <2>2, ExchangeAt
    <2> QED BY <1>4, <2>3, Names DEF ReadsMoved, IInv, ReadsSound
  <1> QED BY <1>3, <1>4

\* The writes and what the page keeps of them stay.
LEMMA ReadStepSound ==
  ASSUME IInv, \A w \in Writes : Same(w), UNCHANGED prev, NEW w \in Writes
  PROVE  StepSound(w)'
  BY DEF IInv, StepSound, Same, Open, InFlight

\* The cart arrives.
LEMMA CartArrivesKeeps ==
  ASSUME IInv, CartArrives
  PROVE  IInv'
  <1>1. /\ leg[CartFetch] = "answered" /\ code[CartFetch] = 200 /\ data' = body[CartFetch]
        /\ stale' = FALSE
        /\ doubt' = (doubt /\ ~(body[CartFetch] = cart /\ \A w \in Writes : ~Pending(w)))
        /\ Drop({CartFetch}) /\ UNCHANGED <<cart, order, loc, shown, seen, prev, mine>>
        /\ Types /\ data' \in Carts
    BY DEF CartArrives, IInv, ReadsSound
  <1>2. /\ GatewayTypes' /\ ReadsMoved
        /\ \A q \in Requests \ {CartFetch} : Same(q)
        /\ leg'[CartFetch] \in {"idle", "edge"} /\ code'[CartFetch] = 0
    BY <1>1, ReadMoves DEF Forgotten, SentAs
  <1>3. \A w \in Writes : Same(w) /\ StepSound(w)' /\ GateSound(w)'
    BY <1>1, <1>2, ReadStepSound, Names, ExchangeSound DEF IInv
  <1>4. PageSound'
    BY <1>1, <1>2, Names DEF IInv, PageSound, Same
  <1>5. Certain'
    <2> SUFFICES ASSUME ~doubt'
                 PROVE  Certain'
      BY DEF Certain
    <2>1. FetchRight'
      BY <1>2 DEF FetchRight
    <2>2. CASE ~doubt
      <3>1. \A w \in Writes : ~Stepping(w)
        BY <1>1, <2>2 DEF IInv, Certain, StepRight, Open, InFlight
      <3>2. FetchRight => DataRight'
        BY <1>1 DEF FetchRight, DataRight
      <3> QED BY <1>1, <1>3, <2>1, <2>2, <3>1, <3>2, CertainStill
    <2>3. CASE doubt
      <3>1. body[CartFetch] = cart /\ \A w \in Writes : ~Pending(w)
        BY <1>1, <2>3
      <3>2. DataRight' /\ \A w \in Writes : ~Pending(w)'
        BY <1>1, <1>3, <3>1 DEF DataRight, Same, Pending, Open, InFlight, Working
      <3> QED BY <1>3, <2>1, <3>2, CertainCalm
    <2> QED BY <2>2, <2>3
  <1>6. doubt' \in BOOLEAN
    BY <1>1, Zenon
  <1>7. /\ UNCHANGED <<cart, order, loc, shown, seen, prev, mine>>
        /\ data' \in Carts \cup {NoBody} /\ stale' \in BOOLEAN
    BY <1>1
  <1> QED BY <1>1, <1>2, <1>3, <1>4, <1>5, <1>6, <1>7, PageMove DEF Types

\* The fetch of the cart fails.
LEMMA CartFailsKeeps ==
  ASSUME IInv, CartFails
  PROVE  IInv'
  <1>1. /\ leg[CartFetch] = "answered"
        /\ Exchange([x \in {CartFetch} |-> op[CartFetch]], {}, {}) \/ Drop({CartFetch})
        /\ UNCHANGED <<cart, order, loc, shown, data, stale, seen, prev, mine, doubt>> /\ Types
    BY DEF CartFails, Failed, IInv
  <1>2. /\ GatewayTypes' /\ ReadsMoved
        /\ \A q \in Requests \ {CartFetch} : Same(q)
        /\ code'[CartFetch] = 0
    BY <1>1, ReadMoves DEF Forgotten, SentAs
  <1>3. \A w \in Writes : Same(w) /\ StepSound(w)'
    BY <1>1, <1>2, ReadStepSound, Names
  <1>4. PageSound'
    BY <1>1, <1>2, Names DEF IInv, PageSound, Same
  <1>5. Certain'
    <2> SUFFICES ASSUME ~doubt'
                 PROVE  Certain'
      BY DEF Certain
    <2>1. ~doubt /\ \A w \in Writes : ~Stepping(w)
      BY <1>1 DEF IInv, Certain, StepRight, Open, InFlight
    <2>2. DataRight => FetchRight' /\ DataRight'
      BY <1>1, <1>2 DEF FetchRight, DataRight
    <2> QED BY <1>1, <1>3, <2>1, <2>2, CertainStill
  <1> QED BY <1>1, <1>2, <1>3, <1>4, <1>5, PageMove DEF Types

\* What an order page asked for is answered.
LEMMA OrderKeeps ==
  ASSUME IInv, OrderArrives \/ StreamEnds
  PROVE  IInv'
  <1>1. PICK r \in {OrderFetch, OrderStream} :
          /\ Drop({r}) /\ leg[r] = "answered"
          /\ r = OrderStream => seen' = seen
          /\ r = OrderFetch => seen' \in Statuses \cup {"none", "error"}
    BY DEF OrderArrives, StreamEnds, IInv, ReadsSound
  <1>2. UNCHANGED <<cart, order, loc, shown, data, stale, prev, mine, doubt>> /\ Types
    BY DEF OrderArrives, StreamEnds, IInv
  <1>3. /\ GatewayTypes' /\ ReadsMoved /\ Forgotten(r)
        /\ \A q \in Requests \ {r} : Same(q)
    BY <1>1, ReadMoves, Names
  <1>4. Same(CartFetch) /\ \A w \in Writes : Same(w) /\ StepSound(w)'
    BY <1>2, <1>3, ReadStepSound, Names
  <1>5. PageSound'
    <2>1. CASE r = OrderFetch
      <3>1. loc = "order" /\ seen = "none" /\ leg'[OrderFetch] = "idle"
        BY <1>1, <1>3, <2>1 DEF IInv, PageSound, Forgotten
      <3> QED BY <1>2, <1>4, <3>1 DEF IInv, PageSound, Same
    <2>2. CASE r = OrderStream
      <3>1. Same(OrderFetch) /\ seen' = seen
        BY <1>1, <1>3, <2>2, Names
      <3> QED BY <1>2, <1>4, <3>1 DEF IInv, PageSound, Same
    <2> QED BY <2>1, <2>2
  <1>6. Certain'
    <2> SUFFICES ASSUME ~doubt'
                 PROVE  Certain'
      BY DEF Certain
    <2>1. ~doubt /\ (FetchRight /\ DataRight => FetchRight' /\ DataRight')
      BY <1>2, <1>4 DEF FetchRight, DataRight, Same
    <2>2. Open(CartFetch)' = Open(CartFetch)
      BY <1>4 DEF Same, Open, InFlight
    <2> QED BY <1>2, <1>4, <2>1, <2>2, CertainStill
  <1>7. seen' \in Statuses \cup {"none", "error"}
    BY <1>1, <1>2 DEF Types
  <1> QED BY <1>2, <1>3, <1>4, <1>5, <1>6, <1>7, PageMove DEF Types

\* A write leaves; while there is no doubt, it is the only one under way.
LEMMA SendMoves ==
  ASSUME IInv, NEW w \in Writes, NEW request, NEW dropped \in {{}, {CartFetch}}, NEW doubtful,
         Send(w, request, dropped, doubtful)
  PROVE  /\ GatewayTypes' /\ ReadsMoved
         /\ SentAs(w, request) /\ leg[w] = "idle" /\ prev[w] = NoBody
         /\ \A v \in Writes \ {w} : Same(v)
         /\ IF dropped = {} THEN Same(CartFetch) ELSE Forgotten(CartFetch)
         /\ Same(OrderFetch)
         /\ mine' = [mine EXCEPT ![w] = TRUE] /\ doubt' \in BOOLEAN
         /\ ~doubt' => ~doubt /\ ~doubtful /\ \A v \in Writes : ~Pending(v)
         /\ UNCHANGED <<cart, order, loc, shown, seen>>
  <1> DEFINE new == [x \in {w} |-> request]
  <1>1. /\ leg[w] = "idle" /\ Exchange(new, dropped, {}) /\ mine' = [mine EXCEPT ![w] = TRUE]
        /\ UNCHANGED <<cart, order, loc, shown, seen>>
    BY DEF Send
  <1>2. doubt' = (doubt \/ doubtful \/ \E v \in Writes : Pending(v))
    BY DEF Send
  <1>3. doubt' \in BOOLEAN
    BY <1>2, Zenon
  <1>4. prev[w] = NoBody
    BY <1>1 DEF IInv, StepSound, Open, InFlight
  <1>5. DOMAIN new = {w} /\ new[w] = request
    OBVIOUS
  <1>6. GatewayTypes
    BY DEF IInv, Types, GatewayTypes
  <1> HIDE DEF new
  <1>7. /\ GatewayTypes'
        /\ \A r \in Requests :
             /\ r \in DOMAIN new => SentAs(r, new[r])
             /\ r \in dropped \ DOMAIN new => Forgotten(r)
             /\ r \notin DOMAIN new \cup dropped \cup {} => Same(r)
    BY <1>1, <1>6, ExchangeAt
  <1>8. /\ SentAs(w, request) /\ \A v \in Writes \ {w} : Same(v)
        /\ IF dropped = {} THEN Same(CartFetch) ELSE Forgotten(CartFetch)
        /\ Same(OrderFetch) /\ Same(OrderStream)
    BY <1>5, <1>7, Names
  <1>9. ReadsMoved
    BY <1>8 DEF ReadsMoved
  <1> QED BY <1>1, <1>2, <1>3, <1>4, <1>7, <1>8, <1>9

\* A click that does not step a quantity.
LEMMA ClickKeeps ==
  ASSUME IInv, NEW w \in Writes,
         (\E p \in Products : ClickAdd(w, p)) \/ ClickCheckout(w) \/ ClickCancel(w)
  PROVE  IInv'
  <1>1. PICK request :
          /\ Send(w, request, {}, FALSE) /\ UNCHANGED <<data, stale, prev>>
          /\ request.do \in {"add", "checkout", "cancel"}
          /\ request.do = "add" => request.product \in Products /\ request.quantity = 1
          /\ request.do = "cancel" =>
               request.order \in Writes /\ seen \in {"PENDING", "CONFIRMED"}
    <2>1. CASE \E p \in Products : ClickAdd(w, p)
      <3>1. PICK p \in Products : Send(w, addToCart(p, 1), {}, FALSE)
        BY <2>1 DEF ClickAdd
      <3>2. /\ addToCart(p, 1).do = "add" /\ addToCart(p, 1).product = p
            /\ addToCart(p, 1).quantity = 1
        BY DEF addToCart
      <3>3. UNCHANGED <<data, stale, prev>>
        BY <2>1 DEF ClickAdd
      <3> QED BY <3>1, <3>2, <3>3
    <2>2. CASE ClickCheckout(w)
      <3>1. Send(w, placeOrder, {}, FALSE) /\ UNCHANGED <<data, stale, prev>>
        BY <2>2 DEF ClickCheckout
      <3>2. placeOrder.do = "checkout"
        BY DEF placeOrder
      <3> QED BY <3>1, <3>2
    <2>3. CASE ClickCancel(w)
      <3>1. /\ Send(w, cancelOrder(shown), {}, FALSE) /\ UNCHANGED <<data, stale, prev>>
            /\ seen \in {"PENDING", "CONFIRMED"} /\ shown \in Writes
        BY <2>3 DEF ClickCancel, IInv, PageSound, Types
      <3>2. cancelOrder(shown).do = "cancel" /\ cancelOrder(shown).order = shown
        BY DEF cancelOrder
      <3> QED BY <3>1, <3>2
    <2> QED BY <2>1, <2>2, <2>3
  <1>2. /\ GatewayTypes' /\ ReadsMoved
        /\ SentAs(w, request) /\ leg[w] = "idle" /\ prev[w] = NoBody
        /\ \A v \in Writes \ {w} : Same(v)
        /\ Same(CartFetch) /\ Same(OrderFetch)
        /\ mine' = [mine EXCEPT ![w] = TRUE] /\ doubt' \in BOOLEAN
        /\ ~doubt' => ~doubt /\ \A v \in Writes : ~Pending(v)
        /\ UNCHANGED <<cart, order, loc, shown, seen>>
    BY <1>1, SendMoves
  <1>3. Types
    BY DEF IInv
  <1>4. WriteSound(w)' /\ GateSound(w)'
    BY <1>1, <1>2 DEF WriteSound, GateSound, SentAs, Deeds
  <1>5. ASSUME NEW v \in Writes
        PROVE  StepSound(v)'
    BY <1>1, <1>2 DEF IInv, StepSound, Same, Open, InFlight
  <1>6. PageSound'
    <2>1. \A v \in Writes : mine'[v] /\ op'[v].do = "cancel" => seen # "none"
      BY <1>1, <1>2, <1>3 DEF IInv, PageSound, Same, SentAs, Types
    <2> QED BY <1>2, <2>1 DEF IInv, PageSound, Same
  <1>7. Certain'
    <2> SUFFICES ASSUME ~doubt'
                 PROVE  Certain'
      BY DEF Certain
    <2>1. \A v \in Writes \ {w} : ~Pending(v)'
      BY <1>2 DEF Same, Pending, Open, InFlight, Working
    <2>2. OnePending'
      BY <2>1 DEF OnePending
    <2>3. FetchRight' /\ DataRight'
      <3>1. \A v \in Writes : Harmless(v)
        BY <1>2 DEF Harmless
      <3> QED BY <1>1, <1>2, <3>1 DEF IInv, Certain, FetchRight, DataRight, Same
    <2>4. ASSUME NEW v \in Writes
          PROVE  StepRight(v)' /\ CheckoutRight(v)' /\ (leg'[v] = "done" => ~Working(v)')
      <3>1. CASE v = w
        BY <1>1, <1>2, <3>1 DEF StepRight, Stepping, CartRequests, CheckoutRight, SentAs
      <3>2. CASE v # w
        BY <1>2, <2>1, <3>2
           DEF IInv, Certain, StepRight, Stepping, CheckoutRight, Same, Pending
      <3> QED BY <3>1, <3>2
    <2> QED BY <2>2, <2>3, <2>4 DEF Certain
  <1> QED BY <1>1, <1>2, <1>3, <1>4, <1>5, <1>6, <1>7, PageMove DEF Types

\* A quantity is stepped: the cart on display was the stored one, if there is no doubt.
LEMMA StepClickKeeps ==
  ASSUME IInv, NEW w \in Writes, NEW p \in Products, ClickStep(w, p)
  PROVE  IInv'
  <1>1. PICK q \in Stepped(p) :
          /\ Send(w, IF q = 0 THEN removeFromCart(p) ELSE addToCart(p, q), {CartFetch}, stale)
          /\ data' = [data EXCEPT ![p] = q]
    BY DEF ClickStep
  <1> DEFINE request == IF q = 0 THEN removeFromCart(p) ELSE addToCart(p, q)
  <1>2. /\ prev' = [prev EXCEPT ![w] = data] /\ stale' = FALSE /\ Types
        /\ data \in Carts /\ data[p] \in Nat /\ data[p] > 0
    BY DEF ClickStep, IInv, Types, Lines, Carts
  <1>3. q \in Nat /\ data' \in Carts
    BY <1>1, <1>2 DEF Stepped, Carts
  <1>4. /\ request.do \in {"add", "remove"} /\ request.product = p
        /\ request.do = "add" => request.quantity \in Nat
        /\ request.do = "remove" => q = 0
    BY <1>3 DEF addToCart, removeFromCart
  <1> HIDE DEF request
  <1>5. /\ GatewayTypes' /\ ReadsMoved
        /\ SentAs(w, request) /\ leg[w] = "idle" /\ prev[w] = NoBody
        /\ \A v \in Writes \ {w} : Same(v)
        /\ Forgotten(CartFetch) /\ Same(OrderFetch)
        /\ mine' = [mine EXCEPT ![w] = TRUE] /\ doubt' \in BOOLEAN
        /\ ~doubt' => ~doubt /\ ~stale /\ \A v \in Writes : ~Pending(v)
        /\ UNCHANGED <<cart, order, loc, shown, seen>>
    BY <1>1, SendMoves DEF request
  <1>6. WriteSound(w)' /\ GateSound(w)'
    BY <1>4, <1>5 DEF WriteSound, GateSound, SentAs, Deeds
  <1>7. /\ prev' \in [Writes -> Carts \cup {NoBody}] /\ prev'[w] = data
        /\ \A v \in Writes \ {w} : prev'[v] = prev[v]
    BY <1>2 DEF Types
  <1>8. ASSUME NEW v \in Writes
        PROVE  StepSound(v)'
    BY <1>4, <1>5, <1>7 DEF IInv, StepSound, Same, SentAs, Open, InFlight
  <1>9. PageSound'
    <2>1. \A v \in Writes : mine'[v] /\ op'[v].do = "cancel" => seen # "none"
      BY <1>2, <1>4, <1>5 DEF IInv, PageSound, Same, SentAs, Types
    <2> QED BY <1>5, <2>1 DEF IInv, PageSound, Same
  <1>10. Certain'
    <2> SUFFICES ASSUME ~doubt'
                 PROVE  Certain'
      BY DEF Certain
    <2>1. \A v \in Writes \ {w} : ~Pending(v)'
      BY <1>5 DEF Same, Pending, Open, InFlight, Working
    <2>2. OnePending'
      BY <2>1 DEF OnePending
    <2>3. ~Harmless(w)'
      BY <1>2, <1>5, <1>7, Names DEF Harmless, CartRequests, Pending, Open, InFlight, SentAs
    <2>4. StepRight(w)'
      <3>1. data = cart
        <4>1. \A v \in Writes : Harmless(v)
          BY <1>5 DEF Harmless
        <4> QED BY <1>2, <1>5, <4>1, Names DEF IInv, Certain, DataRight
      <3>2. ~Open(CartFetch)' /\ cart' = prev'[w] /\ ~Begun(w)'
        BY <1>5, <1>7, <3>1 DEF Forgotten, SentAs, Open, InFlight, Begun
      <3>3. op'[w].do = "remove" => data' = [prev'[w] EXCEPT ![op'[w].product] = 0]
        BY <1>1, <1>4, <1>5, <1>7 DEF SentAs
      <3> QED BY <1>2, <3>2, <3>3 DEF StepRight
    <2>5. ASSUME NEW v \in Writes
          PROVE  StepRight(v)' /\ CheckoutRight(v)' /\ (leg'[v] = "done" => ~Working(v)')
      <3>1. CASE v = w
        BY <1>5, <2>4, <3>1 DEF CheckoutRight, SentAs
      <3>2. CASE v # w
        BY <1>5, <2>1, <3>2
           DEF IInv, Certain, StepRight, Stepping, CheckoutRight, Same, Pending
      <3> QED BY <3>1, <3>2
    <2> QED BY <2>2, <2>3, <2>5 DEF Certain
  <1>11. /\ UNCHANGED <<cart, order, loc, shown, seen>> /\ stale' \in BOOLEAN
         /\ mine' \in [Writes -> BOOLEAN]
    BY <1>2, <1>5 DEF Types
  <1>12. \A v \in Writes : Same(v) \/ ((\E r : SentAs(v, r)) /\ WriteSound(v)')
    BY <1>5, <1>6
  <1>13. /\ loc' \in {"product", "cart", "checkout", "order"} /\ shown' \in Writes \cup {NoBody}
         /\ seen' \in Statuses \cup {"none", "error"}
    BY <1>2, <1>11 DEF Types
  <1> QED BY <1>3, <1>5, <1>7, <1>8, <1>9, <1>10, <1>11, <1>12, <1>13, PageMove

\* The page is done with a write and stays.
LEMMA ShutMoves ==
  ASSUME IInv, NEW w \in Writes, Shut(w)
  PROVE  /\ GatewayTypes' /\ ReadsMoved /\ Ended(w) /\ \A v \in Writes \ {w} : Same(v)
         /\ Same(CartFetch) /\ Same(OrderFetch)
         /\ prev' \in [Writes -> Carts \cup {NoBody}]
         /\ \A v \in Writes : StepSound(v)'
  <1>1. /\ Exchange(None, {}, {w}) /\ prev' = [prev EXCEPT ![w] = NoBody] /\ GatewayTypes
        /\ DOMAIN None = {}
    BY DEF Shut, IInv, Types, GatewayTypes, None
  <1>2. /\ GatewayTypes'
        /\ \A r \in Requests :
             /\ r \in {w} \ ({} \cup DOMAIN None) => Ended(r)
             /\ r \notin DOMAIN None \cup {} \cup {w} => Same(r)
    <2> HIDE DEF None
    <2> QED BY <1>1, ExchangeAt
  <1>3. /\ Ended(w) /\ \A v \in Writes \ {w} : Same(v)
        /\ Same(CartFetch) /\ Same(OrderFetch) /\ Same(OrderStream)
    BY <1>1, <1>2, Names
  <1>4. prev' \in [Writes -> Carts \cup {NoBody}]
    BY <1>1 DEF IInv, Types
  <1>5. ASSUME NEW v \in Writes
        PROVE  StepSound(v)'
    BY <1>1, <1>3 DEF IInv, Types, StepSound, Same, Open, InFlight
  <1> QED BY <1>2, <1>3, <1>4, <1>5 DEF ReadsMoved

\* The page is done with a write that was answered: nothing is pending, and what the copies
\* must then be decides.
LEMMA OverCertain ==
  ASSUME IInv, NEW w \in Writes, Open(w), Ended(w), \A v \in Writes \ {w} : Same(v),
         ~doubt' => ~doubt /\ ~Working(w) /\ FetchRight' /\ DataRight'
  PROVE  Certain'
  <1> DEFINE x == doubt'
  <1>1. \A v \in Writes : GateSound(v)'
    BY ExchangeSound, Names DEF IInv
  <1>2. ~x => /\ \A v \in Writes : ~Pending(v)'
              /\ FetchRight' /\ DataRight'
    BY OverCalm
  <1> QED BY <1>1, <1>2, CertainCalm

\* The cart page opens, or stays, after an addition.
LEMMA AddDoneKeeps ==
  ASSUME IInv, NEW w \in Writes, AddDone(w)
  PROVE  IInv'
  <1> DEFINE kept == Open(CartFetch) /\ data = NoBody
  <1>1. /\ leg[w] = "answered" /\ code[w] = 200 /\ prev[w] = NoBody /\ Types
        /\ stale' = (data # NoBody) /\ Enter("cart", NoBody, ~kept, {w})
        /\ doubt' = (doubt \/ kept) /\ UNCHANGED <<cart, order, data, prev>>
    BY DEF AddDone, Done, CartRequests, IInv
  <1>2. /\ (~kept) \in BOOLEAN /\ {w} \in SUBSET Writes /\ doubt' \in BOOLEAN /\ stale' \in BOOLEAN
        /\ "cart" \in {"product", "cart", "checkout", "order"} /\ NoBody \in Writes \cup {NoBody}
        /\ "cart" = "order" <=> NoBody # NoBody
    <2>1. (~kept) \in BOOLEAN /\ doubt' \in BOOLEAN /\ stale' \in BOOLEAN
      <3>1. stale' \in BOOLEAN
        BY <1>1, Zenon
      <3>2. doubt' \in BOOLEAN
        BY <1>1, Zenon
      <3>3. (~kept) \in BOOLEAN
        OBVIOUS
      <3> QED BY <3>1, <3>2, <3>3
    <2> QED BY <2>1
  <1>3. /\ GatewayTypes' /\ ReadsMoved
        /\ Ended(w) /\ \A v \in Writes \ {w} : Same(v)
        /\ IF ~kept THEN SentAs(CartFetch, fetchCart) ELSE Same(CartFetch)
        /\ IF loc = "cart" /\ shown = NoBody THEN Same(OrderFetch) ELSE Forgotten(OrderFetch)
        /\ loc' = "cart" /\ shown' = NoBody /\ mine' \in [Writes -> BOOLEAN]
        /\ seen' = IF loc = "cart" /\ shown = NoBody THEN seen ELSE "none"
        /\ \A v \in Writes : mine'[v] => mine[v] /\ loc = "cart" /\ v # w
    <2> DEFINE fetch == ~kept
               done == {w}
    <2>1. /\ fetch \in BOOLEAN /\ done \in SUBSET Writes /\ Enter("cart", NoBody, fetch, done)
          /\ fetch <=> ~kept
          /\ \A v \in Writes : v \in done <=> v = w
      BY <1>1, <1>2
    <2> HIDE DEF kept, fetch, done
    <2> QED BY <1>2, <2>1, EnterMoves
  <1>4. seen' = "none" /\ PageSound'
    <2>1. seen' = "none"
      BY <1>3 DEF IInv, PageSound
    <2>2. leg'[OrderFetch] = "idle"
      BY <1>3 DEF IInv, PageSound, Same, Forgotten
    <2>3. \A v \in Writes : ~(mine'[v] /\ op'[v].do = "cancel")
      BY <1>3 DEF IInv, PageSound, Same
    <2> QED BY <1>3, <2>1, <2>2, <2>3 DEF PageSound
  <1>5. ASSUME NEW v \in Writes
        PROVE  StepSound(v)'
    BY <1>1, <1>3 DEF IInv, StepSound, Same, Open, InFlight
  <1>6. Certain'
    <2>1. ASSUME ~doubt'
          PROVE  ~doubt /\ ~Working(w) /\ FetchRight' /\ DataRight'
      <3>1. ~doubt /\ ~kept
        BY <1>1, <2>1
      <3>2. ~Working(w)
        BY <1>1 DEF IInv, WriteSound, Working
      <3>3. FetchRight'
        BY <1>3, <3>1 DEF FetchRight, SentAs
      <3>4. DataRight'
        BY <1>1 DEF DataRight
      <3> QED BY <3>1, <3>2, <3>3, <3>4
    <2> QED BY <1>1, <1>3, <2>1, OverCertain DEF Open
  <1>7. data' \in Carts \cup {NoBody} /\ prev' \in [Writes -> Carts \cup {NoBody}]
    BY <1>1 DEF Types
  <1> QED BY <1>1, <1>2, <1>3, <1>4, <1>5, <1>6, <1>7, PageMove

\* A step on the cart page is answered.
LEMMA StepDoneKeeps ==
  ASSUME IInv, NEW w \in Writes, StepDone(w)
  PROVE  IInv'
  <1>1. /\ leg[w] = "answered" /\ code[w] = 200 /\ w \in CartRequests /\ Types /\ Shut(w)
        /\ mine' = [mine EXCEPT ![w] = FALSE] /\ doubt' = (doubt \/ op[w].do = "add")
        /\ UNCHANGED <<cart, order, loc, shown, data, stale, seen>>
    BY DEF StepDone, Done, IInv
  <1>2. doubt' \in BOOLEAN
    BY <1>1, Zenon
  <1>3. /\ GatewayTypes' /\ ReadsMoved /\ Ended(w) /\ \A v \in Writes \ {w} : Same(v)
        /\ Same(CartFetch) /\ Same(OrderFetch)
        /\ prev' \in [Writes -> Carts \cup {NoBody}]
        /\ \A v \in Writes : StepSound(v)'
    BY <1>1, ShutMoves
  <1>4. PageSound'
    <2>1. \A v \in Writes : mine'[v] /\ op'[v].do = "cancel" => seen # "none"
      BY <1>1, <1>3 DEF IInv, PageSound, Same, Types
    <2> QED BY <1>1, <1>3, <2>1 DEF IInv, PageSound, Same
  <1>5. Certain'
    <2>1. ASSUME ~doubt'
          PROVE  ~doubt /\ ~Working(w) /\ FetchRight' /\ DataRight'
      <3>1. ~doubt /\ op[w].do = "remove"
        BY <1>1, <2>1 DEF IInv, StepSound, CartRequests
      <3>2. ~Working(w) /\ Begun(w)
        BY <1>1 DEF IInv, WriteSound, Working, Begun
      <3>3. ~Open(CartFetch) /\ data = cart
        BY <1>1, <3>1, <3>2 DEF IInv, Certain, StepRight, Stepping, Pending, Open
      <3>4. code[CartFetch] # 200
        BY <3>3, Names DEF IInv, GateSound, Open
      <3> QED BY <1>1, <1>3, <3>1, <3>2, <3>3, <3>4 DEF FetchRight, DataRight, Same
    <2> QED BY <1>1, <1>3, <2>1, OverCertain DEF Open
  <1>6. mine' \in [Writes -> BOOLEAN]
    BY <1>1 DEF Types
  <1>7. /\ loc' \in {"product", "cart", "checkout", "order"} /\ shown' \in Writes \cup {NoBody}
        /\ seen' \in Statuses \cup {"none", "error"}
        /\ data' \in Carts \cup {NoBody} /\ stale' \in BOOLEAN
    BY <1>1 DEF Types
  <1> QED BY <1>1, <1>2, <1>3, <1>4, <1>5, <1>6, <1>7, PageMove

\* The order's page opens, or stays, after a checkout.
LEMMA CheckoutDoneKeeps ==
  ASSUME IInv, NEW w \in Writes, CheckoutDone(w)
  PROVE  IInv'
  <1>1. /\ leg[w] = "answered" /\ code[w] = 200 /\ op[w].do = "checkout" /\ Types
        /\ data' = EmptyCart /\ stale' = FALSE /\ Enter("order", w, FALSE, {w})
        /\ doubt' = (doubt \/ body[w] # "CONFIRMED" \/ Open(CartFetch))
        /\ UNCHANGED <<cart, order, prev>>
    BY DEF CheckoutDone, Done, IInv
  <1>2. /\ doubt' \in BOOLEAN /\ {w} \in SUBSET Writes /\ EmptyCart \in Carts
        /\ prev[w] = NoBody /\ w # NoBody /\ w \in Writes \cup {NoBody}
        /\ "order" \in {"product", "cart", "checkout", "order"} /\ FALSE \in BOOLEAN
        /\ "order" = "order" <=> w # NoBody
    <2>1. doubt' \in BOOLEAN
      BY <1>1, Zenon
    <2> QED BY <1>1, <2>1, Names DEF EmptyCart, Carts, IInv, StepSound
  <1>3. /\ GatewayTypes' /\ ReadsMoved
        /\ Ended(w) /\ \A v \in Writes \ {w} : Same(v)
        /\ Same(CartFetch)
        /\ loc = "order" /\ shown = w => Same(OrderFetch)
        /\ loc' = "order" /\ shown' = w /\ mine' \in [Writes -> BOOLEAN]
        /\ seen' = IF loc = "order" /\ shown = w THEN seen ELSE "none"
        /\ \A v \in Writes : mine'[v] => mine[v] /\ loc = "order" /\ shown = w /\ v # w
    <2> DEFINE fetch == FALSE
               done == {w}
    <2>1. /\ fetch \in BOOLEAN /\ done \in SUBSET Writes /\ Enter("order", w, fetch, done)
          /\ ~fetch
          /\ \A v \in Writes : v \in done <=> v = w
      BY <1>1, <1>2
    <2> HIDE DEF fetch, done
    <2> QED BY <1>2, <2>1, EnterMoves
  <1>4. PageSound'
    <2>1. CASE loc = "order" /\ shown = w
      BY <1>2, <1>3, <2>1 DEF IInv, PageSound, Same
    <2>2. CASE ~(loc = "order" /\ shown = w)
      BY <1>2, <1>3, <2>2 DEF PageSound
    <2> QED BY <2>1, <2>2
  <1>5. ASSUME NEW v \in Writes
        PROVE  StepSound(v)'
    BY <1>1, <1>2, <1>3 DEF IInv, StepSound, Same, Open, InFlight
  <1>6. Certain'
    <2>1. ASSUME ~doubt'
          PROVE  ~doubt /\ ~Working(w) /\ FetchRight' /\ DataRight'
      <3>1. ~doubt /\ body[w] = "CONFIRMED" /\ ~Open(CartFetch)
        BY <1>1, <2>1
      <3>2. ~Working(w)
        BY <1>1 DEF IInv, WriteSound, Working
      <3>3. cart = EmptyCart
        BY <1>1, <3>1 DEF IInv, Certain, CheckoutRight
      <3>4. code[CartFetch] # 200
        BY <3>1, Names DEF IInv, GateSound, Open
      <3> QED BY <1>1, <1>3, <3>1, <3>2, <3>3, <3>4 DEF FetchRight, DataRight, Same
    <2> QED BY <1>1, <1>3, <2>1, OverCertain DEF Open
  <1>7. /\ prev' \in [Writes -> Carts \cup {NoBody}] /\ seen' \in Statuses \cup {"none", "error"}
        /\ shown' \in Writes \cup {NoBody} /\ data' \in Carts \cup {NoBody}
    <2>1. seen' \in Statuses \cup {"none", "error"}
      BY <1>1, <1>3 DEF Types
    <2>2. shown' \in Writes \cup {NoBody} /\ data' \in Carts \cup {NoBody}
      BY <1>1, <1>2, <1>3
    <2> QED BY <1>1, <2>1, <2>2 DEF Types
  <1>8. /\ loc' \in {"product", "cart", "checkout", "order"} /\ stale' \in BOOLEAN
        /\ \A v \in Writes : Same(v) \/ Ended(v)
    <2>1. stale' \in BOOLEAN
      BY <1>1
    <2>2. \A v \in Writes : Same(v) \/ Ended(v)
      BY <1>3
    <2>3. loc' \in {"product", "cart", "checkout", "order"}
      BY <1>3
    <2> QED BY <2>1, <2>2, <2>3
  <1>9. UNCHANGED <<cart, order>>
    BY <1>1
  <1> QED BY <1>2, <1>3, <1>4, <1>5, <1>6, <1>7, <1>8, <1>9, PageMove

\* A cancellation is answered.
LEMMA CancelDoneKeeps ==
  ASSUME IInv, NEW w \in Writes, CancelDone(w)
  PROVE  IInv'
  <1>1. /\ leg[w] = "answered" /\ code[w] = 200 /\ op[w].do = "cancel" /\ Types /\ Shut(w)
        /\ body[w] = "CANCELLED" /\ seen' = (IF mine[w] THEN body[w] ELSE seen)
        /\ mine' = [mine EXCEPT ![w] = FALSE]
        /\ UNCHANGED <<cart, order, loc, shown, data, stale, doubt>>
    BY DEF CancelDone, Done, IInv, WriteSound
  <1>2. /\ GatewayTypes' /\ ReadsMoved /\ Ended(w) /\ \A v \in Writes \ {w} : Same(v)
        /\ Same(CartFetch) /\ Same(OrderFetch)
        /\ prev' \in [Writes -> Carts \cup {NoBody}]
        /\ \A v \in Writes : StepSound(v)'
    BY <1>1, ShutMoves
  <1>3. PageSound'
    <2>1. mine[w] => seen # "none"
      BY <1>1 DEF IInv, PageSound
    <2>2. \A v \in Writes : mine'[v] /\ op'[v].do = "cancel" => seen # "none"
      BY <1>1, <1>2 DEF IInv, PageSound, Same, Types
    <2>3. (seen' = "none" <=> seen = "none") /\ leg'[OrderFetch] = leg[OrderFetch]
      BY <1>1, <1>2, <2>1 DEF Same
    <2> QED BY <1>1, <2>2, <2>3 DEF IInv, PageSound
  <1>4. Certain'
    <2>1. ASSUME ~doubt'
          PROVE  ~doubt /\ ~Working(w) /\ FetchRight' /\ DataRight'
      <3>1. ~doubt /\ ~Working(w)
        BY <1>1, <2>1 DEF IInv, WriteSound, Working
      <3>2. \A v \in Writes : Harmless(v)
        <4>1. Harmless(w)
          BY <1>1 DEF IInv, StepSound, CartRequests, Harmless
        <4>2. Pending(w)
          BY <1>1 DEF Pending, Open
        <4> QED BY <3>1, <4>1, <4>2 DEF IInv, Certain, OnePending, Harmless
      <3>3. FetchRight /\ DataRight
        BY <3>1, <3>2 DEF IInv, Certain
      <3> QED BY <1>1, <1>2, <3>1, <3>3 DEF FetchRight, DataRight, Same
    <2> QED BY <1>1, <1>2, <2>1, OverCertain DEF Open
  <1>5. /\ loc' \in {"product", "cart", "checkout", "order"} /\ shown' \in Writes \cup {NoBody}
        /\ seen' \in Statuses \cup {"none", "error"} /\ mine' \in [Writes -> BOOLEAN]
        /\ data' \in Carts \cup {NoBody} /\ stale' \in BOOLEAN /\ doubt' \in BOOLEAN
    BY <1>1 DEF Types, Statuses
  <1> QED BY <1>1, <1>2, <1>3, <1>4, <1>5, PageMove

\* A write fails: the cart page puts back the cart that a step replaced.
LEMMA WriteFailsKeeps ==
  ASSUME IInv, NEW w \in Writes, WriteFails(w)
  PROVE  IInv'
  <1>1. /\ leg[w] = "answered" /\ Types /\ Shut(w)
        /\ mine' = [mine EXCEPT ![w] = FALSE]
        /\ data' = (IF w \in CartRequests THEN prev[w] ELSE data)
        /\ stale' = (stale /\ w \notin CartRequests)
        /\ doubt' = (doubt \/ Begun(w) \/ Working(w))
        /\ UNCHANGED <<cart, order, loc, shown, seen>>
    BY DEF WriteFails, Failed, IInv
  <1>2. doubt' \in BOOLEAN /\ stale' \in BOOLEAN
    BY <1>1, Zenon
  <1>3. /\ GatewayTypes' /\ ReadsMoved /\ Ended(w) /\ \A v \in Writes \ {w} : Same(v)
        /\ Same(CartFetch) /\ Same(OrderFetch)
        /\ prev' \in [Writes -> Carts \cup {NoBody}]
        /\ \A v \in Writes : StepSound(v)'
    BY <1>1, ShutMoves
  <1>4. PageSound'
    <2>1. \A v \in Writes : mine'[v] /\ op'[v].do = "cancel" => seen # "none"
      BY <1>1, <1>3 DEF IInv, PageSound, Same, Types
    <2> QED BY <1>1, <1>3, <2>1 DEF IInv, PageSound, Same
  <1>5. Certain'
    <2>1. ASSUME ~doubt'
          PROVE  ~doubt /\ ~Working(w) /\ FetchRight' /\ DataRight'
      <3>1. ~doubt /\ ~Working(w) /\ ~Begun(w) /\ Pending(w)
        BY <1>1, <2>1 DEF Pending, Open
      <3>2. CASE w \in CartRequests
        <4>1. ~Open(CartFetch) /\ cart = prev[w]
          BY <3>1, <3>2 DEF IInv, Certain, StepRight, Stepping
        <4>2. code[CartFetch] # 200
          BY <4>1, Names DEF IInv, GateSound, Open
        <4> QED BY <1>1, <1>3, <3>1, <3>2, <4>1, <4>2 DEF FetchRight, DataRight, Same
      <3>3. CASE w \notin CartRequests
        <4>1. \A v \in Writes : Harmless(v)
          BY <3>1, <3>3 DEF IInv, Certain, OnePending, Harmless
        <4>2. FetchRight /\ DataRight
          BY <3>1, <4>1 DEF IInv, Certain
        <4> QED BY <1>1, <1>3, <3>1, <3>3, <4>2 DEF FetchRight, DataRight, Same
      <3> QED BY <3>2, <3>3
    <2> QED BY <1>1, <1>3, <2>1, OverCertain DEF Open
  <1>6. /\ loc' \in {"product", "cart", "checkout", "order"} /\ shown' \in Writes \cup {NoBody}
        /\ seen' \in Statuses \cup {"none", "error"} /\ mine' \in [Writes -> BOOLEAN]
        /\ data' \in Carts \cup {NoBody}
    BY <1>1 DEF Types
  <1> QED BY <1>1, <1>2, <1>3, <1>4, <1>5, <1>6, PageMove

-----------------------------------------------------------------------------
(* The specification *)

LEMMA InitIInv == Init => IInv
  <1> SUFFICES ASSUME Init
               PROVE  IInv
    OBVIOUS
  <1>1. /\ \A r \in Requests :
             leg[r] \in {"idle", "edge"} /\ work[r] = "none" /\ code[r] = 0
        /\ \A w \in Writes : op[w] = Nothing /\ leg[w] = "idle"
        /\ op[CartFetch] = fetchCart /\ op[OrderFetch] = Nothing /\ op[OrderStream] = Nothing
        /\ leg[OrderFetch] = "idle" /\ leg[OrderStream] = "idle" /\ leg[CartFetch] = "edge"
    BY Names DEF Init
  <1>2. Types
    <2>1. cart \in Carts
      BY CartAssumption DEF Init, Carts
    <2>2. /\ leg \in [Requests -> {"idle", "edge", "upstream", "answered", "done"}]
          /\ work \in [Requests -> Places]
          /\ code \in [Requests -> {0, 200, 401, 404, 409, Failure}]
          /\ fresh \in [Requests -> BOOLEAN]
          /\ DOMAIN op = Requests /\ DOMAIN body = Requests
      BY DEF Init, Places
    <2>3. /\ order \in [Writes -> Statuses \cup {"none"}]
          /\ prev \in [Writes -> Carts \cup {NoBody}] /\ mine \in [Writes -> BOOLEAN]
      BY DEF Init
    <2> QED BY <2>1, <2>2, <2>3 DEF Init, Types
  <1>3. ASSUME NEW r \in Requests
        PROVE  GateSound(r)
    BY <1>1 DEF GateSound
  <1>4. ASSUME NEW w \in Writes
        PROVE  WriteSound(w) /\ StepSound(w) /\ ~Pending(w) /\ leg[w] # "done" /\ code[w] = 0
    BY <1>1, Names
       DEF Init, WriteSound, StepSound, Nothing, Deeds, Pending, Open, InFlight, Working
  <1>5. ReadsSound
    BY <1>1, Names DEF ReadsSound, Nothing, fetchCart
  <1>6. PageSound
    BY <1>1, Names DEF Init, PageSound
  <1>7. Certain
    BY <1>1, <1>4, Names
       DEF Init, Certain, OnePending, StepRight, Stepping, CheckoutRight, FetchRight, DataRight
  <1> QED BY <1>2, <1>3, <1>4, <1>5, <1>6, <1>7 DEF IInv

LEMMA StutterKeeps == IInv /\ UNCHANGED vars => IInv'
  <1> SUFFICES ASSUME IInv, UNCHANGED vars
               PROVE  IInv'
    OBVIOUS
  <1>1. /\ UNCHANGED <<gatewayVars, cart, order, body, pageVars>>
    BY DEF vars, apiVars
  <1>2. Types'
    BY <1>1 DEF IInv, Types, gatewayVars, pageVars
  <1>3. (\A r \in Requests : GateSound(r)')
        /\ \A w \in Writes : WriteSound(w)' /\ StepSound(w)'
    BY <1>1 DEF IInv, GateSound, WriteSound, StepSound, Open, InFlight, gatewayVars, pageVars
  <1>4. ReadsSound' /\ PageSound'
    BY <1>1 DEF IInv, ReadsSound, PageSound, gatewayVars, pageVars
  <1>5. Certain'
    BY <1>1 DEF IInv, Certain, OnePending, Harmless, FetchRight, DataRight, StepRight, Stepping,
                CheckoutRight, CartRequests, Pending, Open, InFlight, Working, Begun, gatewayVars,
                pageVars
  <1> QED BY <1>2, <1>3, <1>4, <1>5 DEF IInv

\* Every step of the specification.
LEMMA StepKeeps == IInv /\ [Next]_vars => IInv'
  <1> SUFFICES ASSUME IInv, [Next]_vars
               PROVE  IInv'
    OBVIOUS
  <1>1. CASE GatewayStep
    BY <1>1, GatewayKeeps DEF GatewayStep
  <1>2. CASE ServiceStep
    <2>1. UNCHANGED pageVars
      BY <1>2 DEF ServiceStep
    <2>2. ASSUME NEW r \in Requests, Throws(r) \/ ReadStep(r)
          PROVE  IInv'
      BY <2>1, <2>2, EndsEarly, ReadKeeps DEF ReadStep
    <2>3. ASSUME NEW w \in Writes, WriteStep(w)
          PROVE  IInv'
      BY <2>1, <2>3, Names, EndsEarly, CartWriteKeeps, OrderWriteKeeps, WriteEndsKeeps DEF WriteStep
    <2> QED BY <1>2, <2>2, <2>3 DEF ServiceStep
  <1>3. CASE Click
    <2>1. ASSUME NEW page \in {"product", "cart", "checkout", "order"},
                 NEW o \in Writes \cup {NoBody}, Visit(page, o)
          PROVE  IInv'
      BY <2>1, VisitKeeps
    <2>2. ASSUME NEW w \in Writes, ClickCheckout(w) \/ ClickCancel(w)
          PROVE  IInv'
      BY <2>2, ClickKeeps
    <2>3. ASSUME NEW w \in Writes, NEW p \in Products, ClickAdd(w, p) \/ ClickStep(w, p)
          PROVE  IInv'
      BY <2>3, ClickKeeps, StepClickKeeps
    <2> QED BY <1>3, <2>1, <2>2, <2>3 DEF Click
  <1>4. CASE BrowserStep
    <2>1. CASE CartArrives \/ CartFails \/ OrderArrives \/ StreamEnds
      BY <2>1, CartArrivesKeeps, CartFailsKeeps, OrderKeeps
    <2>2. ASSUME NEW r \in Requests, Resend(r)
          PROVE  IInv'
      BY <2>2, GatewayKeeps
    <2>3. ASSUME NEW w \in Writes, Answered(w)
          PROVE  IInv'
      BY <2>3, AddDoneKeeps, StepDoneKeeps, CheckoutDoneKeeps, CancelDoneKeeps, WriteFailsKeeps
         DEF Answered
    <2> QED BY <1>4, <2>1, <2>2, <2>3 DEF BrowserStep
  <1> QED BY <1>1, <1>2, <1>3, <1>4, StutterKeeps DEF Next

\* The inductive invariant holds throughout, whatever the shopper, the gateway and the
\* services do.
THEOREM Invariance == Spec => []IInv
  BY InitIInv, StepKeeps, PTL DEF Spec

-----------------------------------------------------------------------------
(* The properties *)

\* Every variable has a value of its type; only an order page shows an order's status, and
\* no handler works for a request that has not reached the gateway.
THEOREM TypeCorrect == Spec => []TypeOK
  <1>1. IInv => TypeOK
    BY DEF IInv, Types, GateSound, PageSound, TypeOK, GatewayTypeOK
  <1> QED BY <1>1, Invariance, PTL

\* While there is no doubt, a cart that the pages take for current is the stored one once
\* nothing is under way, whichever clicks, failures and answers there were before.
THEOREM CartIsStored == Spec => []FreshCartIsStored
  <1>1. IInv => FreshCartIsStored
    BY DEF IInv, Certain, Harmless, DataRight, FreshCartIsStored, Quiet
  <1> QED BY <1>1, Invariance, PTL

\* A request that was refused with a 401 or a 409 has done nothing.
THEOREM CleanRefusals == Spec => []RefusalsAreClean
  <1>1. IInv => RefusalsAreClean
    BY Names DEF IInv, GateSound, RefusalsAreClean, Begun, Working
  <1> QED BY <1>1, Invariance, PTL

\* Only a repeated request goes back to the gateway.
LEMMA OnlyResends ==
  ASSUME IInv, Next, NEW w \in Writes, leg[w] = "answered", leg'[w] = "edge"
  PROVE  Resend(w)
  <1>1. w \in Requests /\ Types
    BY Names DEF IInv
  <1>2. ~GatewayStep
    BY <1>1 DEF Types, GatewayStep, EdgeStep, TooMany, Unauthorized, UpstreamDown, Forward, GiveUp,
                AnswerWith
  <1>3. ~ServiceStep
    <2>1. ASSUME NEW r \in Requests, NEW status, End(r, status)
          PROVE  FALSE
      BY <1>1, <2>1 DEF Types, End
    <2>2. ASSUME NEW r \in Requests, NEW place, Proceed(r, place)
          PROVE  FALSE
      BY <2>2 DEF Proceed
    <2>3. \A r \in Requests : ~Throws(r) /\ ~ReadStep(r)
      BY <2>1 DEF Throws, ReadStep, fetchProductFails, getCart, getOrder, EndWith
    <2>4. \A v \in Writes : ~WriteStep(v)
      BY <2>1, <2>2, Names
         DEF WriteStep, addCartItem, removeCartItem, buildCart, CheckoutOfNothing, CheckoutStarts,
             SagaFails, SagaConfirms, ClearCart, CancelTwice, CancelStarts, CancelEnds, EndWith
    <2> QED BY <2>3, <2>4 DEF ServiceStep
  <1>4. ~Same(w) /\ ~Ended(w)
    BY DEF Same, Ended
  <1>5. ~Click
    <2>1. ASSUME NEW v \in Writes, NEW request, NEW dropped \in {{}, {CartFetch}}, NEW doubtful,
                 Send(v, request, dropped, doubtful)
          PROVE  FALSE
      BY <1>4, <2>1, SendMoves
    <2>2. \A v \in Writes : ~ClickCheckout(v) /\ ~ClickCancel(v)
      BY <2>1 DEF ClickCheckout, ClickCancel
    <2>3. \A v \in Writes, p \in Products : ~ClickAdd(v, p) /\ ~ClickStep(v, p)
      BY <2>1 DEF ClickAdd, ClickStep
    <2>4. ASSUME NEW page \in {"product", "cart", "checkout", "order"},
                 NEW o \in Writes \cup {NoBody}, Visit(page, o)
          PROVE  FALSE
      <3>1. PICK aged \in BOOLEAN : Enter(page, o, WantsCart(page, aged), {})
        BY <2>4 DEF Visit
      <3> DEFINE fetch == WantsCart(page, aged)
      <3>2. fetch \in BOOLEAN /\ {} \in SUBSET Writes /\ (page = "order" <=> o # NoBody)
        BY <2>4 DEF Visit, WantsCart
      <3> HIDE DEF fetch
      <3> QED BY <1>4, <3>1, <3>2, EnterMoves DEF fetch
    <2> QED BY <2>2, <2>3, <2>4 DEF Click
  <1>6. ~CartArrives /\ ~CartFails /\ ~OrderArrives /\ ~StreamEnds
    BY <1>1, <1>4, ReadMoves, Names DEF CartArrives, CartFails, OrderArrives, StreamEnds
  <1>7. \A v \in Writes : ~Answered(v)
    <2>1. ASSUME NEW v \in Writes, Shut(v)
          PROVE  FALSE
      BY <1>4, <2>1, ShutMoves
    <2>2. ASSUME NEW v \in Writes, NEW page \in {"product", "cart", "checkout", "order"},
                 NEW o \in Writes \cup {NoBody}, page = "order" <=> o # NoBody,
                 NEW fetch \in BOOLEAN, Enter(page, o, fetch, {v})
          PROVE  FALSE
      <3>1. {v} \in SUBSET Writes
        OBVIOUS
      <3> QED BY <1>4, <2>2, <3>1, EnterMoves
    <2>3. ASSUME NEW v \in Writes, AddDone(v)
          PROVE  FALSE
      <3> DEFINE fetch == ~(Open(CartFetch) /\ data = NoBody)
      <3>1. Enter("cart", NoBody, fetch, {v}) /\ fetch \in BOOLEAN
        BY <2>3 DEF AddDone
      <3> HIDE DEF fetch
      <3> QED BY <2>2, <3>1
    <2>4. ASSUME NEW v \in Writes, CheckoutDone(v)
          PROVE  FALSE
      <3> DEFINE fetch == FALSE
      <3>1. Enter("order", v, fetch, {v}) /\ fetch \in BOOLEAN /\ v # NoBody
        BY <2>4, Names DEF CheckoutDone
      <3> HIDE DEF fetch
      <3> QED BY <2>2, <3>1
    <2> QED BY <2>1, <2>3, <2>4 DEF Answered, StepDone, CancelDone, WriteFails
  <1>8. PICK r \in Requests : Resend(r)
    BY <1>2, <1>3, <1>5, <1>6, <1>7 DEF Next, BrowserStep
  <1>9. r = w
    BY <1>1, <1>8 DEF Types, Resend
  <1> QED BY <1>8, <1>9

\* api() retries once: no click is sent again once its handler has run, so that no retry of
\* the storefront's own adds a product twice or orders a cart twice.
THEOREM NothingSentTwice == Spec => SentAgainUntouched
  <1>1. IInv /\ [Next]_vars =>
          [\A w \in Writes :
             leg[w] = "answered" /\ leg'[w] = "edge" => ~Begun(w) /\ ~Working(w)]_vars
    <2> SUFFICES ASSUME IInv, Next, NEW w \in Writes, leg[w] = "answered", leg'[w] = "edge"
                 PROVE  ~Begun(w) /\ ~Working(w)
      OBVIOUS
    <2>1. code[w] = 401
      BY OnlyResends DEF Resend
    <2> QED BY <2>1, Names DEF IInv, GateSound, Begun, Working
  <1> QED BY <1>1, Invariance, PTL DEF Spec, SentAgainUntouched

\* An order that its page has shown as cancelled is shown as nothing else while the page
\* stays, whatever arrives late.
THEOREM CancelledStays == Spec => CancelSticks
  <1>1. ASSUME IInv, Next, seen = "CANCELLED", loc' = "order", shown' = shown
        PROVE  seen' = "CANCELLED"
    <2>1. loc = "order" /\ shown \in Writes /\ leg[OrderFetch] = "idle"
      BY <1>1 DEF IInv, Types, PageSound
    <2>2. CASE GatewayStep \/ ServiceStep \/ \E r \in Requests : Resend(r)
      BY <1>1, <2>2 DEF GatewayStep, ServiceStep, Resend, pageVars
    <2>3. CASE Click
      <3>1. ASSUME NEW page \in {"product", "cart", "checkout", "order"},
                   NEW o \in Writes \cup {NoBody}, Visit(page, o)
            PROVE  FALSE
        BY <1>1, <2>1, <3>1 DEF Visit, Enter
      <3> QED BY <1>1, <2>3, <3>1
              DEF Click, ClickAdd, ClickStep, ClickCheckout, ClickCancel, Send
    <2>4. CASE CartArrives \/ CartFails \/ OrderArrives \/ StreamEnds
      BY <1>1, <2>1, <2>4
         DEF IInv, ReadsSound, CartArrives, CartFails, OrderArrives, StreamEnds
    <2>5. ASSUME NEW w \in Writes, Answered(w)
          PROVE  seen' = "CANCELLED"
      <3>1. ~AddDone(w)
        BY <1>1 DEF AddDone, Enter
      <3>2. CheckoutDone(w) => seen' = seen
        BY <1>1, <2>1 DEF CheckoutDone, Enter
      <3>3. CancelDone(w) => seen' = "CANCELLED"
        BY <1>1 DEF IInv, WriteSound, CancelDone, Done
      <3>4. StepDone(w) \/ WriteFails(w) => seen' = seen
        BY DEF StepDone, WriteFails
      <3> QED BY <1>1, <2>5, <3>1, <3>2, <3>3, <3>4 DEF Answered
    <2> QED BY <1>1, <2>2, <2>3, <2>4, <2>5 DEF Next, BrowserStep
  <1>2. IInv /\ [Next]_vars =>
          [seen = "CANCELLED" /\ loc' = "order" /\ shown' = shown => seen' = "CANCELLED"]_vars
    BY <1>1
  <1> QED BY <1>2, Invariance, PTL DEF Spec, CancelSticks
=============================================================================
