# A formal model of the microservices shop

This directory keeps TLA+ specifications of the shop in `src/ecommerce-micro`: five
HTTP/gRPC services in TypeScript over Postgres and Redis, a gateway and a React
storefront. TLC checks the specifications on small instances; TLAPS proves the theorems in
the `*Proofs` modules for every value of the constants. Paths below are relative to
`src/ecommerce-micro/apps` unless they say otherwise.

Contents: 1 the system, 2 the plan, 3 modules and code, 4 the checks and their bounds,
5 fairness, 6 proofs, 7 disagreements found, 8 what is not modelled.

## 1. The system

    browser tabs ── api-gateway ──┬── auth-service      (auth_db)
                    JWT, routes,  ├── product-service   (product_db, Redis)
                    rate limits   └── order-service     (order_db) ── events
                                        │ gRPC                 │ HTTP
                        inventory-service (inventory_db)   product-service
                        payment-service   (payment_db)

| Component | State | Operations | What is hard about it | What makes it correct |
|---|---|---|---|---|
| Inventory service (`inventory-service/src`) | tables `stock`, `reservations`, `reservation_items`; a pool of 10 Postgres clients | `ReserveStock`, `ReleaseReservation`, `GetStock` (a read) | transactions interleave at row locks; a read without `FOR UPDATE`; deadlocks; pool exhaustion; a COMMIT whose answer is lost; a process that ends in a transaction | units conserved; a reserve is all or nothing; no reserved unit without a reservation that returns it; `ok: true` is the truth; every call answered |
| Payment service (`payment-service/src`) | tables `payments` (UNIQUE `order_id`), `refunds`; mock PSP without memory | `AuthorizePayment`, `RefundPayment` | no transactions: every query is its own commit, checks are stale when used | one decision per order; refunds only of charges; answers true of the row; every call answered |
| Order service (`order-service/src`) | `carts`, `cart_items`, `orders`, `order_items` | cart edits, `checkout` (the saga), `cancelOrder`, reads, SSE stream | a saga of about ten awaits over three databases, concurrent with its user's cancellation and other checkouts; errors at any await; no recovery | nothing charged that is not reserved; nothing confirmed that is not authorized; refunds only of confirmed orders; failed orders return their stock; every request and every PENDING order ends |
| Events (`packages/events`) | a lazily connected Kafka producer | `publish` | best effort: errors are swallowed, no outbox | the events of an order tell one story |
| Contracts (`packages/contracts`) | none | gRPC clients (no deadlines), schemas, event types | lost replies, unbounded integers | |
| Auth service (`auth-service/src`) | `users`, `refresh_tokens` | register, login, refresh, me | rotation is SELECT, UPDATE, INSERT without a transaction | a refresh token is used once; an e-mail has one account |
| Storefront session (`storefront/src/api/client.ts`, `auth/AuthContext.tsx`) | access token per tab, refresh token in localStorage; a broadcast channel and a Web Lock where the browser has them | login, logout, 401 retry, refresh under the lock | tabs, late messages, a refresh that outlives a logout, a browser without Web Locks (`client.ts` 120) | with Web Locks no token is exchanged twice and no tab is logged out by another's refresh; in any browser the rotation is sound |
| Product service (`product-service/src`) | `products`, Redis list and detail keys with TTLs | list, get, create, availability | cache-aside races with invalidation, KEYS then DEL | an entry older than an invalidation does not survive it; what stays in the cache ends up true |
| Storefront cart and orders (`storefront/src/pages`) | React Query's cart, the order shown, the mutations under way | cart edits, checkout, cancel, stream | cached against server state, absolute and additive quantities, callbacks of pages that were left, clicks whose handler goes on | the cart shown is the stored one; a cancelled order stays cancelled on display |
| API gateway (`api-gateway/src`) | rate-limit windows | route match, token check, proxy | 10 s timeouts that give up on a saga that goes on | a refusal means nothing was done; every request is answered |
| Pages, styling, start-up, logging, health, seed data | none of interest | | | |

How they interact. The gateway proxies HTTP and passes the caller's identity in headers.
The order service is the only caller of inventory and payment, over gRPC without deadlines
and without retries; it awaits each reply before it goes on. It publishes events after the
fact. No service reads another's database: the only links between the three databases of
a checkout are order id, `reservation_id` and `payment_id`.

The hazards, each at its line with the properties that watch it, are the list `hazards` of
`PROJECT.json`.

## 2. The plan

Order of work, most important behaviour first. All but step 11 is done.

1. `StockLedger`: what inventory promises, as atomic decisions; an abstract specification
   that the saga can be composed with.
2. `Payment`: small enough that one module serves both as the detailed model, one step
   per query, and as the part the saga is composed with.
3. `CheckoutSaga`: the order service, composing `StockLedger` and `Payment` through
   `INSTANCE`.
4. `Inventory`: the transactions of the inventory service statement by statement, with
   row locks, pool, deadlocks, faults; shown to implement `StockLedger`.
5. `StockLedgerProofs`: type correctness, conservation, truthful answers.
6. `PaymentProofs`: type correctness, sound refunds, truthful answers, single decision.
7. `AuthTokens` and `StorefrontSession`: rotation on the server, composed with the tabs
   of a browser that share a refresh token.
8. `ProductCache`: cache-aside reads against `createProduct`, with TTLs as keys that may
   expire at any time and will.
9. `Gateway`, `OrderApi` and `ShopPages`: one tab's pages and React Query's cart, over the
   gateway that refuses, gives up and loses, over the handlers of the order service.
10. In `CheckoutSaga`, what is left of "stock is never left reserved on failure":
    `HeldOnlyIfReleaseFailed`.
11. The user that `AuthContext` shows in each tab, on top of `StorefrontSession`.
12. The rest of the safety properties as theorems, with the laws of finite sums they need:
    `Sums`, `CheckoutSagaProofs`, `InventoryProofs` (the refinement step by step),
    `StorefrontSessionProofs`, `ProductCacheProofs`, `ShopPagesProofs`; and the theorems of the
    services carried into the modules that use them.

The modules are written for both tools: parameters are constants with named assumptions,
there is one action per operation or statement, invariants are conjunctions of named
parts, and no module declares a RECURSIVE operator.

## 3. Modules and code

Conventions. A row that may be absent has the status `"NONE"`. `order_id` is UNIQUE in
`reservations` and `payments`, so both are named by their order. A gRPC call lives in the
slot of its caller (`invCall`, `payCall`) from request to reply: the caller awaits each
call, so one slot is enough, and the last reply stays readable there as the local variable
that holds it in the code. A handler moves from one await to the next.

### StockLedger (inventory service, atomic)

`available`, `reserved`, `reservation`, `lines` are the columns of the three tables.

| Action | Code in `inventory-service/src/inventory-handlers.ts` |
|---|---|
| `ReserveOk`, `ReserveRefused` | `reserveStock`, 23–70: every UPDATE matched a row, or a duplicate or a short product made it roll back |
| `ReserveAborted`, `ReserveAckLost` | its catch clause, 71–75, after a rollback and after a COMMIT that took effect |
| `ReleaseRead` | `releaseReservation`, 89–98: the SELECT of status ACTIVE, which locks nothing |
| `ReleaseOk`, `ReleaseCheckFails` | 99–118: items returned and row marked without a second look at the status; `CHECK (reserved >= 0)` of the schema may fail it |
| `ReleaseAborted`, `ReleaseAckLost` | the catch clause |

A reserve is one step because its first UPDATEs keep their row locks until COMMIT: `Inventory`
checks this claim instead of assuming it. A release is two, because its SELECT does not
lock.

### Inventory (inventory service, statement by statement)

A transaction is the set of rows it has written and so holds locked (`held`), and the row
its statement in progress wants (`next`). Writes appear at `Commit`. `Connect` is
`pool.connect()`, `Lookup` the BEGIN and first SELECT, `IssueUpdate` sends the next statement
(products in `product_id` order for a reserve, since the cart is read with ORDER BY; in any order
for a release, whose SELECT has none), `WriteRow` and `WriteRefused` its answer once no other
transaction holds the row. Faults: `Abort` (a statement fails), `CommitAckLost`,
`DeadlockVictim` (Postgres ends one transaction of a cycle), `Crash` (a rejected
`pool.connect()` is outside the try block, lines 28 and 86) and `LostReply`.

Refinement: `ledgerCall` maps a handler's stage to a ledger call. `Lookup` of a release that finds
ACTIVE is `ReleaseRead`, `Commit` is `ReserveOk` or `ReleaseOk`, `CommitAckLost` the
`AckLost` actions, refusals and victims the refusing and aborting actions; everything else
stutters. The mapping hands the ledger the fault `"abort"` even if no statement fails, as a
deadlock victim is one.

### Payment (payment service)

`payments`, `refunds` (a count of rows per order). One action per `pool.query` of
`payment-service/src/payment-handlers.ts`: `AuthorizeLookup` (41–55, replays a stored
row), `AuthorizeCharge` (57–65), `AuthorizeDuplicate` (the UNIQUE violation, answered ERROR by
66–69), `RefundLookup` (77–84), `RefundRecord` (86–89), `RefundMark` (90–92), and the catch
clauses as `AuthorizeError`, `AuthorizeAckLost`, `RefundError`, `RefundAckLost`.
`chargePsp` is the mock PSP; it keeps no state, so calling it twice is visible only
in the row that is inserted.

### CheckoutSaga (order service, composed)

| State | Code |
|---|---|
| `cart` | `cart_items.quantity`, 0 for no line |
| `status`, `orderItems`, `resvId`, `payId`, `confirmedAt` | columns of `orders` and `order_items`; ids as set or not set |
| `events` | what was handed to `publish`; delivery is best effort, so what arrives is some part of it |
| `pc` | the await a request is at |
| `want`, `target`, `snap` | the locals `cartRows`, the order loaded and `raw` |

An order is named by the checkout request that inserts it. The actions follow `checkout`
(202–311) and `cancelOrder` (326–366) of `order-service/src/handlers.ts` in order, one per
await that writes; `MarkPaymentFailed`, `Confirm` and `CancelMark` overwrite the status without
looking at it, as the UPDATEs do. `Throw` is any rejected await or the end of the process:
a 500, nothing undone. `InventoryStep` and `PaymentStep` are the other two services.

### AuthTokens (auth service)

`users` (e-mails that have a row), `owner`, `revoked`, `expired` are the rows of `users` and
`refresh_tokens`; a token stands for its hash. One action per query of
`auth-service/src/handlers.ts`: `RegisterCheck` (83–86), `RegisterInsert` (88–102, where the
UNIQUE constraint decides), `LoginCheck` (119–127), `RefreshLookup` (139–145),
`RefreshRevoke` (147), `IssueTokens` (`createRefreshToken` and the answer, at the end of all
three). `AuthThrow` is a query that rejects: a 500, with what was committed left as it is.
The lookup and the revocation of `refresh` are two statements, so that the service alone
does not make a token single use.

### StorefrontSession (the tabs of a browser, composed with AuthTokens)

| State | Code in `storefront/src/api/client.ts` |
|---|---|
| `stored` | `localStorage[REFRESH_KEY]` |
| `memory` | `tokens.refresh` of each tab |
| `inbox` | messages of the BroadcastChannel that a tab's listener has not handled, in order |
| `Features` (constant) | whether the browser has `navigator.locks` (120) and `BroadcastChannel` (29) |
| `lock` | the holder of the Web Lock `ecommerce.auth.refresh`; nobody where there are no locks |
| `pc`, `again` | where a run of `login`, `register` or `tryRefresh` is, and the login it repeats |
| `burnt` | history: tokens whose exchange was cut off |

`SendRefresh`, `Refreshed`, `NotRefreshed` and `NothingToRefresh` are `tryRefresh` (124–155)
from await to await, within `withRefreshLock` (118–122): where there are no locks, `SendRefresh` takes
none and waits for none. Without a channel, `SetTokens` sends nothing. `Unauthorized` is the retry of `api` (98–102), which takes the 401 of a refused
login for an expired access token too. Access tokens are not modelled: a 401 may
come at any time. `FetchRejects` and `Reload` release the lock while the service may still
be at work on the request.

### ProductCache (product service)

| State | Code in `product-service/src` |
|---|---|
| `rows` | the `products` table, products numbered in the order of their INSERTs |
| `cache` | Redis: `products:list:<query>` and `products:detail:<id>`, each with what was SET and, as history, the number of rows then (`at`) |
| `stock`, `moves` | what the inventory service answers to `GetStock`, and how often it has changed |
| `pc`, `key`, `total`, `page`, `got` | a GET between its awaits: its cache key, the `count(*)`, the rows selected, the availability answered so far |
| `step`, `product`, `victims` | a POST between its awaits: its row, the keys found by KEYS |
| `purged` | history: products whose creation completed its DEL |

`listProducts` is `getCached`, `CountRows`, `SelectPage`, `GetStock` once for each product in
any order, `setCached`; `getProduct` has `SelectRow` for the two statements. `createProduct` is
`Insert` (or `InsertThrows`), `ListKeys`, `DetailKeys`, `DeleteKeys`; a failing Redis command
(`RedisFails`, and the second disjunct of `getCached` and `setCached`) is swallowed as in
`cache.ts`. `Pages` gives the pages that a SQL ORDER BY with ties allows. A list is a
normalised query: what it selects, sorts by, skips and takes are parameters. The event of
a creation changes nothing here and is part of its answer. A product that was just created has
no stock row, so that `GetStock` answers 0 until `StockMoves`.

### Gateway, OrderApi and ShopPages (a tab, from click to row)

`Gateway` holds a request's way: `leg` for the browser's side, `work` for the service's handler.
`TooMany` is the limiter, `Unauthorized` `edgeAuth`, `UpstreamDown` and `GiveUp` the error
handler of the proxy before the request arrived and after, `Forward` the hand-over with the
service's own `requireAuth`, which verifies the same token at once. `GiveUp` leaves `work`
alone: nothing tells the handler. `OrderApi` extends it with the handlers, one step per await
that reads or writes something a page can tell: `addCartItem` and `removeCartItem` write and then
`buildCart` reads and looks the products up (`fetchProductFails` is the 404 of a look-up);
`checkout` inserts, ends one way or the other, and clears the cart; `cancelOrder` judges, undoes
and marks. What happens inside the saga is `CheckoutSaga`'s.

`ShopPages` is the tab.

| State | Code in `storefront/src` |
|---|---|
| `loc`, `shown` | the route; the id of the order page |
| `data`, `stale` | the query `["cart"]`, and whether it was invalidated |
| `seen` | the state `order` or `error` of `OrderTracking` |
| `prev` | the context `{ prev }` of a mutation of `Cart` |
| `mine` | mutations whose component is still mounted |
| `doubt` | history, see `FreshCartIsStored` |

`Visit` is a link or a route; `Enter` what mounting does (an observer fetches the cart, an order
page asks for its order and opens its stream). `ClickAdd`, `ClickStep`, `ClickCheckout` and
`ClickCancel` are the mutations' `mutationFn` and `onMutate`; `AddDone`, `StepDone`, `CheckoutDone`,
`CancelDone` and `WriteFails` their `onSuccess` and `onError`; `CartArrives`, `CartFails`,
`OrderArrives` and `StreamEnds` the reads. `Resend` is the second try of `api` after a 401.

What is abstracted. A token's age and the limiter's count are not kept: any request may
get a 401, unless its token has just been refreshed, or a 429. 429, 500 and 502 are one status.
`staleTime` is a choice (`aged`) when an observer mounts, and `retry: 1` is not counted. The
limits of a quantity from above are left out, and amounts and names with them. The stream is always refused, since an
`EventSource` sends no Authorization header; the model derives that from `HasToken`, whose mutant
shows what a stream with a token would do. The product query, the other tabs and StrictMode's
double mount are left out; the remount that `Page` in `App.tsx` causes on each new path is why an
order page forgets the order before.

## 4. The checks

All runs use model values. Deadlock checking is on everywhere but in `shop`, whose clicks are
used up and whose last page may rest: elsewhere a user may always edit a cart or a caller
send again, so that no state is a dead end.

| Run | Instance | Shows |
|---|---|---|
| `ledger` | 3 orders, 2 products (2 and 1 units), 2 baskets, 2 callers, both faults; 74k states | `TypeOK`, `StockConserved`, `NoStrandedStock`, `OkIsTruthful`, `CallsAnswered` |
| `inventory` | 3 orders, 2 products, 2 calls, pool of 2, all faults, symmetric orders and calls; 104k states | `TypeOK`, `DeadlockNeedsRelease`, and `ImplementsLedger`: the detailed module refines `StockLedger` |
| `inventory_liveness` | 1 order, 2 products, 3 calls, pool of 2 | `CallsAnswered` with fewer clients than calls, lock waits and deadlocks |
| `payment` | 2 orders, 2 callers, up to 2 refund rows before another is asked, both faults; 40k states | `TypeOK`, `RefundsAreOfCharges`, `AnswersAreTruthful`, `ChargedOnce`, `CallsAnswered` |
| `saga_safety` | one shopper, 2 checkouts of one cart for the last unit, 1 cancellation, every fault, handlers that die at any await, symmetric requests; 923k states | `TypeOK`, `ChargedOnlyIfReserved`, `RefundedOnlyIfConfirmed`, `EventsTellOneStory`, `HeldOnlyIfReleaseFailed`, `StockExact`, `AllOrNothing`, `ConfirmOnlyAuthorized` |
| `saga_progress` | 1 checkout of up to 2 units of which 1 is in stock, 2 cancellations, failing transactions and statements and lost answers to COMMITs in both services, fairness; 88k states | `RequestsEnd`, `PendingResolves` |
| `session` | 2 tabs with a flow each in a browser with Web Locks and a channel, 1 e-mail, 3 tokens of which 1 may expire, failing statements, calls cut off anywhere, symmetric tokens and tabs; 1.4M states | `TypeOK`, `NotLoggedOutByRace`, `ExchangedOnce`, `RotationSound`, `RegisteredOnce` |
| `session_liveness` | 1 tab with 2 flows, Web Locks, 3 tokens, calls cut off, fairness; 162k states | `RefreshEnds` |
| `catalog` | a list whose second page holds one of 2 products of equal price, the page of the second product, 2 readers, 1 creation, 1 change of stock, failing Redis and statements, fairness; 175k states | `TypeOK`, `NoEntryOutlivesInvalidation`, `CachesCatchUp` |
| `shop` | 1 product with one unit in the cart, 2 clicks that write, one under way at a time, every fault of the gateway and the services, fairness; 168k states | `TypeOK`, `FreshCartIsStored`, `RefusalsAreClean`, `SentAgainUntouched`, `CancelSticks`, `ClicksEnd` |
| `ledger_oversell`, `saga_cancel_race` | the smallest instance that shows it | section 7 |

Why the bounds are enough. The races are between two actors on one row: two calls on one
order, two transactions on two products (a deadlock needs two of each), two buyers of a
last unit. Oversell takes three orders: one released twice, one counting on the units, one
that takes them. The pool blocks a call with three calls and two clients. A saga is
disturbed by one cancellation and one competitor at a time; the second checkout of one shopper
is the double click or the retry after a timeout, and also what fills the cart during the
first. Another shopper can only compete for stock, as a second checkout does: carts and orders
are looked up by user. Quantities above one distinguish nothing in the saga, where the ledger decides
on stock; `ledger` and `inventory` use unequal quantities. `MaxRefunds` stops requests,
not handlers, so two refunds in flight may still exceed it by one; in the saga it bounds
nothing, because only cancellations refund.

`saga_progress` has one checkout: no handler waits for another, and the services always decide, so
that a competitor could only turn an acceptance into a refusal, which the second quantity does.

The lock matters to two flows, and the second look at localStorage to a login and two
rotations, which three tokens allow. In `session_liveness` the third token lets a refresh
that succeeds release the lock to a waiter, whose own refresh then succeeds or not. A tab handles its messages before anybody logs out or
starts a flow once it has `MaxInbox` of them (`Room`); flows under way go on
broadcasting, so that up to three messages queue. With one e-mail, the clause of
`RotationSound` that the new token is of the same user is not put to the test; the theorem
`Rotation` is for any users.

In `catalog` a reader and the creation race for the keys, the second reader for the same key; the
second page is empty before the creation and either product's after it, so that counts, pages
and ties all matter, and the page of a product that is not there yet is a 404 that must not
be cached. In `shop` the second click is the one after an error, a timeout or a success: a
handler that was given up on may work beside the second, although only one click
is answered at a time (`MaxOpen`). With `MaxOpen` 2 the safety properties hold as well (654k states,
not a run). An order page opened by a link shares nothing with the cart, so that one is opened only
while nothing about the cart is under way.

Named bounds: `MaxOpen`, `MaxStock`, `MaxMoves`, `MaxQty` (cart lines), `MaxInbox`, `MaxExpired`, the number of tokens, `MaxRefunds`, `PoolMax` (10 in the code), the sizes of
the sets. Each passing property has a mutant: a plausible bug in a mapped definition
(the definitions marked "Mutant" in the modules, used by no specification) under which
TLC finds the property violated.

Remarks on properties.
- `NoStrandedStock` is an inequality because of the double release: after it, `reserved` is
  below what ACTIVE reservations hold. `StockExact` says that this is the only way: without
  two releases of one reservation the two are equal. Where answers may be lost, a release that was
  answered `ok: false` counts as one that may have run.
- `AllOrNothing` excludes orders whose cancellation read them PENDING (section 7 says why) and orders
  with a `CallFailed`: a handler that died, a payment call that threw, a release that was refused, a
  reserve that took effect and was answered `ok: false`. What is left of those is in sections 1 and 7.
  Without faults `CallFailed` excuses nothing.
- `PendingResolves` is checked with every fault but `Throw`: a handler that dies leaves its order
  PENDING, as `GRPC.md` 121 says.
- `NotLoggedOutByRace` and `ExchangedOnce` are claimed for browsers with Web Locks
  (`"locks" \in Features`). Elsewhere `client.ts` 120 refreshes without a lock and both fail, see
  section 7.
- They except tokens whose exchange was cut off: a reload
  or a network error releases the lock while the service goes on, so that another tab may
  send the same token a second time. `client.ts` 14–20 speaks of the other case, tabs that
  stay open.
- `FreshCartIsStored` names every way in which the cart that pages take for current departs
  from the stored one; `doubt` remembers them until a fetch has answered while nothing was
  under way. TLC found two that were not obvious: a click on the quantity selector cancels the
  fetch that an addition started, so that the invalidated cart is taken for current, and a
  failed mutation puts back a cart older than another mutation's result.
- `NoEntryOutlivesInvalidation` does not say that entries are current: a reader that selected
  before the INSERT and SET after the DEL leaves an old answer for a TTL. Its `at` is the table
  when the entry was written, and `CachesCatchUp` says that such entries pass.
- `HeldOnlyIfReleaseFailed` is exact for PAYMENT_FAILED orders: the run reaches some that hold
  stock. A CANCELLED order may hold some too, see section 7.
- `RefreshEnds` excepts only `OutOfTokens`: a refresh has revoked its token and the model has none
  left to answer it with. That the last token was issued excuses nothing.
- `ChargedOnlyIfReserved` says that the reservation exists, not that it is ACTIVE: a
  cancellation may release it while the card is being charged.

## 5. Fairness

- A handler that can go on does (`WF` of `HandlerStep`, `Decide`): node's event loop runs
  every ready continuation, and Postgres answers statements.
- `Connect` and `UpdateAnswers` have strong fairness: the pool queues its waiters first
  in first out, and so does Postgres for a row lock, so a call that is granted again and
  again the chance is eventually served.
- No fault is fair: `Fail`, `Abort`, `CommitAckLost`, `Crash`, `Throw`, `AuthThrow`, `FetchRejects` and `Reload` may never happen,
  and no liveness property rests on them. `DeadlockVictim` is fair, because
  `deadlock_timeout` always breaks a cycle.
- `AcquireLock` has strong fairness: the browser grants a Web Lock in the order of the
  requests, and one without Web Locks does not make a flow wait. A tab that closes is covered by `Reload`, which releases its lock.
- `ProductCache`: statements, Redis commands and gRPC calls end, with an answer or an error, and a
  key expires, as every SET has an EX (`Expire`). Requests, creations and sales are not fair.
- `ShopPages`: a request at the gateway goes on or is given up on (`EdgeStep`, `GiveUp`: both
  timeouts are set), and the tab handles answers. The services are not fair: `ClicksEnd` holds with
  handlers that hang.
- Callers are not fair: nobody has to send, check out or cancel.

`RequestsEnd` and `PendingResolves` are checked under `abort` and `ackLost`, the faults of the
services and their databases, and without `Throw`: a handler of the order service that dies, or
whose own query or call rejects, leaves its order PENDING for ever, which `GRPC.md` 121 states as the
limit of a synchronous saga.

## 6. Proofs

Every safety invariant and every action property that a passing run checks is a theorem: it
holds for every number of orders, shoppers, tabs, tokens, readers, clicks and so on, and for
every set of faults unless the table says otherwise. What the runs show on small instances
beyond that is liveness.

| Module | Extends | Theorem | Property |
|---|---|---|---|
| `StockLedgerProofs` | `StockLedger` | `TypeCorrect`, `Conservation`, `Truthful`, `NothingStranded` | `TypeOK`, `StockConserved`, `OkIsTruthful`, `NoStrandedStock` |
| `PaymentProofs` | `Payment` | `TypeCorrect`, `RefundsSound`, `AnswersSound`, `SingleCharge` | `TypeOK`, `RefundsAreOfCharges`, `AnswersAreTruthful`, `ChargedOnce` |
| | | `UnboundedSound`, `UnboundedCharge` | the last three without the bound `MaxRefunds` |
| `InventoryProofs` | `Inventory` | `TypeCorrect`, `ReservesDoNotDeadlock`, `Refinement` | `TypeOK`, `DeadlockNeedsRelease`, `ImplementsLedger` |
| | | `StatementsKeepStock` | the ledger's three, of the tables that the statements write |
| `CheckoutSagaProofs` | `CheckoutSaga` | `TypeCorrect`, `ReservedBeforeCharged`, `ConfirmedBeforeRefunded`, `FailedPaymentHoldsNothing`, `OneStory`, `AuthorizedWhenConfirmed` | `TypeOK`, `ChargedOnlyIfReserved`, `RefundedOnlyIfConfirmed`, `HeldOnlyIfReleaseFailed`, `EventsTellOneStory`, `ConfirmOnlyAuthorized` |
| | | `ExactStock`, and `SagaAllOrNothing` if nothing fails | `StockExact`, `AllOrNothing` |
| | | `UsesTheLedger`, `SagaStock`, `SagaPayments` | `Inv!Spec`, and the properties of both services in the saga |
| `StorefrontSessionProofs` | `StorefrontSession` | `TypeCorrect`, `NoRace`, `SingleUse`, `Rotation`, `OneRegistration` | `TypeOK`, `NotLoggedOutByRace`, `ExchangedOnce`, `RotationSound`, `RegisteredOnce` |
| `ProductCacheProofs` | `ProductCache` | `TypeCorrect`, `InvalidationComplete` | `TypeOK`, `NoEntryOutlivesInvalidation` |
| `ShopPagesProofs` | `ShopPages` | `TypeCorrect`, `CartIsStored`, `CleanRefusals`, `NothingSentTwice`, `CancelledStays` | `TypeOK`, `FreshCartIsStored`, `RefusalsAreClean`, `SentAgainUntouched`, `CancelSticks` |

Each module has the same plan: an inductive invariant `IInv`, a lemma for each action or kind
of action, `NextIInv` (or `StepKeeps`) that splits Next into them, `Invariance`, and the
properties as consequences. Most lemmas show only what a step does to its own call, request or
transaction; one more says once why what is known of the others survives (`SlotKeeps` of
Payment, `OwnStep` of Inventory, `StepKeeps` of CheckoutSaga, `QuietStep` of
StorefrontSession).

**StockLedger.** `TypeOK /\ StockConserved /\ CallsSound /\ OkIsTruthful`. `TypeOK` is
inductive because `CheckHolds` guards the only subtraction from `reserved` and the basket test
the only one from `available`. `OkIsTruthful` needs `CallsSound`: a call in state "releasing"
is on a reservation whose row exists, so that releases never touch a row which a truthful "ok"
relies on. `NothingStranded` adds a column up: a step changes `Committed` by what it does to
one order's summand, and `reserved` by no more.

**Sums** holds the laws of `SumFunction` for that and for `StockExact`. The function is a
fold, so that even its recursion equation has to be proved, and the library's induction
theorems take an operator as a parameter, which no prover here can instantiate.
`SubsetInduction` goes another way: the subsets of a finite set for which a statement fails
are a set, and if it is not empty it has a smallest member (`WFMin` over
`StrictSubsetOrdering`).

**Payment.** `TypeOK /\ CallsSound /\ RefundsAreOfCharges /\ AnswersAreTruthful`, where
`CallsSound` adds that a refund in state "recorded" has its row. If the tables move only as
`Moves` allows (the body of `ChargedOnce`), all other calls' answers stay true; every step
satisfies `Moves`. The proof is of `Unbounded`, in which a caller may always ask for a refund:
`MaxRefunds` bounds only what TLC explores.

**Inventory.** A write is judged when its row is locked and appears when the transaction
commits, so the invariant says that what was judged still holds: `Exclusive` (no row is held
twice), `Judged` (every row held still has the units that were asked of it), `Placed` (where a
handler is, against its rows), `Sorted` (a reserve holds products before those it has still to
update) and the pool's bound. From `Sorted` no cycle of reserves can wait, as the one that
waits for the last product would have to be waited for by a later one. `Refinement` follows
step by step: initial states map to initial states, and each action to the ledger action named
in section 3 or to a stutter; a COMMIT writes all that the ledger's step writes, since `Todo`
is empty by then.

**CheckoutSaga.** The properties relate tables that no step looks at together; what connects
them is what each request has asked for. `Control` says how far a pc is along its calls,
`Slots` what each call slot is about and what its answer says, `Tables` which call wrote each
row, `Story` that what an event says stays true. `ConfirmOnlyAuthorized` follows because a
refund needs a cancellation that read CONFIRMED (`confirmedAt`), which the step that confirms
has yet to write. `ExactStock` adds that a RELEASED reservation has a call that was answered
ok, or whose answer may have been lost (`Given`), so that a second release to take effect would be
counted by `ReleasedOnce`.
`SagaAllOrNothing` adds `Calm`, what each request's place says of the rows of every service
when nothing fails, and what a cancellation's copy of the row (`snap`) still says of the row;
the five endings come out of a case analysis in `SettledOrders`.

**Composition.** `UsesTheLedger` shows that each step of the saga is a step or a stutter of
`StockLedger`. The theorems of `StockLedgerProofs` and `PaymentProofs` are then instantiated
for the saga's tables and calls (`LedgerFacts`, `PaymentFacts`), after their assumptions have
been shown from the saga's own, which gives `SagaStock` and `SagaPayments`. In the same way
`Refinement` carries the ledger's theorems down to the statements of `Inventory`
(`StatementsKeepStock`). None of this says that a unit is promised once, which section 7
refutes: the ledger conserves units, and keeps none reserved that no reservation returns.

**StorefrontSession.** The invariant says whose a token is: one that was answered and not yet
stored belongs to its answer alone (`FreshSound`), the one stored is unused unless a flow has it
in exchange (`StoredSound`), one in exchange that nobody waits for is burnt (`FlowSound`). This
holds in every browser, and `Rotation` and `OneRegistration` follow from it. Where there are Web
Locks, the flow which is fetching holds the lock (`LockHeld`), so that it alone has the stored
token in exchange; `FlowSound` then adds that a token sent although it was revoked is burnt. That is
what makes the service's unlocked rotation safe, and `NoRace` and `SingleUse` say it of
those browsers only.

**ProductCache.** The invalidation finds its keys in two commands and deletes them in a third.
`CreateSound` says what each command has achieved: every key older than the product that it
looked for is among the victims, since what is written in between is younger. The bound of the
table comes from counting the creations (`RowsCounted`, with the library's facts about
cardinality).

**ShopPages.** `GateSound` and `WriteSound` say where a handler can be, against the leg and
the answer of its request; from them follow the clean refusals and that nothing is sent again.
`PageSound` says which answers can still reach an order page. `Certain` is the core of
`CartIsStored`: while there is no doubt at most one write is pending, and at each of its
points it says how the copy shown, the copy to roll back to, an answer under way and the
stored cart differ. The proof found a fault of the model: two guards of the CASE in
`Gateway!Transmit` overlapped, so that TLC took the first where TLA+ leaves the choice open.
They are disjoint now.

Assumptions. Only the named ASSUMEs of the modules, which TLC evaluates in the runs of each:
`NoOrder`, `NoToken` and the like are values of their own; stock, baskets and bounds are
natural numbers; orders (`StockLedger`, `Inventory`), requests (`CheckoutSaga`) and creations
(`ProductCache`) are finitely many, for the sums and the count; products are sorted by
distinct ranks, and the pool is not empty. Everything else may be infinite.

Model-checked only:
- liveness, for which the prover has no rules of fairness and ENABLED: `CallsAnswered` (of three
  modules), `RequestsEnd`, `PendingResolves`, `RefreshEnds`, `CachesCatchUp`, `ClicksEnd`;
- the runs that find a violation, as a counterexample is one behaviour;
- `AllOrNothing` under faults, where `CallFailed` names the orders that may end otherwise: its theorem
  assumes that there are none.

## 7. Where code and documents disagree

Each of the first two is a run in which TLC finds a behaviour of the code that contradicts a quoted line.

- `ledger_oversell`: two concurrent releases of one reservation both read ACTIVE
  (`inventory-handlers.ts` 89, no FOR UPDATE) and return its units twice; the next reserve
  sells units that are promised. `GRPC.md` 92: "two people buying the last item cannot both
  win".
- `saga_cancel_race`: a cancellation that loaded the order while PENDING marks it
  CANCELLED after the checkout charged and confirmed it, with nothing undone.
  `OrderTracking.tsx` 68: "Any reserved stock has been released and any authorized payment
  refunded."

Also reachable in the models, against a quoted line, without a run of their own:
- Two cancellations that both load a CONFIRMED order before either marks it both
  answer 200 (`order-service/src/handlers.ts`, 331 against 350). `GRPC.md` 96: "Double-cancel is rejected
  with a 409." `StockExact` bounds what they can do to the stock.
- A reserve whose COMMIT took effect and whose answer was lost is answered
  `ok: false` (`inventory-handlers.ts` 68-75); the saga cancels the order (`handlers.ts` 250) without a
  reservation id, and its stock stays reserved. `ARCHITECTURE.md` 102: "stock is never left reserved on
  failure".
- The same line fails when the compensating release does: its answer is dropped (`handlers.ts` 278), and
  a PAYMENT_FAILED order keeps its stock. `HeldOnlyIfReleaseFailed` says that for a PAYMENT_FAILED
  order this is the only way.
- Where `navigator.locks` is missing (browsers offer it to secure origins only),
  `withRefreshLock` runs the refresh without a lock (`client.ts` 120); two tabs send one token, and
  the second is logged out of the session that the first renews. `client.ts` 118: "Cross-tab
  mutex so exactly one tab refreshes at a time." With `Features = {"channel"}` TLC finds
  `RaceLogsNobodyOut` violated. The passing runs have locks and channel; the theorems `TypeCorrect`,
  `Rotation` and `OneRegistration` hold for every value of `Features`.

Of the storefront and the product service:
- `ARCHITECTURE.md` 103 and 154 say that the page follows the saga live over SSE. An
  `EventSource` (`api/orders.ts` 48) carries no token, the gateway refuses it, and `onerror` closes
  it. `CancelSticks` depends on that: with a token, the stream's one event may
  arrive after a cancellation's answer and show the order as it was.
- `ARCHITECTURE.md` 155, "mutations invalidate precisely": the quantity selector of `Cart.tsx` posts the
  absolute quantity to the endpoint that adds it (18), nothing is invalidated afterwards,
  and `updateCartItem` is never called; `Checkout.tsx` 24 empties the cart on display whatever became
  of the order. `FreshCartIsStored` lists these among its exceptions.
- `createProduct` answers the requested stock as available (179), which no stock row backs; its
  own comment (151) and every later read say 0.
- The search effect of `Navbar.tsx` (17-26) runs when the tab opens and navigates to `/` 300 ms
  later, from whatever page was opened. In `AuthContext.tsx` (40-51) a profile that arrives after
  another tab's logout shows its user again. Neither is in a model.

Met while modelling, reachable in `CheckoutSaga` and not run separately: a CANCELLED status
overwritten by CONFIRMED or PAYMENT_FAILED; a CONFIRMED order whose reservation an early
cancellation released; a PAYMENT_FAILED order whose payment row is AUTHORIZED because the
INSERT's answer was lost; two refund rows for one payment; a cart line added during a
checkout and deleted by it. In `StorefrontSession`: a logout that is undone by a refresh in
flight; a late logout message that removes the refresh token of a newer login; two
logins at once after which each tab holds the other's token; an account whose registration
answered 500.

## 8. What is not modelled

- Not yet: the user that `AuthContext` shows (section 2, step 11), and what a logout does to
  mutations under way.
- Of the gateway: the routes of the auth and product services, whose public methods skip the
  token check, the trace header, and the path rewriting.
- Of the storefront: the catalog's filters in the URL (`Home.tsx`), the Navbar's search box, the list of
  orders, the forms, toasts. They are functions of one tab's URL and input, with no state the
  other modules share.
- Left out of `CheckoutSaga`: prices and totals (computed once, passed along), the reads
  (in `OrderApi`, but for `listOrders`), `ensureCart`, fetching
  product data (its failure before the INSERT ends the request with nothing done; later
  failures are `Throw`).
- Integer overflow of `quantity` and `total_cents`: an error of a statement, hence a `Throw`.
- Kafka: no consumer exists in the repository, so only what is published matters.
- Of the session: a browser that gains or loses Web Locks or the channel (`Features` is constant; tabs
  of one origin have the same). Without Web Locks a refresh is sent as soon as it is asked for, where
  the model lets other steps come between; the refutation of `RaceLogsNobodyOut` does not depend on
  them, as each tab may send at once. Also left out: the access token, the gateway's answers (a timeout or a rate limit of a
  refresh is any answer that is not ok, and ends the session), passwords.
- Start-up, logging, health checks, seed data, rendering and styling: no state that the
  properties speak of.
