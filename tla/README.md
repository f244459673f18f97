# A verification project for the shop's backend

The repository is the backend of a shop (FastAPI, SQLAlchemy over PostgreSQL,
Tinkoff for payments, Ory Kratos for identities, S3 for images, Redis for a
cache). These TLA+ modules model the parts of it where several actors meet: a
checkout becomes an order while others want the same stock, the bank is asked for
a payment in the middle of a database transaction and its notifications come back
in an order nobody controls, requests share sessions and cookies, images and
cached answers live outside the transactions that refer to them.

## The system

| component | state | operations | modelled in |
|---|---|---|---|
| Checkout and orders (`handlers/client/order`, `services/order`, `services/catalog`, `repositories/catalog.py`) | `catalog_item.ordered_quantity`, `order`, `order_item`, `payment`, `delivery` | `POST /checkout`, `POST /order`, the list of available items | `OrderPlacement`, promise `StockLedger` |
| Invoices (`services/order/utils.py`) | `invoice` | part of `POST /order` | `OrderInvoices` |
| Order view (`get_user_order`) | none | `GET /order` | `OrderView` |
| Payment notifications (`handlers/internal/notifications`) | statuses of payment, invoice, order | `POST /callback/notifications/payment-status` | `PaymentNotifications`, promise `OrderLifecycle` |
| Database session, access, errors (`depends`, `sql_alchemy/client.py`, `error_handlers.py`, middlewares) | one session per trace id | around every request | `RequestScope`, promise `HandlerTransactions` |
| Cart and favourites (`services/user`) | `cart_item`, `user_favorites` | `POST`, `PATCH`, `DELETE /user/cart`, favourites | `UserCart` |
| Session cookie (`SessionMiddleware`) | `checkout_data`, anonymous `cart` | read with a request, written back with each response | `OrderPlacement`, `UserCart` |
| Catalog administration, images (`handlers/admin`, `services/file_manager`) | categories, products, filter groups, publications, S3 objects | `POST /admin/...` | `Catalog` |
| Catalog reads (`handlers/client/catalog`) | a Redis cache of 3600 s | `GET /market/catalog` | `Catalog` |
| Authentication (`depends/auth.py`) | none here | lets a request in or turns it away | `RequestScope`, `UserCart` |
| CDEK widget, request signing, log records | none | proxy, hashing, formatting | - |

How they interact: a request passes the middlewares and the dependencies of
`bootstrap.py`. The session dependency commits when the handler has returned and
before the response is sent; whatever is raised before that ends without a
commit. Handlers are coroutines of one event loop and interleave wherever they
await, which is at every query and every HTTP call. They share the database, the
registry of sessions, and, per customer, the browser's cookie.

What is hard: row locks taken in any order; a value loaded in Python and written
back; locks held while the bank is awaited; its timeout; a commit without an
acknowledgement; a flush, a constructor or the bank failing half-way; a crash
anywhere; a basket or a cart in a cookie that is older than the database; two
requests with one trace id; notifications that are lost, repeated, overtaken or
handled twice at once, over rows each loaded by a query of its own; files put
before the transaction that refers to them; a cache filled with what was read
long ago. `PROJECT.json` lists these hazards at their lines with the properties
that cover them, and `map` gives the source lines of every definition.

## The modules

Every component has a module, an `MC...` module with the instances TLC checks,
and its runs' `.cfg` files. The operators called variants are plausible slips in
the code. They take part in no specification; each property fails when its
variant replaces the definition that `mutants` in `PROJECT.json` names. Theorems
are in `...Proofs` modules; `SumLemmas` has what they need of sums.

### OrderPlacement and StockLedger

`StockLedger` is what the shop promises of its stock: a request places at most one
order, which appears with the stock it takes, within the limit. `OrderPlacement`
is the code.

| variable | in the program |
|---|---|
| `cookie`, `carried` | `request.session['checkout_data']` as the browser keeps it, and as another request it has sent carries it |
| `cart` | rows of `cart_item` (their quantities play no part in an order) |
| `ordered` | committed `catalog_item.ordered_quantity` |
| `orders` | committed order, lines and payment of each request |
| `pc`, `customer`, `lines` | where the handler awaits, `USER_IDENTITY_CTX`, `checkout_items` |
| `scan`, `loaded`, `rowLock` | the `SELECT ... FOR UPDATE`: next row, loaded values, holders |
| `draft`, `clearing` | flushed and uncommitted: the order, the deleted cart rows |
| `bank` | what the bank made of `Init` |

A request goes through `locking` (rows one by one), `locked`, `reserved` (the
flush, with the CHECK constraint), `created` (order, lines, invoices flushed),
`calling`, `answered`, `recorded` (payment row), `cleared` (cart rows) and
`done`. `Rollback` is the single way out of all of them: any exception,
`OutOfStock`, `DeadlockAbort`, `NoAnswer`, `OrmRejects` and `Fault`. `Crash` ends
all requests at once. `BankDecides` happens in the bank's own time, also after
the client has given up. `SessionMiddleware` writes back the session of every
request that carries one: `Respond` does so for order requests, `Browse` and
`Return` for one other request of the browser, which may be answered long after the
basket has changed. More than one of these at a time would bring back no other
kind of basket than one that a checkout had verified before.

### PaymentNotifications and OrderLifecycle

`OrderLifecycle` is what the shop promises of an order and its money: placed,
confirmed by the bank, accepted, each once and in this order. `db` holds the three
statuses of one order; orders share no row here. `seen` is what a handler has
loaded. `LoadInvoice`, `LoadPayments` and `LoadOrder` are the `session.get` and
the `selectin` loads it causes, each a snapshot of its own. `Updated` is the
assignments of `update_payment_status`, and `Save` writes, as SQLAlchemy does, the
columns whose value differs from the loaded one. `Announce` and `Deliver` are the
bank: it notifies of a status until it has read `OK`, does not wait with the next
one for that, and knows the payment before `POST /order` has committed, so that
any notification may find no invoice (`MissingInvoice`). Statuses without a row in
the mapping are one status, `OTHER`. Only notifications whose token verifies are
modelled; the others change nothing.

The code takes a paid invoice back to WAITING when an AUTHORIZED is handled late,
and payment and invoice fall apart when an AUTHORIZED and a CONFIRMED are handled at
the same time. Two history variables take down when either has happened: `late`
and `crossed`. The properties about the invoice say what holds until then, with any
number of copies, retries and overlaps, and that nothing else takes PAID back
(`PaidYieldsOnlyToAuthorized`).

### OrderInvoices and OrderView

`OrderInvoices` is one step: the basket and the credit ids are chosen by `Init`
and `CreateOrder` computes invoices, lines and the charge. Lists and dicts are
tagged where the difference matters. `OrderView` goes on from there: the
invoices of the order are paid in any order (`DepositPaid`, `PartPaid`) and its
owner looks at it at any time. `status` holds `InvoiceORM.status`, `view` the last
answer until something changes. The query has no `ORDER BY`, so that `CreditsOf`
is a set: any unpaid invoice may come first. The ways in which `get_user_order`
raises are actions of their own. Nothing under `src` makes payments for the CREDIT
invoices; that they get paid is taken from `update_payment_status`, which treats
them like the others.

### RequestScope and HandlerTransactions

`HandlerTransactions` is what the session dependency promises to a request that
overlaps no other of its trace id: its work is committed in one step or never,
before its answer and not after it, and the answer says which, unless the commit
itself was in doubt. `OrderPlacement`, `PaymentNotifications` and `Catalog` rely on
it wherever they commit or roll back in one step. The promise ends with the first
overlap (`Overlap`). `RequestScope` is the code.

What surrounds every handler. `trace` is `TRACE_ID_CTX`: the client's
`X-Request-ID`, or the request's own name for a fresh uuid4. `registry` is what
`async_scoped_session` keeps by trace id, `flushed` what the session of each trace
id holds uncommitted, `db` what is committed. A handler is a number of statements,
each sent to the session found by the trace id, which is made if there is none
(`Flush`, by a GET as well). `Receive`, `TurnAway`, `Invalid` and `Admit` are
middlewares and dependencies up to the handler; `Commit`, `CommitFails` and `Except`
the end of `init_ctx_db_session`; `Close` and `Forget` the two halves of `remove()`,
which awaits in between; `Answer` the exception handlers and the middleware. A
request can be cancelled where it awaits; a CancelledError is no `Exception`, so
that only `close()` rolls it back, as it does for an `ExpectedError` and for any GET.
`CloseFails` is a `close()` that raises or is cancelled: the registry keeps the
session, for whoever comes next with that trace id, but the connection and its
transaction are gone. `shared` is history: the
requests that overlapped another of their trace id. For `HandlerTransactions`, a
request is committed when all of its statements are.

### Catalog

`categories`, `products`, `groups`, `items` and `active` are committed rows,
`stored` counts the files of a product in S3, `cache` is Redis. A product request
goes from `StartProduct` (or `CategoryMissing`) over one `PutVariant` per file to
`CommitProduct`; `PutFails` may have written its file, `CommitConflict` is the
unique title of a filter group, found out by the commit only. `wanted` is the
filter group it will merge, of which `merge()` writes what differs from what it
loaded. `Publish` commits a publication with its items. Readers list the
publications, load their items and fill the cache in three steps, so that they
fill it with what they read before something changed. `Withdraw` stands for
`is_active` reset by hand: the reads depend on it and no handler does it.

### UserCart

`rows` are the quantities of `cart_item` (0 for no row), `cookie` the anonymous
cart, `patch` the PATCH requests with what they have read: `ReadAvailable`,
`ReadRow`, `WriteRow` are the three awaits of `change_cart_item_quantity`'s route.
`SessionCart` is what `get_current_user` makes of the cookie's cart. `Order` is a
committed order of `OrderPlacement`: its quantities are those of `checkout_data`,
whatever is in the cart by then, it takes the stock of the lines that have a limit
and removes the rows of all of them. Quantities of lines are positive here, which
`CartWithinLimit` needs: they keep what is available below the item's quantity. No
schema says so; `OrderPlacement` and its theorems do without it and allow any
integer.

Three things the code does are in the module as they are. Keys of the cookie's
cart are strings after a round trip, and are looked up by UUID: a DELETE without a
user raises, a PATCH finds nothing. An item without limit cannot be changed:
`max(None, 5)` raises. And every PATCH fails today at its first step, because
`CatalogItemCheckoutDataDTO` is built without required fields
(`repositories/catalog.py:107`): `PatchFails` is always possible, and the steps
after it say what happens once these fields are optional. With the failure only,
the cart would run through fewer of the same behaviours.

### Facts about the surroundings that are taken as given

- PostgreSQL, READ COMMITTED: a row lock is held to the end of the transaction,
  a row waited for is read as its last holder committed it, a cycle of waiting
  transactions loses a member, a failed transaction leaves nothing.
- `INSERT ... ON CONFLICT DO NOTHING` of a cart row waits for a transaction that
  has deleted the row.
- A response writes back the session its request came with.
- `OrderPlacement`, `PaymentNotifications`, `Catalog` and `UserCart` are about
  requests with trace ids of their own; `RequestScope` says what these may rely on.
- Items stay active and their `quantity` is not changed while orders run: no
  handler changes it.
- `create_order` gives a dict, and `None`, to relationships mapped as lists. Whether
  they are taken is SQLAlchemy's affair, and both outcomes are kept: the pinned
  version refuses them, so that today every order ends in `OrmRejects`; everything
  behind it is checked as well, for the day the mapping takes what the dict holds.
- The parts of a credit plan are in their order and never updated. Prices and
  parts are whole roubles, as in the columns.
- S3 keeps what was put; Redis drops an entry after its hour.

## What TLC checks

| run | instance | properties |
|---|---|---|
| `order_stock` | 3 requests, items `a` (2 pieces) and `b` (unlimited), lines of 1, 1 customer | `TypeOK`, `StockMatchesOrders`, `RefusedOnlyIfSold`, `WithinLimit`, `ReservationHolds`, `LocksHeldByActive`, `DeadlocksAreSeen`, `LinkMeansOrder` |
| `order_requests` | 2 requests, items `a`, `b` and `p` (a preorder), lines of 2, 1 customer | `OneSectionPerOrder`, `CartLosesOnlyOrdered`, `ImplementsLedger` |
| `order_ends` | 2 requests, items `a` and `b`, lines of 2, 1 customer, `FairSpec` | `EveryRequestEnds` |
| `order_zero_quantity` | an item of quantity 0 | violated: `ApprovedLinesFit` |
| `notifications_concurrent` | 2 handlers, 2 faults, `FairSpec` | `TypeOK`, `AcceptedOnlyIfConfirmed`, `PaidMeansAccepted`, `AnsweredMeansAccepted`, `PaidUnlessLate`, `InvoiceFollowsPayment`, `PaidYieldsOnlyToAuthorized`, `ConfirmedIsAccepted`, `ImplementsLifecycle` |
| `order_view` | 2 items of price 3, 4 plans of up to 3 parts, quantities 1 and 2 | `TypeOK`, `InvoicesCoverOrder`, `FullPaymentMatchesInvoice`, `OfferMatchesPlan` |
| `order_view_stock_order` | the same | violated: `PreorderIsOptional` |
| `invoices_charge`, `invoices_lists` | prices 3 and 5 | violated: `ChargeMatchesInvoice`, `InvoicesAreLists` |
| `request_scope` | 2 requests, 1 id clients may send, 2 statements | `TypeOK`, `AllOrNothing`, `AnswerIsTrue`, `NoSessionLeft`, `ImplementsTransactions` |
| `catalog` | 2 products of 2 files, 1 category, 1 title, 2 publications, 2 readers, `FairSpec` | `TypeOK`, `ImagesInStore`, `CacheConverges` |
| `user_cart` | 1 user, an item of 3 pieces and one without limit, 2 PATCH requests, `MAX_CART_ITEM_QUANTITY` 2, lines of 1 and 2 | `TypeOK`, `CartWithinLimit`, `SignedInMeansTable`, `OnlyAddCreatesRow` |

Why the instances are large enough.

- Orders: two requests and two rows make a deadlock. With two pieces of `a` and
  three requests, two orders fit and the third finds nothing left, before or
  after it has loaded the row; with lines of two, one order sells a row out. `b`
  is the branch without a limit, `p` that of a preorder, and a basket of both is
  what `verify_checkout_data` has to refuse. Customers share nothing but the
  stock; that one cannot lose another's cart rows is proved (`CartsAreKept`).
  `order_ends` leaves out `p`: a preorder changes nothing about where a handler
  waits.
- Notifications: two handlers are two copies of one status, or two statuses of
  which one overtakes the other; their loads interleave at each SELECT, before and
  after the order's commit. The theorems are for any number.
- Invoices: with two lines some are split and some are not, also both or none of
  them. The plans are none, one that adds up to the price, one that does not, and
  a single part, which has a deposit and no credit invoice.
- Sessions: two requests share an id or not and end around each other at every
  step, or the second finds what a failed `close()` of the first has left; two
  statements make a half of a handler's work possible.
- Catalog: a product refers to the other's filter group and fails on its title;
  one reader is late while the other has filled the cache.
- Cart: the stock (3) is above the maximum (2), and an order lowers it below.

`MaxFaults`, `MaxFavourites`, the PATCH requests and the requests of a behaviour
bound it; the rest is finite by itself. Symmetry is used among requests, or PATCH
requests, which nothing compares, and in no run with a liveness property.
Deadlock checking is off where a finished instance has nothing left to do (every
run but `catalog`); that nothing waits for ever is `EveryRequestEnds`.

Fairness. `OrderPlacement`: weak fairness of each handler. The event loop runs a
ready task, the database grants a free row and detects deadlocks, and the HTTP
client times out after five seconds (`NoAnswer`). Nothing is asked of the
browser, the bank or failures. `PaymentNotifications`: the same for handlers, and
strong fairness of `Deliver`, as the bank sends again what it has no `OK` for while
an earlier copy may keep the handlers busy. `Catalog`: a reader that has begun
ends, and Redis expires an entry. Strictly, an entry that is filled again within
every hour never expires; but who fills it that often keeps it as fresh as what
was read last, so that nothing depends on the difference. Nobody is obliged to
announce, to commit, to publish, to read or to fail.

What the violated properties say.

- `ApprovedLinesFit`: `available` treats quantity 0 as no limit, so a checkout
  of such an item is approved and the order fails at the CHECK constraint.
- `ChargeMatchesInvoice`: with credit the bank is asked for the whole price, in
  the name of an invoice for the deposit.
- `InvoicesAreLists`: the relationships get a dict and `None`.
- `PreorderIsOptional`: an order without preorder cannot be viewed at all.

What is modelled and forbidden by no property, because the code neither promises
nor prevents it:

- AUTHORIZED handled after CONFIRMED sets the invoice back to WAITING (`late`), and
  the two handled at the same time can leave payment AUTHORIZED and invoice PAID
  (`crossed`). The order stays ACCEPTED throughout (`ImplementsLifecycle`).
- Two PATCH requests at once can lose one of two clicks.
- A request that shares its trace id with one that is still running may have its
  work committed or dropped by the other; `AllOrNothing` and `AnswerIsTrue` are
  about the others. `NoSessionLeft` holds for all.
- A second `POST /order` with the same cookie is a second order; a payment can be
  registered for an order that was rolled back; stock of an order never paid is
  never given back.
- A credit plan that is paid in full shows one part less than it has, and a line
  can have credit invoices without `by_credit`, so that the view does not offer
  them.
- Items without limit are never listed as available.
- A product's form can rename a filter group that other products use. Files of a
  product that failed stay in S3.
- Errors that are a `BaseError` but no `ServerError` are answered 520, whatever
  status they declare (`s520` in `RequestScope`).

## What is proved

For every value of the constants, with TLAPS, from the named assumptions on them.

`OrderPlacementProofs` (limits are naturals or NULL, line quantities are integers,
the sentinels are no elements): `TypeCorrect`, `NeverOversold` (`WithinLimit`),
`ReservationsHold`, `NoLockLeaks`, `LinksAreBacked`, `OrdersKeepToOneSection`,
`StockIsWhatOrdersTook` (`StockMatchesOrders`), `DeadlocksCanBeBroken`
(`DeadlocksAreSeen`); the action properties `CartsAreKept` and `RefusalsAreDue`
(`RefusedOnlyIfSold`); and `TablesImplementLedger`, that `OrderPlacement` implements
`StockLedger`.

None of the invariants is inductive alone: `WithinLimit` holds after a commit only
because the flush checked the same numbers, and these are the same only because
nobody else could commit the locked rows. `IInv` says what each phase owns. From
`locked` on a request holds every row of its basket (`HoldInv`); a locked row is
committed as its holder loaded it (`LoadedInv`); what was flushed is within the
limit (`FlushInv`); the draft is the basket's, and has its payment once that is
recorded (`DraftInv`); the cart rows deleted are the basket's (`CartInv`); only
finished requests have orders (`OrderInv`). One lemma per action, or group of
actions that touch the same parts, shows that it is kept. The refinement follows
since only a commit writes the tables (`OnlyCommitsWrite`), and a commit of a
request with these invariants is a `Place` of the ledger (`CommitPlaces`).
`SectionInv`, on top of it, follows a basket from the checkout that verified it
through the cookie, every response that writes it back, the request and the draft
to the order: it is of one section in all of these places, and a draft is filed
under it (`Filed`).

`StockIsWhatOrdersTook` is about a sum over all committed orders, for any number
of requests, infinitely many included: at any time finitely many have an order
(`StockInv`), and a commit adds one index to the sum of each item and the same
amount to its row (`CommitTakes`, `CommitKeepsStock`). `RefusalsAreDue` follows from
it and from `LoadedInv`: what a refused request has loaded is what the committed
orders have taken. `DeadlocksCanBeBroken`
needs that a scan never comes to a row its request has already (`ScanInv`); with
`LocksHeldByActive`, whoever waits waits for another request in progress. Among
finitely many requests that wait for each other only, a least set that is closed
under waiting is a cycle (`StuckMeansCycle`), which is what `DeadlockAbort` asks
for. It is the safety half of `EveryRequestEnds`; the other half is fairness.

`RequestScopeProofs` (at least one statement, ids are no requests): `TypeCorrect`,
`NoSessionStays` (`NoSessionLeft`), `HandlersAreAtomic` (`AllOrNothing`),
`AnswersAreTrue` (`AnswerIsTrue`); `ScopesImplementTransactions`, that `RequestScope`
implements `HandlerTransactions`; and `OwnIdsAreSafe`, that a request which sends no
`X-Request-ID` is atomic and told the truth, whatever ids the others send, overlap
with or leave sessions behind in. A
statement is only ever in the session of its request's trace id, and only while
that request is inside the dependency (`Located`); two requests inside with one
trace id are both known as shared (`SharedKnown`). So a commit, rollback or close
of another request cannot touch the session of a request that is not, and `Fate`
says of such a request, at every point of its way, what is committed of it and what
its session holds. `Flow` ties phases, statements and errors together. The
refinement has one lemma per kind of step: most steps stutter (`QuietStep`), a
commit is a `Commit` (`CommitSeen`), an answer a `Tell` (`AnswerSeen`), and a request
that comes to share its trace id an `Overlap`, possible only while it and those it
meets have no answer (`OverlapSeen`).

`PaymentNotificationsProofs`, for any number of handlers and faults:
`TypeCorrect`, `NothingShippedUnpaid` (`AcceptedOnlyIfConfirmed`),
`PaidOrdersAccepted` (`PaidMeansAccepted`), `NoConfirmationLost`
(`AnsweredMeansAccepted`) and `StatusesImplementLifecycle`, that
`PaymentNotifications` implements `OrderLifecycle`. The argument is that
`order.status` is only ever written as ACCEPTED, so that a loaded ACCEPTED, however
old, is still true (`SeenInv`): an UPDATE that leaves the column out leaves out
nothing, and only a handler that was told of the confirmation writes it.

`LateNotificationsProofs` adds what becomes of the invoice, from the same
specification and without a further assumption: `InvoicesFollowPayments`
(`InvoiceFollowsPayment`), `AnsweredIsPaid` (`PaidUnlessLate`) and the action property
`PaidYields` (`PaidYieldsOnlyToAuthorized`). The difficulty is the UPDATE that leaves
out a column whose loaded value is the new one. While nothing has crossed, all
handlers at work that write the invoice write the same to it, so that what one of
them has found done is still done (`FoundDone`); while nothing is late, only
confirmations write it once one is announced (`PaidInv`).

`UserCartProofs`, for any users, items, limits and PATCH requests: `TypeCorrect`,
`CartsKeepToLimits`, `SignedInUsesTable`, `PatchesCreateNothing`. The invariant says
what stays true of what a PATCH has read while it waits: the stock it saw is at
most the item's quantity (`StockSeen`), so that what it is about to write is within
the limit whatever the row has become (`WriteAllowed`).

`CatalogProofs`, for any products, files, publications and readers: `TypeCorrect`
and `NoImageMissing` (`ImagesInStore`). A committed product has all of its files
(`CommittedInv`), and whatever names a product got it from the table
(`PublishedInv`, `ServedInv`).

`OrderViewProofs`, for any basket, plans and order of payments: `InvoicesWellTyped`
(`TypeOK` of `OrderInvoices`), `OrdersAreCovered` (`InvoicesCoverOrder`),
`FullPaymentsMatch` (`FullPaymentMatchesInvoice`) and `OffersMatchPlans`
(`OfferMatchesPlan`). `OrderInv` carries the checkout, its plan and the invoices made
of it over to the order, and `InvoicesOfPlan` says how
`make_order_invoices_objects` numbers them, which is what `get_user_order` goes by.
The amounts are sums of sums: a plan is its first part and the others
(`PlanIsCovered`, by `SumShift` and `SumTimes`), the deposit has the first parts and
the whole prices, the rest is in the credit invoices (`SumPlus`, `SumOfPart`). It
assumes that there are finitely many items, that none is called `INITIAL`, as the
ids are UUIDs, and that `None` is no invoice.

`SumLemmas` has the facts about `SumFunctionOnSet` that these proofs rest on, for any
finite index set. The community module defines it by a recursive function on
subsets. The library's induction theorems take an operator as a parameter and
cannot be used; but the well-foundedness of `<` on the naturals and of inclusion
on finite sets is a first-order fact, so that each lemma takes a least
counterexample instead (`LeastNatural`, `LeastSubset`). That the recursion has a
solution is `SumsExist`, that it has one only `SumsAgree`, and `SumRemove`, from
which the others follow, takes any one index out of the sum.

Only model-checked is liveness, as fairness and ENABLED are out of the prover's
reach: `EveryRequestEnds`, `ConfirmedIsAccepted` and `CacheConverges`. Every other
property of a passing run is a theorem. The properties of the other runs are
refuted, each by one behaviour.

## What is not modelled

- CDEK widget: a proxy; client and token live for one request, no state is shared.
- Signing of payment requests and verification of tokens: hashing of bytes.
- Log records, Sentry, settings, wiring: formatting and configuration. That one
  error instance per type keeps the first request's debug text
  (`error_handlers.py:50`) concerns a text only.
- Prices in orders: an order keeps the price its checkout saw, and nothing in the
  code says how old that may be. Validation of `credit_parts` between the two
  models of a part can turn a checkout down and is one more way to raise.
- Who a cookie belongs to is Ory's affair; `check_admin_access` is used by no route.
- Reads that only copy columns: admin GETs, `GET /user/items`, `GET /checkout`.
  `get_publication` reads an attribute the row does not have
  (`services/catalog/service.py:226`) and always fails.
- Resizing of images: a source of failures only.
- The bank's own bookkeeping, and payments of CREDIT invoices, which no code makes.

## Plan

Done: the modules above, their runs, and theorems about every component that is
modelled. Left:

1. A module that composes order placement with the notifications of its orders.
   The two meet in one step, the commit (`CommitOrder`), which both have; the
   composition would restate `ImplementsLedger` and `ImplementsLifecycle`.
2. Filter groups: what a category shows while `merge()` moves groups between
   products.
