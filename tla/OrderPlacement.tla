--------------------------- MODULE OrderPlacement ---------------------------
(***************************************************************************)
(* POST /checkout and POST /order: a basket is verified and kept in the    *)
(* browser's session cookie, then an order request locks the catalog rows  *)
(* of the basket, takes the stock, inserts the order, asks the bank for a  *)
(* payment link, stores the payment, empties the cart and commits.         *)
(*                                                                         *)
(* Each order request runs in one database transaction, that of the        *)
(* session dependency (transport/depends/db_session.py): it commits after  *)
(* the handler has returned and before the response is sent, and anything  *)
(* raised before that rolls all of it back.  The steps of the handler are  *)
(* separated where it awaits; requests interleave there.  The database     *)
(* (PostgreSQL, READ COMMITTED) and the bank are modelled from how the     *)
(* handler uses them.                                                      *)
(***************************************************************************)
EXTENDS Integers, FiniteSets, Functions

CONSTANTS
  Items,            \* the active catalog items
  Customers,        \* verified users, each with one browser session
  Requests,         \* the POST /order requests of a behaviour, each sent once
  Quantity,         \* CatalogItemORM.quantity of each item
  NoLimit,          \* ... when it is NULL
  PreorderOf,       \* publication_info.preorder_id of each item
  NoPreorder,       \* ... when it is NULL
  LineQuantities,   \* the quantities a basket line can ask for
  Nobody, NoRow, NoOrder

ASSUME QuantityAssumption ==
  /\ NoLimit \notin Int
  /\ Quantity \in [Items -> Nat \cup {NoLimit}]
ASSUME LineAssumption == LineQuantities \subseteq Int
VARIABLES
  \* the browser and the committed tables
  cookie,      \* session['checkout_data'] in each customer's browser
  carried,     \* ... as another unanswered request of that browser carries it
  cart,        \* items with a cart_item row, per customer
  ordered,     \* catalog_item.ordered_quantity
  orders,      \* the order of each request, with its payment; NoOrder if none
  \* the requests being served and their transactions
  pc,          \* where the handler of each request is
  customer,    \* who sent it
  lines,       \* checkout_items, read from the cookie the request carried
  scan,        \* the row its SELECT ... FOR UPDATE is about to lock
  loaded,      \* ordered_quantity as its session loaded it, locked rows only
  draft,       \* the order it has flushed and not committed
  clearing,    \* cart rows its DELETE has removed and not committed
  rowLock,     \* the request whose transaction holds each catalog_item row
  \* outside
  bank         \* what the bank knows of each request's payment

committed == <<cart, ordered, orders>>
transaction == <<scan, loaded, draft, clearing, rowLock>>
vars == <<cookie, carried, cart, ordered, orders, pc, customer, lines, scan, loaded,
          draft, clearing, rowLock, bank>>

-----------------------------------------------------------------------------
(* Baskets and orders *)

Baskets == UNION {[S -> LineQuantities] : S \in SUBSET Items}
EmptyBasket == [i \in {} |-> 0]
Rows(b) == DOMAIN b

Orders == [customer : Customers, lines : Baskets,
           preorder : {PreorderOf[i] : i \in Items},
           delivery : BOOLEAN, payment : BOOLEAN]

ASSUME SentinelAssumption ==
  /\ Nobody \notin Requests \cup Customers
  /\ NoRow \notin Items
  /\ NoOrder \notin Orders

\* is_preorder = any(item.preorder_id for item in checkout_items)
IsPreorder(b) == \E i \in Rows(b) : PreorderOf[i] # NoPreorder

\* CHECK (quantity IS NULL OR ordered_quantity <= quantity)
QuantityLimit(i, n) == Quantity[i] # NoLimit => n <= Quantity[i]

\* CatalogItemCheckoutDataDTO.available: unlimited unless total is truthy.
Available(i) ==
  IF Quantity[i] \in {NoLimit, 0} THEN NoLimit ELSE Quantity[i] - ordered[i]

-----------------------------------------------------------------------------
(* Where a request is *)

InTransaction == {"locking", "locked", "reserved", "created", "calling",
                  "answered", "recorded", "cleared"}
Finished == {"done", "failed"}
Phases == {"idle"} \cup InTransaction \cup Finished

Active(r) == pc[r] \in InTransaction
Held(r) == {i \in Items : rowLock[i] = r}
NothingLoaded == [i \in Items |-> 0]

\* ordered_quantity of a row as the transaction of r writes it.
NewQuantity(r, i) == loaded[r][i] + lines[r][i]

Advance(r, from, to) == pc[r] = from /\ pc' = [pc EXCEPT ![r] = to]

Init ==
  /\ cookie = [u \in Customers |-> EmptyBasket]
  /\ carried = [u \in Customers |-> EmptyBasket]
  /\ cart = [u \in Customers |-> {}]
  /\ ordered = [i \in Items |-> 0]
  /\ orders = [r \in Requests |-> NoOrder]
  /\ pc = [r \in Requests |-> "idle"]
  /\ customer = [r \in Requests |-> Nobody]
  /\ lines = [r \in Requests |-> EmptyBasket]
  /\ scan = [r \in Requests |-> NoRow]
  /\ loaded = [r \in Requests |-> NothingLoaded]
  /\ draft = [r \in Requests |-> NoOrder]
  /\ clearing = [r \in Requests |-> {}]
  /\ rowLock = [i \in Items |-> Nobody]
  /\ bank = [r \in Requests |-> "none"]

-----------------------------------------------------------------------------
(* POST /user/cart, POST /checkout and whatever else the browser asks for *)

\* INSERT ... ON CONFLICT DO NOTHING: waits while an uncommitted transaction
\* is deleting that row.
AddToCart(u, i) ==
  /\ \A r \in Requests : ~(customer[r] = u /\ i \in clearing[r])
  /\ cart' = [cart EXCEPT ![u] = @ \cup {i}]
  /\ UNCHANGED <<cookie, carried, ordered, orders, pc, customer, lines, transaction, bank>>

\* Variant: the preorder check compares nothing.
AnySection(b) == TRUE

OneSection(b) == \A i, j \in Rows(b) : PreorderOf[i] = PreorderOf[j]

\* No line is adjusted: it asks for no more than is available.
Approved(i, n) == Available(i) # NoLimit => n <= Available(i)

\* verify_checkout_data adjusts nothing and the basket goes into the session.
\* A basket it does adjust, or turns down, raises: its transaction rolls back,
\* the new cart quantities with it, and the session keeps the old basket.
Checkout(u, b) ==
  /\ b # EmptyBasket
  /\ OneSection(b)
  /\ \A i \in Rows(b) : Approved(i, b[i])
  /\ cookie' = [cookie EXCEPT ![u] = b]
  /\ UNCHANGED <<carried, committed, pc, customer, lines, transaction, bank>>

\* The browser sends another request, of a route that leaves the session alone or
\* a checkout that will raise.  One it sent before may never be answered.
Browse(u) ==
  /\ cookie[u] # EmptyBasket
  /\ carried' = [carried EXCEPT ![u] = cookie[u]]
  /\ UNCHANGED <<cookie, committed, pc, customer, lines, transaction, bank>>

\* Its response writes back the session it came with, over a newer one too.
Return(u) ==
  /\ carried[u] # EmptyBasket
  /\ cookie' = [cookie EXCEPT ![u] = carried[u]]
  /\ carried' = [carried EXCEPT ![u] = EmptyBasket]
  /\ UNCHANGED <<committed, pc, customer, lines, transaction, bank>>

-----------------------------------------------------------------------------
(* How a request ends *)

\* This response too writes the session its request came with back into the
\* cookie, unless it never reaches the browser.
Respond(r) ==
  /\ cookie' \in {cookie, [cookie EXCEPT ![customer[r]] = lines[r]]}
  /\ UNCHANGED carried

\* Variant: the session is forgotten without ending its transaction.
LeakLocks(r) ==
  /\ UNCHANGED rowLock
  /\ scan' = [scan EXCEPT ![r] = NoRow]
  /\ loaded' = [loaded EXCEPT ![r] = NothingLoaded]
  /\ draft' = [draft EXCEPT ![r] = NoOrder]
  /\ clearing' = [clearing EXCEPT ![r] = {}]
  /\ customer' = [customer EXCEPT ![r] = Nobody]
  /\ lines' = [lines EXCEPT ![r] = EmptyBasket]

\* The transaction is over: its locks and its session go.
Release(r) ==
  /\ rowLock' = [i \in Items |-> IF rowLock[i] = r THEN Nobody ELSE rowLock[i]]
  /\ scan' = [scan EXCEPT ![r] = NoRow]
  /\ loaded' = [loaded EXCEPT ![r] = NothingLoaded]
  /\ draft' = [draft EXCEPT ![r] = NoOrder]
  /\ clearing' = [clearing EXCEPT ![r] = {}]
  /\ customer' = [customer EXCEPT ![r] = Nobody]
  /\ lines' = [lines EXCEPT ![r] = EmptyBasket]

\* Variant: the stock is written at once, outside the transaction, so that what
\* a failed request has reserved stays.
RollbackKeepingStock(r) ==
  /\ pc' = [pc EXCEPT ![r] = "failed"]
  /\ Release(r)
  /\ Respond(r)
  /\ ordered' = [i \in Items |->
                   IF pc[r] \notin {"locking", "locked"} /\ i \in Rows(lines[r])
                   THEN NewQuantity(r, i) ELSE ordered[i]]
  /\ UNCHANGED <<cart, orders, bank>>

\* Something raised: session.rollback() or session.close().
Rollback(r) ==
  /\ pc' = [pc EXCEPT ![r] = "failed"]
  /\ Release(r)
  /\ Respond(r)
  /\ UNCHANGED <<committed, bank>>

\* COMMIT makes everything the transaction flushed visible at once.
WriteCommitted(r) ==
  /\ ordered' = [i \in Items |->
                   IF i \in Rows(lines[r]) THEN NewQuantity(r, i) ELSE ordered[i]]
  /\ orders' = [orders EXCEPT ![r] = draft[r]]
  /\ cart' = [cart EXCEPT ![customer[r]] = @ \ clearing[r]]

-----------------------------------------------------------------------------
(* POST /order *)

\* The checks before the first write pass.  An order without preorder items
\* needs delivery data, which the request either has or has not.
Receive(r, u) ==
  /\ Advance(r, "idle", "locking")
  /\ cookie[u] # EmptyBasket
  /\ \E hasDelivery \in BOOLEAN : IsPreorder(cookie[u]) \/ hasDelivery
  /\ customer' = [customer EXCEPT ![r] = u]
  /\ lines' = [lines EXCEPT ![r] = cookie[u]]
  /\ \E i \in Rows(cookie[u]) : scan' = [scan EXCEPT ![r] = i]
  /\ UNCHANGED <<cookie, carried, committed, loaded, draft, clearing, rowLock, bank>>

\* ... or do not: nothing has been written.
Refuse(r, u) ==
  /\ Advance(r, "idle", "failed")
  /\ \E hasDelivery \in BOOLEAN :
        \/ cookie[u] = EmptyBasket
        \/ ~IsPreorder(cookie[u]) /\ ~hasDelivery
  /\ UNCHANGED <<cookie, carried, committed, customer, lines, transaction, bank>>

\* SELECT ... WHERE id IN (...) FOR UPDATE takes the rows one by one in the
\* order of the database's scan.  A row another transaction holds is waited
\* for, and read as that transaction left it.
TakeRow(r, i) ==
  /\ rowLock' = [rowLock EXCEPT ![i] = r]
  /\ loaded' = [loaded EXCEPT ![r][i] = ordered[i]]
  /\ LET rest == Rows(lines[r]) \ (Held(r) \cup {i})
     IN \/ /\ rest = {}
           /\ scan' = [scan EXCEPT ![r] = NoRow]
           /\ pc' = [pc EXCEPT ![r] = "locked"]
        \/ \E next \in rest : scan' = [scan EXCEPT ![r] = next] /\ UNCHANGED pc
  /\ UNCHANGED <<cookie, carried, committed, customer, lines, draft, clearing, bank>>

\* Variant: a SELECT without FOR UPDATE waits for nobody.
LockRowUnlocked(r) == pc[r] = "locking" /\ TakeRow(r, scan[r])

LockRow(r) ==
  /\ pc[r] = "locking"
  /\ rowLock[scan[r]] = Nobody
  /\ TakeRow(r, scan[r])

\* The members of D wait for each other in cycles.
WaitCycle(D) ==
  /\ \A r \in D : pc[r] = "locking" /\ rowLock[scan[r]] \in D
  /\ \A r \in D : \E s \in D : rowLock[scan[s]] = r

\* PostgreSQL finds a cycle and fails one of its transactions.
DeadlockAbort(r) ==
  /\ \E D \in SUBSET Requests : r \in D /\ WaitCycle(D)
  /\ Rollback(r)

\* Variant: the limit is not checked.
ReserveUnchecked(r) ==
  /\ Advance(r, "locked", "reserved")
  /\ UNCHANGED <<cookie, carried, committed, customer, lines, transaction, bank>>

\* The flush of the new quantities: UPDATE of every row, each checked.
Reserve(r) ==
  /\ Advance(r, "locked", "reserved")
  /\ \A i \in Rows(lines[r]) : QuantityLimit(i, NewQuantity(r, i))
  /\ UNCHANGED <<cookie, carried, committed, customer, lines, transaction, bank>>

\* CHECK_VIOLATION, raised as CatalogItemOutOfStockError.
OutOfStock(r) ==
  /\ pc[r] = "locked"
  /\ \E i \in Rows(lines[r]) : ~QuantityLimit(i, NewQuantity(r, i))
  /\ Rollback(r)

\* Variant: the order is filed under the first item instead of its preorder.
NewOrderOfItem(r, first) ==
  [customer |-> customer[r], lines |-> lines[r], preorder |-> first,
   delivery |-> ~IsPreorder(lines[r]), payment |-> FALSE]

\* create_order: preorder_id=checkout_items[0].preorder_id, delivery_data only
\* when it is not a preorder; the flush inserts order, lines and invoices.
NewOrder(r, first) ==
  [customer |-> customer[r], lines |-> lines[r], preorder |-> PreorderOf[first],
   delivery |-> ~IsPreorder(lines[r]), payment |-> FALSE]

CreateOrder(r) ==
  /\ Advance(r, "reserved", "created")
  /\ \E first \in Rows(lines[r]) :
        draft' = [draft EXCEPT ![r] = NewOrder(r, first)]
  /\ UNCHANGED <<cookie, carried, committed, customer, lines, scan, loaded, clearing,
                 rowLock, bank>>

\* OrderItemORM(invoices=None), OrderORM(invoices={...}): whether a relationship
\* mapped as a list takes them is SQLAlchemy's affair, so that both outcomes are
\* kept.  The version pinned refuses them (OrderInvoices!InvoicesAreLists), and
\* the constructor raises TypeError.
OrmRejects(r) ==
  /\ pc[r] = "reserved"
  /\ Rollback(r)

\* TinkoffClient.init_payment, with the row locks held while it is awaited.
CallBank(r) ==
  /\ Advance(r, "created", "calling")
  /\ bank' = [bank EXCEPT ![r] = "sent"]
  /\ UNCHANGED <<cookie, carried, committed, customer, lines, transaction>>

\* The bank decides in its own time, whether or not anyone still waits.
BankDecides(r) ==
  /\ bank[r] = "sent"
  /\ bank' \in {[bank EXCEPT ![r] = "registered"], [bank EXCEPT ![r] = "refused"]}
  /\ UNCHANGED <<cookie, carried, committed, pc, customer, lines, transaction>>

\* Variant: the ErrorCode of the answer is not looked at.
BankAnswersAnything(r) ==
  /\ Advance(r, "calling", "answered")
  /\ bank[r] \in {"registered", "refused"}
  /\ UNCHANGED <<cookie, carried, committed, customer, lines, transaction, bank>>

\* The answer with ErrorCode '0' arrives in time.
BankAnswers(r) ==
  /\ Advance(r, "calling", "answered")
  /\ bank[r] = "registered"
  /\ UNCHANGED <<cookie, carried, committed, customer, lines, transaction, bank>>

\* Variant: a client without a timeout.
NoAnswerUntilRefused(r) ==
  /\ pc[r] = "calling"
  /\ bank[r] = "refused"
  /\ Rollback(r)

\* It does not: an error status, an ErrorCode, no connection, or no answer
\* within the client's five seconds.
NoAnswer(r) ==
  /\ pc[r] = "calling"
  /\ Rollback(r)

RecordPayment(r) ==
  /\ Advance(r, "answered", "recorded")
  /\ draft' = [draft EXCEPT ![r].payment = TRUE]
  /\ UNCHANGED <<cookie, carried, committed, customer, lines, scan, loaded, clearing,
                 rowLock, bank>>

\* Variant: the DELETE has lost its condition on item_id.
ClearWholeCart(r) ==
  /\ Advance(r, "recorded", "cleared")
  /\ clearing' = [clearing EXCEPT ![r] = cart[customer[r]]]
  /\ UNCHANGED <<cookie, carried, committed, customer, lines, scan, loaded, draft,
                 rowLock, bank>>

\* DELETE FROM cart_item: the rows there are now.
ClearCart(r) ==
  /\ Advance(r, "recorded", "cleared")
  /\ clearing' = [clearing EXCEPT ![r] = Rows(lines[r]) \cap cart[customer[r]]]
  /\ UNCHANGED <<cookie, carried, committed, customer, lines, scan, loaded, draft,
                 rowLock, bank>>

\* The dependency commits, then the payment link is sent.
Commit(r) ==
  /\ Advance(r, "cleared", "done")
  /\ WriteCommitted(r)
  /\ Release(r)
  /\ Respond(r)
  /\ UNCHANGED bank

\* The database commits and the acknowledgement is lost: the client gets an
\* error for an order that exists.
CommitUnacknowledged(r) ==
  /\ Advance(r, "cleared", "failed")
  /\ WriteCommitted(r)
  /\ Release(r)
  /\ Respond(r)
  /\ UNCHANGED bank

\* Any other exception: a lost connection, a failed query, a cancelled request.
Fault(r) == Active(r) /\ Rollback(r)

\* The process dies; the database drops its transactions.
Crash ==
  /\ \E r \in Requests : Active(r)
  /\ pc' = [r \in Requests |-> IF Active(r) THEN "failed" ELSE pc[r]]
  /\ rowLock' = [i \in Items |-> Nobody]
  /\ scan' = [r \in Requests |-> NoRow]
  /\ loaded' = [r \in Requests |-> NothingLoaded]
  /\ draft' = [r \in Requests |-> NoOrder]
  /\ clearing' = [r \in Requests |-> {}]
  /\ customer' = [r \in Requests |-> Nobody]
  /\ lines' = [r \in Requests |-> EmptyBasket]
  /\ UNCHANGED <<cookie, carried, committed, bank>>

-----------------------------------------------------------------------------

\* What the handler of r does next, by itself or with the database.
Progress(r) ==
  \/ LockRow(r) \/ DeadlockAbort(r)
  \/ Reserve(r) \/ OutOfStock(r)
  \/ CreateOrder(r) \/ OrmRejects(r)
  \/ CallBank(r) \/ BankAnswers(r) \/ NoAnswer(r)
  \/ RecordPayment(r) \/ ClearCart(r)
  \/ Commit(r) \/ CommitUnacknowledged(r)

Next ==
  \/ \E u \in Customers : \/ \E i \in Items : AddToCart(u, i)
                          \/ \E b \in Baskets : Checkout(u, b)
                          \/ Browse(u) \/ Return(u)
                          \/ \E r \in Requests : Receive(r, u) \/ Refuse(r, u)
  \/ \E r \in Requests : Progress(r) \/ BankDecides(r) \/ Fault(r)
  \/ Crash

Spec == Init /\ [][Next]_vars

\* A handler that can go on does: the event loop runs every ready task, the
\* database grants a free row and detects deadlocks, and the HTTP client times
\* out.  Nothing is asked of the browser, of the bank or of failures.
FairSpec == Spec /\ \A r \in Requests : WF_vars(Progress(r))

-----------------------------------------------------------------------------
(* Correctness *)

\* The limit a line is verified against is the one its row is checked against:
\* no approved line asks for more than the item's whole quantity.
ApprovedLinesFit ==
  \A u \in Customers : \A i \in Rows(cookie[u]) : QuantityLimit(i, cookie[u][i])

\* Every variable holds what its table, row, cookie or handler can hold.
TypeOK ==
  /\ cookie \in [Customers -> Baskets]
  /\ carried \in [Customers -> Baskets]
  /\ cart \in [Customers -> SUBSET Items]
  /\ ordered \in [Items -> Int]
  /\ orders \in [Requests -> Orders \cup {NoOrder}]
  /\ pc \in [Requests -> Phases]
  /\ customer \in [Requests -> Customers \cup {Nobody}]
  /\ lines \in [Requests -> Baskets]
  /\ scan \in [Requests -> Items \cup {NoRow}]
  /\ loaded \in [Requests -> [Items -> Int]]
  /\ draft \in [Requests -> Orders \cup {NoOrder}]
  /\ clearing \in [Requests -> SUBSET Items]
  /\ rowLock \in [Items -> Requests \cup {Nobody}]
  /\ bank \in [Requests -> {"none", "sent", "registered", "refused"}]

\* What the committed order of r has taken of each item.
Taken(b) == [i \in Items |-> IF i \in Rows(b) THEN b[i] ELSE 0]
Placed(r) == IF orders[r] = NoOrder THEN NothingLoaded ELSE Taken(orders[r].lines)

\* The requests with a committed order.
WithOrder == {r \in Requests : orders[r] # NoOrder}

\* ordered_quantity is exactly what the committed orders have taken: no update
\* is lost between two order requests, and a request that fails at any step
\* gives back what it had reserved.
StockMatchesOrders ==
  \A i \in Items :
    ordered[i] = SumFunction([r \in WithOrder |-> Placed(r)[i]])

\* Items are never oversold: the committed ordered_quantity respects the
\* quantity_limit constraint, which is only checked when a row is flushed.
WithinLimit == \A i \in Items : QuantityLimit(i, ordered[i])

\* What the committed orders leave of an item is less than the basket of r asks for.
SoldTo(r, i) ==
  ~QuantityLimit(i, SumFunction([q \in WithOrder |-> Placed(q)[i]]) + lines[r][i])

\* A request is refused as out of stock only when orders that exist have taken
\* the pieces it wants: never on account of a reservation of a request that is still in
\* progress, has failed or was killed, nor of pieces its own transaction counts twice.
RefusedOnlyIfSold ==
  [][\A r \in Requests : OutOfStock(r) => \E i \in Rows(lines[r]) : SoldTo(r, i)]_vars

Reserved == {"reserved", "created", "calling", "answered", "recorded", "cleared"}

\* While the bank is being asked, the reservation made before stays good: the
\* quantity the transaction will commit is still the committed one plus its
\* lines, and still within the limit.
ReservationHolds ==
  \A r \in Requests : pc[r] \in Reserved =>
    \A i \in Rows(lines[r]) : /\ NewQuantity(r, i) = ordered[i] + lines[r][i]
                              /\ QuantityLimit(i, ordered[i] + lines[r][i])

\* A catalog row is locked only by a request in progress that is buying it: no
\* failure, abort, crash or commit leaves a lock behind.
LocksHeldByActive ==
  \A i \in Items : rowLock[i] # Nobody =>
    Active(rowLock[i]) /\ i \in Rows(lines[rowLock[i]])

\* Each of C waits for a row that one of C holds, or a request that has ended.
Stuck(C) ==
  \A r \in C : /\ pc[r] = "locking" /\ rowLock[scan[r]] # Nobody
               /\ rowLock[scan[r]] \in C \/ ~Active(rowLock[scan[r]])

\* Requests that nobody else can let go on are always in a deadlock the database
\* can see, one between at least two of them: nobody waits for itself, for a request
\* that has ended, or for the members of a cycle that is not there.
DeadlocksAreSeen ==
  \A C \in SUBSET Requests : IsFiniteSet(C) /\ C # {} /\ Stuck(C) =>
    \E D \in SUBSET C : WaitCycle(D) /\ \E r, s \in D : r # s

\* A client that is given a payment link has an order, and every order in the
\* database can be paid: its payment is stored and registered with the bank.
LinkMeansOrder ==
  \A r \in Requests :
    /\ pc[r] = "done" => orders[r] # NoOrder
    /\ orders[r] # NoOrder => orders[r].payment /\ bank[r] = "registered"

\* An order, which is filed under the preorder of its first line, has lines of
\* that preorder only, and has a delivery exactly when it is not a preorder.
OneSectionPerOrder ==
  \A r \in Requests : orders[r] # NoOrder =>
    /\ \A i \in Rows(orders[r].lines) : PreorderOf[i] = orders[r].preorder
    /\ orders[r].delivery <=> (orders[r].preorder = NoPreorder)

\* An item leaves a cart only when an order of that customer for that item is
\* committed in the same step.
CartLosesOnlyOrdered ==
  [][\A u \in Customers : \A i \in cart[u] \ cart'[u] :
       \E r \in Requests : /\ orders[r] = NoOrder /\ orders'[r] # NoOrder
                           /\ orders'[r].customer = u
                           /\ i \in Rows(orders'[r].lines)]_vars

\* Seen through the committed tables only, the requests place orders the way
\* StockLedger says: each at most once, all or nothing, within the limits.
Ledger == INSTANCE StockLedger WITH placed <- [r \in Requests |-> Placed(r)]
ImplementsLedger == Ledger!Spec

\* Every order request that is let in ends, with a link or with an error, in
\* spite of row locks taken in any order and of a bank that may never answer.
EveryRequestEnds ==
  \A r \in Requests : pc[r] = "locking" ~> pc[r] \in Finished
=============================================================================
