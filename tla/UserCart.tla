------------------------------- MODULE UserCart -------------------------------
(***************************************************************************)
(* Carts and favourites: rows of cart_item for a user who is signed in, a  *)
(* dictionary in the session cookie for a browser that is not.             *)
(*                                                                         *)
(* POST and DELETE are one statement each.  PATCH /user/cart reads the     *)
(* stock, reads the row and writes the row, with an await before each;     *)
(* other requests and orders of the same user come in between.             *)
(*                                                                         *)
(* A cookie cart holds quantities of 1 only: its keys are strings and      *)
(* PATCH and DELETE look them up by UUID, which finds none.                *)
(***************************************************************************)
EXTENDS Integers, FiniteSets, FiniteSetsExt

CONSTANTS
  Items, Users,  \* each user with a browser
  Patches,       \* the PATCH requests of a behaviour
  Quantity,      \* CatalogItemORM.quantity of each item
  NoLimit,       \* ... when it is NULL
  MaxQuantity,   \* MAX_CART_ITEM_QUANTITY
  LineQuantities, \* the quantities a line of a checkout asks for
  MaxFavourites  \* bound: favourite rows of a user for an item

ASSUME CartAssumption ==
  /\ NoLimit \notin Nat
  /\ Quantity \in [Items -> Nat \cup {NoLimit}]
  /\ MaxQuantity \in Nat \ {0} /\ MaxFavourites \in Nat
  /\ LineQuantities \subseteq Nat \ {0}

VARIABLES
  rows,          \* cart_item.quantity of each user and item, 0 without a row
  ordered,       \* catalog_item.ordered_quantity, of items with a limit
  favourites,    \* number of user_favorites rows
  cookie,        \* session['cart'] in the browser of each user
  patch          \* the PATCH requests, with what they have read

vars == <<rows, ordered, favourites, cookie, patch>>

NoPatch == [at |-> "idle"]

\* What get_current_user makes of the cart of the session, for a user it finds.
\* Variant: it leaves the session alone.
SessionCartKept(u, signedIn) == cookie[u]

SessionCart(u, signedIn) == IF signedIn THEN {} ELSE cookie[u]

\* The response brings the session back to the browser, if it gets there.
Respond(u, cart) == cookie' \in {cookie, [cookie EXCEPT ![u] = cart]}

Init ==
  /\ rows = [u \in Users |-> [i \in Items |-> 0]]
  /\ ordered = [i \in Items |-> 0]
  /\ favourites = [u \in Users |-> [i \in Items |-> 0]]
  /\ cookie = [u \in Users |-> {}]
  /\ patch = [q \in Patches |-> NoPatch]

-----------------------------------------------------------------------------
(* POST and DELETE *)

\* INSERT ... ON CONFLICT DO NOTHING.
AddToCart(u, i) ==
  /\ rows' = [rows EXCEPT ![u][i] = IF @ = 0 THEN 1 ELSE @]
  /\ Respond(u, SessionCart(u, TRUE))
  /\ UNCHANGED <<ordered, favourites, patch>>

AddToCookie(u, i) ==
  /\ Respond(u, SessionCart(u, FALSE) \cup {i})
  /\ UNCHANGED <<rows, ordered, favourites, patch>>

RemoveFromCart(u, S) ==
  /\ rows' = [rows EXCEPT ![u] = [i \in Items |-> IF i \in S THEN 0 ELSE @[i]]]
  /\ Respond(u, SessionCart(u, TRUE))
  /\ UNCHANGED <<ordered, favourites, patch>>

\* cart.pop(UUID): KeyError, whatever the cart holds.  The error is answered with
\* the session as it was.
RemoveFromCookie(u) ==
  /\ Respond(u, SessionCart(u, FALSE))
  /\ UNCHANGED <<rows, ordered, favourites, patch>>

\* There is no unique constraint: a repeated request makes another row ...
AddFavourite(u, i) ==
  /\ favourites[u][i] < MaxFavourites
  /\ favourites' = [favourites EXCEPT ![u][i] = @ + 1]
  /\ Respond(u, SessionCart(u, TRUE))
  /\ UNCHANGED <<rows, ordered, patch>>

\* Variant: one of them is removed.
RemoveOneFavourite(u, i) ==
  /\ favourites' = [favourites EXCEPT ![u][i] = @ - 1]
  /\ Respond(u, SessionCart(u, TRUE))
  /\ UNCHANGED <<rows, ordered, patch>>

\* ... and one DELETE removes them all.
RemoveFavourite(u, i) ==
  /\ favourites' = [favourites EXCEPT ![u][i] = 0]
  /\ Respond(u, SessionCart(u, TRUE))
  /\ UNCHANGED <<rows, ordered, patch>>

\* What checkout_data holds is not what is in the cart now.
Baskets == UNION {[S -> LineQuantities] : S \in (SUBSET Items) \ {{}}}

\* An order of OrderPlacement commits: its lines leave the stock, and the rows of
\* their items, if there are any, the cart.
Order(u, b) ==
  LET Limited == {i \in DOMAIN b : Quantity[i] # NoLimit} IN
  /\ \A i \in Limited : ordered[i] + b[i] <= Quantity[i]
  /\ ordered' = [i \in Items |-> IF i \in Limited THEN ordered[i] + b[i] ELSE ordered[i]]
  /\ rows' = [rows EXCEPT ![u] = [i \in Items |-> IF i \in DOMAIN b THEN 0 ELSE @[i]]]
  /\ Respond(u, SessionCart(u, TRUE))
  /\ UNCHANGED <<favourites, patch>>

-----------------------------------------------------------------------------
(* PATCH /user/cart *)

StartPatch(q, u, i, step, signedIn) ==
  /\ patch[q] = NoPatch
  /\ patch' = [patch EXCEPT ![q] =
                 [at |-> "checking", user |-> u, item |-> i, step |-> step,
                  signedIn |-> signedIn, cart |-> SessionCart(u, signedIn),
                  available |-> 0, new |-> 0]]
  /\ UNCHANGED <<rows, ordered, favourites, cookie>>

EndPatch(q) ==
  /\ patch' = [patch EXCEPT ![q] = [at |-> "done"]]
  /\ Respond(patch[q].user, patch[q].cart)

\* Any step can fail.  At "checking" it always does today: CatalogItemCheckoutDataDTO
\* has fields without defaults that get_catalog_item_quantity does not give it
\* (catalog.py:107).  The steps after it are what the code goes on to do once they
\* are optional; without them the cart would only be less exposed.
PatchFails(q) ==
  /\ patch[q].at \in {"checking", "reading", "writing"}
  /\ EndPatch(q)
  /\ UNCHANGED <<rows, ordered, favourites>>

\* CatalogItemCheckoutDataDTO.available, None if quantity is NULL or 0.
Available(i) ==
  IF Quantity[i] \in {NoLimit, 0} THEN NoLimit ELSE Quantity[i] - ordered[i]

ReadAvailable(q) ==
  /\ patch[q].at = "checking"
  /\ patch' = [patch EXCEPT ![q].at = "reading",
                            ![q].available = Available(patch[q].item)]
  /\ UNCHANGED <<rows, ordered, favourites, cookie>>

\* Variant: only the lower end is checked.
AllowedFromOne(available, n) == 0 < n

\* max(None, 5) raises, so that an item without limit is never allowed.
Allowed(available, n) ==
  available # NoLimit /\ 0 < n /\ n <= Max({available, MaxQuantity})

\* get_cart_item_quantity, 0 where it finds no row.
RowQuantity(p) == rows[p.user][p.item]

\* Without a row it is CartItemNotFoundError, out of bounds
\* CartItemQuantityInvalidError.  Without a user session_cart.get(UUID) is 0 and
\* every way on fails: -1 is out of bounds, and 1 is written by a user_id of None
\* or under a key the cookie cannot hold.
ReadRow(q) ==
  LET p == patch[q] IN
  /\ p.at = "reading" /\ p.signedIn
  /\ RowQuantity(p) > 0
  /\ Allowed(p.available, RowQuantity(p) + p.step)
  /\ patch' = [patch EXCEPT ![q].at = "writing",
                            ![q].new = RowQuantity(p) + p.step]
  /\ UNCHANGED <<rows, ordered, favourites, cookie>>

\* Variant: a row that has gone is inserted again.
WriteOrInsert(q) ==
  LET p == patch[q] IN
  /\ p.at = "writing"
  /\ rows' = [rows EXCEPT ![p.user][p.item] = p.new]
  /\ EndPatch(q)
  /\ UNCHANGED <<ordered, favourites>>

\* The UPDATE and the commit: no row, no effect.  A session cart would be written
\* instead, by a UUID, which the cookie cannot hold.
WriteRow(q) ==
  LET p == patch[q] IN
  /\ p.at = "writing"
  /\ rows' = IF p.cart = {} /\ rows[p.user][p.item] > 0
             THEN [rows EXCEPT ![p.user][p.item] = p.new] ELSE rows
  /\ EndPatch(q)
  /\ UNCHANGED <<ordered, favourites>>

-----------------------------------------------------------------------------

Next ==
  \/ \E u \in Users, i \in Items :
       \/ AddToCart(u, i) \/ AddToCookie(u, i)
       \/ AddFavourite(u, i) \/ RemoveFavourite(u, i)
       \/ \E q \in Patches, step \in {-1, 1}, s \in BOOLEAN : StartPatch(q, u, i, step, s)
  \/ \E u \in Users : \/ RemoveFromCookie(u)
                      \/ \E S \in SUBSET Items : RemoveFromCart(u, S)
                      \/ \E b \in Baskets : Order(u, b)
  \/ \E q \in Patches : PatchFails(q) \/ ReadAvailable(q) \/ ReadRow(q) \/ WriteRow(q)

Spec == Init /\ [][Next]_vars

-----------------------------------------------------------------------------
(* Correctness *)

\* Every variable holds what its table, cookie or handler can hold.
TypeOK ==
  /\ rows \in [Users -> [Items -> Nat]]
  /\ ordered \in [Items -> Nat]
  /\ favourites \in [Users -> [Items -> 0..MaxFavourites]]
  /\ cookie \in [Users -> SUBSET Items]
  /\ \A q \in Patches : patch[q].at \in {"idle", "checking", "reading", "writing", "done"}

\* No interleaving of clicks, removals and orders brings a row below 1 or above
\* what one request could ask for when it was written.
CartWithinLimit ==
  \A u \in Users, i \in Items :
    /\ rows[u][i] >= 0
    /\ rows[u][i] <= IF Quantity[i] = NoLimit THEN 1 ELSE Max({Quantity[i], MaxQuantity})

\* A PATCH that comes after a DELETE, or after an order has emptied the cart, does
\* not bring the row back, although it read the row before: a row appears only with
\* quantity 1, by a request to add it.
OnlyAddCreatesRow ==
  [][\A u \in Users, i \in Items :
       rows[u][i] = 0 /\ rows'[u][i] > 0 => rows'[u][i] = 1 /\ UNCHANGED patch]_vars

\* A PATCH of a signed-in user ends up in the table even if the browser brought
\* the cart it had filled before signing in: it never finds a session cart.
SignedInMeansTable ==
  \A q \in Patches : patch[q].at = "writing" => patch[q].cart = {}
=============================================================================
