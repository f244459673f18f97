---------------------------- MODULE UserCartProofs ----------------------------
(***************************************************************************)
(* Proofs about UserCart, for any users, items, limits and number of PATCH *)
(* requests at the same time.                                              *)
(*                                                                         *)
(* What a PATCH writes it has computed from what it read before; the       *)
(* invariant says what is still true of that when it writes, whatever has  *)
(* happened in between: the stock it saw was at most the item's quantity,  *)
(* and the cart of the session was gone if the user had signed in.         *)
(***************************************************************************)
EXTENDS UserCart, TLAPS

\* The upper end of Allowed, for an item with a limit.
Bound(i) == Max({Quantity[i], MaxQuantity})

InProgress == [at : {"checking", "reading", "writing"}, user : Users, item : Items,
               step : {-1, 1}, signedIn : BOOLEAN, cart : SUBSET Items,
               available : Int \cup {NoLimit}, new : Int]
Over == {NoPatch, [at |-> "done"]}

PatchType == \A q \in Patches : patch[q] \in Over \cup InProgress

\* A PATCH that has read the stock has seen no more than the whole of it.
StockSeen(p) ==
  p.at \in {"reading", "writing"} /\ p.available # NoLimit =>
    Quantity[p.item] # NoLimit /\ p.available <= Quantity[p.item]

\* A PATCH about to write writes for a user, what the limits allow.
WriteAllowed(p) ==
  p.at = "writing" =>
    /\ p.signedIn
    /\ Quantity[p.item] # NoLimit /\ p.new \in 1..Bound(p.item)

\* A user who is found has no cart in the session.
CartGone(p) == p.signedIn => p.cart = {}

PatchInv ==
  \A q \in Patches : patch[q] \in InProgress =>
    StockSeen(patch[q]) /\ WriteAllowed(patch[q]) /\ CartGone(patch[q])

IInv ==
  /\ TypeOK /\ patch = [q \in Patches |-> patch[q]]
  /\ PatchType /\ PatchInv /\ CartWithinLimit

-----------------------------------------------------------------------------
(* Limits *)

\* Max of two numbers is one of them, and no less than either.
LEMMA MaxOfTwo ==
  ASSUME NEW m \in Int, NEW n \in Int
  PROVE  Max({m, n}) \in {m, n} /\ m <= Max({m, n}) /\ n <= Max({m, n})
<1>1. \E x \in {m, n} : \A y \in {m, n} : x >= y
  <2>1. CASE m >= n
    BY <2>1
  <2>2. CASE n >= m
    BY <2>2
  <2>3. QED
    BY <2>1, <2>2
<1>2. Max({m, n}) \in {m, n} /\ \A y \in {m, n} : Max({m, n}) >= y
  BY <1>1 DEF Max
<1>3. QED
  BY <1>2

\* The limit of a row is a number and at least one piece.
LEMMA BoundType ==
  ASSUME NEW i \in Items, Quantity[i] # NoLimit
  PROVE  Bound(i) \in Nat /\ 1 <= Bound(i)
<1>1. Quantity[i] \in Nat /\ MaxQuantity \in Nat /\ 1 <= MaxQuantity
  BY CartAssumption
<1>2. /\ Max({Quantity[i], MaxQuantity}) \in {Quantity[i], MaxQuantity}
      /\ MaxQuantity <= Max({Quantity[i], MaxQuantity})
  <2>1. Quantity[i] \in Int /\ MaxQuantity \in Int
    BY <1>1
  <2>2. QED
    BY <2>1, MaxOfTwo, Zenon
<1>3. QED
  BY <1>1, <1>2 DEF Bound

\* The stock of an item is at most its quantity.
LEMMA AvailableBelowQuantity ==
  ASSUME TypeOK, NEW i \in Items
  PROVE  /\ Available(i) \in Int \cup {NoLimit}
         /\ Available(i) # NoLimit => Quantity[i] # NoLimit /\ Available(i) <= Quantity[i]
<1>1. ordered[i] \in Nat /\ Quantity[i] \in Nat \cup {NoLimit}
  BY CartAssumption DEF TypeOK
<1>2. QED
  BY <1>1 DEF Available

\* What is allowed by the stock a PATCH has seen is within the limit of the row.
LEMMA AllowedWithinBound ==
  ASSUME NEW i \in Items, NEW n \in Int, NEW available \in Int \cup {NoLimit},
         available # NoLimit => Quantity[i] # NoLimit /\ available <= Quantity[i],
         Allowed(available, n)
  PROVE  Quantity[i] # NoLimit /\ n \in 1..Bound(i)
<1>1. /\ available \in Int /\ Quantity[i] \in Nat /\ available <= Quantity[i]
      /\ MaxQuantity \in Int /\ Quantity[i] # NoLimit
  BY CartAssumption DEF Allowed
<1>2. 0 < n /\ n <= Max({available, MaxQuantity})
  BY DEF Allowed
<1>3. Max({available, MaxQuantity}) \in {available, MaxQuantity}
  BY <1>1, MaxOfTwo, Zenon
<1>4. /\ Max({Quantity[i], MaxQuantity}) \in {Quantity[i], MaxQuantity}
      /\ Quantity[i] <= Max({Quantity[i], MaxQuantity})
      /\ MaxQuantity <= Max({Quantity[i], MaxQuantity})
  <2>1. Quantity[i] \in Int
    BY <1>1
  <2>2. QED
    BY <1>1, <2>1, MaxOfTwo, Zenon
<1>5. QED
  BY <1>1, <1>2, <1>3, <1>4 DEF Bound

-----------------------------------------------------------------------------
(* The invariant is inductive *)

\* It holds for empty carts.
LEMMA InitIInv == Init => IInv
<1> SUFFICES ASSUME Init PROVE IInv
  OBVIOUS
<1>1. TypeOK
  BY CartAssumption DEF Init, TypeOK, NoPatch
<1>2. PatchType /\ patch = [q \in Patches |-> patch[q]]
  BY DEF Init, PatchType, Over
<1>3. PatchInv
  BY DEF Init, PatchInv, NoPatch, StockSeen, WriteAllowed, CartGone, InProgress
<1>4. CartWithinLimit
  <2> SUFFICES ASSUME NEW i \in Items, Quantity[i] # NoLimit PROVE 0 <= Bound(i)
    BY DEF Init, CartWithinLimit, Bound
  <2> QED
    BY BoundType
<1>5. QED
  BY <1>1, <1>2, <1>3, <1>4 DEF IInv

\* A response leaves a cookie that holds items.
LEMMA RespondType ==
  ASSUME TypeOK, NEW u \in Users, NEW c \in SUBSET Items, Respond(u, c)
  PROVE  cookie' \in [Users -> SUBSET Items]
BY DEF TypeOK, Respond

\* Requests that add, remove, or order keep it: a row gets one piece, or none.
LEMMA RowsKeep ==
  ASSUME IInv, UNCHANGED patch,
         cookie' \in [Users -> SUBSET Items],
         ordered' \in [Items -> Nat],
         favourites' \in [Users -> [Items -> 0..MaxFavourites]],
         rows' \in [Users -> [Items -> Nat]],
         \A u \in Users, i \in Items : rows'[u][i] \in {0, 1, rows[u][i]}
  PROVE  IInv'
<1> USE DEF IInv
<1>1. TypeOK' /\ PatchType' /\ (patch = [q \in Patches |-> patch[q]])'
  BY DEF TypeOK, PatchType
<1>2. PatchInv'
  BY DEF PatchInv, StockSeen, WriteAllowed, CartGone
<1>3. CartWithinLimit'
  <2> SUFFICES ASSUME NEW u \in Users, NEW i \in Items
               PROVE  /\ rows'[u][i] >= 0
                      /\ rows'[u][i] <= IF Quantity[i] = NoLimit THEN 1 ELSE Bound(i)
    BY DEF CartWithinLimit, Bound
  <2>1. /\ rows[u][i] >= 0
        /\ rows[u][i] <= IF Quantity[i] = NoLimit THEN 1 ELSE Bound(i)
    BY DEF CartWithinLimit, Bound
  <2>2. Quantity[i] # NoLimit => Bound(i) \in Nat /\ 1 <= Bound(i)
    BY BoundType
  <2>3. rows'[u][i] \in {0, 1, rows[u][i]}
    OBVIOUS
  <2> QED
    BY <2>1, <2>2, <2>3
<1>4. QED
  BY <1>1, <1>2, <1>3

\* A step of one PATCH keeps it, if the row it may write is as it should be and
\* what it has read is what the invariant says.
LEMMA PatchKeeps ==
  ASSUME IInv, NEW q \in Patches, NEW p, patch' = [patch EXCEPT ![q] = p],
         p \in Over \cup InProgress,
         p \in InProgress => StockSeen(p) /\ WriteAllowed(p) /\ CartGone(p),
         UNCHANGED <<ordered, favourites>>,
         cookie' \in [Users -> SUBSET Items],
         rows' \in [Users -> [Items -> Nat]],
         \A u \in Users, i \in Items :
           \/ rows'[u][i] = rows[u][i]
           \/ Quantity[i] # NoLimit /\ rows'[u][i] \in 1..Bound(i)
  PROVE  IInv'
<1> USE DEF IInv
<1>1. PatchType' /\ (patch = [s \in Patches |-> patch[s]])'
  BY DEF PatchType
<1>2. TypeOK'
  <2>1. \A s \in Patches : patch'[s].at \in {"idle", "checking", "reading", "writing", "done"}
    BY <1>1 DEF PatchType, Over, NoPatch, InProgress
  <2>2. QED
    BY <2>1 DEF TypeOK
<1>3. PatchInv'
  <2> SUFFICES ASSUME NEW s \in Patches, patch'[s] \in InProgress
               PROVE  StockSeen(patch'[s]) /\ WriteAllowed(patch'[s]) /\ CartGone(patch'[s])
    BY DEF PatchInv, StockSeen, WriteAllowed, CartGone
  <2>1. CASE s = q
    <3>1. patch'[s] = p
      BY <2>1
    <3>2. QED
      BY <3>1
  <2>2. CASE s # q
    <3>1. patch'[s] = patch[s]
      BY <2>2
    <3>2. QED
      BY <3>1 DEF PatchInv
  <2>3. QED
    BY <2>1, <2>2
<1>4. CartWithinLimit'
  <2> SUFFICES ASSUME NEW u \in Users, NEW i \in Items
               PROVE  /\ rows'[u][i] >= 0
                      /\ rows'[u][i] <= IF Quantity[i] = NoLimit THEN 1 ELSE Bound(i)
    BY DEF CartWithinLimit, Bound
  <2>1. /\ rows[u][i] >= 0
        /\ rows[u][i] <= IF Quantity[i] = NoLimit THEN 1 ELSE Bound(i)
    BY DEF CartWithinLimit, Bound
  <2>2. CASE rows'[u][i] = rows[u][i]
    BY <2>1, <2>2
  <2>3. CASE Quantity[i] # NoLimit /\ rows'[u][i] \in 1..Bound(i)
    BY <2>3, BoundType
  <2>4. QED
    BY <2>2, <2>3
<1>5. QED
  BY <1>1, <1>2, <1>3, <1>4

\* POST, and favourites, keep it.
LEMMA CartRequestKeeps ==
  ASSUME IInv, NEW u \in Users, NEW i \in Items,
         \/ AddToCart(u, i) \/ AddToCookie(u, i) \/ AddFavourite(u, i)
         \/ RemoveFavourite(u, i)
  PROVE  IInv'
<1>1. SessionCart(u, TRUE) \in SUBSET Items /\ SessionCart(u, FALSE) \cup {i} \in SUBSET Items
  BY DEF SessionCart, IInv, TypeOK
<1>2. cookie \in [Users -> SUBSET Items] /\ TypeOK
  BY DEF IInv, TypeOK
<1>3. CASE AddToCart(u, i)
  <2>1. cookie' \in [Users -> SUBSET Items]
    BY <1>1, <1>2, <1>3, RespondType DEF AddToCart
  <2>2. QED
    BY <1>2, <1>3, <2>1, RowsKeep DEF AddToCart, TypeOK
<1>4. CASE AddToCookie(u, i)
  <2>1. cookie' \in [Users -> SUBSET Items]
    BY <1>1, <1>2, <1>4, RespondType DEF AddToCookie
  <2>2. QED
    BY <1>2, <1>4, <2>1, RowsKeep DEF AddToCookie, TypeOK
<1>5. CASE AddFavourite(u, i)
  <2>1. cookie' \in [Users -> SUBSET Items]
    BY <1>1, <1>2, <1>5, RespondType DEF AddFavourite
  <2>2. favourites' \in [Users -> [Items -> 0..MaxFavourites]]
    BY <1>2, <1>5, CartAssumption DEF AddFavourite, TypeOK
  <2>3. QED
    BY <1>2, <1>5, <2>1, <2>2, RowsKeep DEF AddFavourite, TypeOK
<1>6. CASE RemoveFavourite(u, i)
  <2>1. cookie' \in [Users -> SUBSET Items]
    BY <1>1, <1>2, <1>6, RespondType DEF RemoveFavourite
  <2>2. favourites' \in [Users -> [Items -> 0..MaxFavourites]]
    BY <1>2, <1>6, CartAssumption DEF RemoveFavourite, TypeOK
  <2>3. QED
    BY <1>2, <1>6, <2>1, <2>2, RowsKeep DEF RemoveFavourite, TypeOK
<1>7. QED
  BY <1>3, <1>4, <1>5, <1>6

\* A DELETE keeps it.
LEMMA RemovalKeeps ==
  ASSUME IInv, NEW u \in Users,
         RemoveFromCookie(u) \/ \E S \in SUBSET Items : RemoveFromCart(u, S)
  PROVE  IInv'
<1>1. SessionCart(u, TRUE) \in SUBSET Items /\ SessionCart(u, FALSE) \in SUBSET Items
  BY DEF SessionCart, IInv, TypeOK
<1>2. TypeOK
  BY DEF IInv
<1>3. CASE RemoveFromCookie(u)
  <2>1. cookie' \in [Users -> SUBSET Items]
    BY <1>1, <1>2, <1>3, RespondType DEF RemoveFromCookie
  <2>2. QED
    BY <1>2, <1>3, <2>1, RowsKeep DEF RemoveFromCookie, TypeOK
<1>4. ASSUME NEW S \in SUBSET Items, RemoveFromCart(u, S) PROVE IInv'
  <2>1. cookie' \in [Users -> SUBSET Items]
    BY <1>1, <1>2, <1>4, RespondType DEF RemoveFromCart
  <2>2. QED
    BY <1>2, <1>4, <2>1, RowsKeep DEF RemoveFromCart, TypeOK
<1>5. QED
  BY <1>3, <1>4

\* An order keeps it: what it takes from the stock only makes less available.
LEMMA OrderKeeps ==
  ASSUME IInv, NEW u \in Users, NEW b \in Baskets, Order(u, b)
  PROVE  IInv'
<1>1. SessionCart(u, TRUE) \in SUBSET Items /\ TypeOK
  BY DEF SessionCart, IInv, TypeOK
<1>2. cookie' \in [Users -> SUBSET Items]
  BY <1>1, RespondType DEF Order
<1>3. PICK S \in SUBSET Items : b \in [S -> LineQuantities]
  BY DEF Baskets
<1>4. \A i \in DOMAIN b : b[i] \in Nat
  BY <1>3, CartAssumption
<1>5. ordered' \in [Items -> Nat]
  BY <1>1, <1>4 DEF Order, TypeOK
<1>6. rows' = [rows EXCEPT ![u] = [i \in Items |-> IF i \in DOMAIN b THEN 0 ELSE @[i]]]
  BY DEF Order
<1>7. rows' \in [Users -> [Items -> Nat]]
  BY <1>1, <1>6 DEF TypeOK
<1>8. \A v \in Users, i \in Items : rows'[v][i] \in {0, 1, rows[v][i]}
  BY <1>1, <1>6 DEF TypeOK
<1>9. UNCHANGED <<favourites, patch>>
  BY DEF Order
<1>10. QED
  BY <1>1, <1>2, <1>5, <1>7, <1>8, <1>9, RowsKeep DEF TypeOK

\* A PATCH that is under way has the record of one.
LEMMA UnderWay ==
  ASSUME IInv, NEW q \in Patches, patch[q].at \in {"checking", "reading", "writing"}
  PROVE  /\ patch[q] \in InProgress
         /\ StockSeen(patch[q]) /\ WriteAllowed(patch[q]) /\ CartGone(patch[q])
<1>1. patch[q] \in Over \cup InProgress
  BY DEF IInv, PatchType
<1>2. patch[q] \notin Over
  BY DEF Over, NoPatch
<1>3. QED
  BY <1>1, <1>2 DEF IInv, PatchInv

\* The beginning of a PATCH keeps it: whoever is found by then has no session cart.
LEMMA StartKeeps ==
  ASSUME IInv, NEW q \in Patches, NEW u \in Users, NEW i \in Items, NEW step \in {-1, 1},
         NEW signedIn \in BOOLEAN, StartPatch(q, u, i, step, signedIn)
  PROVE  IInv'
<1> DEFINE p == [at |-> "checking", user |-> u, item |-> i, step |-> step,
                 signedIn |-> signedIn, cart |-> SessionCart(u, signedIn),
                 available |-> 0, new |-> 0]
<1>1. SessionCart(u, signedIn) \in SUBSET Items
  BY DEF SessionCart, IInv, TypeOK
<1>2. p \in InProgress /\ StockSeen(p) /\ WriteAllowed(p) /\ CartGone(p)
  BY <1>1 DEF InProgress, StockSeen, WriteAllowed, CartGone, SessionCart
<1>3. patch' = [patch EXCEPT ![q] = p] /\ UNCHANGED <<rows, ordered, favourites, cookie>>
  BY DEF StartPatch
<1> HIDE DEF p
<1>4. QED
  BY <1>2, <1>3, PatchKeeps DEF IInv, TypeOK

\* Its end, with what it has or has not written, keeps it.
LEMMA EndKeeps ==
  ASSUME IInv, NEW q \in Patches, patch[q].at \in {"checking", "reading", "writing"},
         EndPatch(q), UNCHANGED <<ordered, favourites>>,
         rows' \in [Users -> [Items -> Nat]],
         \A u \in Users, i \in Items :
           \/ rows'[u][i] = rows[u][i]
           \/ Quantity[i] # NoLimit /\ rows'[u][i] \in 1..Bound(i)
  PROVE  IInv'
<1>1. patch[q].user \in Users /\ patch[q].cart \in SUBSET Items
  BY UnderWay DEF InProgress
<1>2. cookie' \in [Users -> SUBSET Items]
  BY <1>1, RespondType DEF EndPatch, IInv
<1>3. [at |-> "done"] \in Over /\ [at |-> "done"] \notin InProgress
  BY DEF Over, InProgress
<1>4. patch' = [patch EXCEPT ![q] = [at |-> "done"]]
  BY DEF EndPatch
<1>5. QED
  BY <1>2, <1>3, <1>4, PatchKeeps

\* The first read keeps it: the stock there is now is no more than there can be.
LEMMA ReadAvailableKeeps ==
  ASSUME IInv, NEW q \in Patches, ReadAvailable(q)
  PROVE  IInv'
<1> DEFINE old == patch[q]
           p == [old EXCEPT !.at = "reading", !.available = Available(old.item)]
<1>1. old.at = "checking" /\ old \in InProgress /\ CartGone(old)
  BY UnderWay DEF ReadAvailable
<1>2. /\ Available(old.item) \in Int \cup {NoLimit}
      /\ Available(old.item) # NoLimit =>
           Quantity[old.item] # NoLimit /\ Available(old.item) <= Quantity[old.item]
  BY <1>1, AvailableBelowQuantity DEF InProgress, IInv
<1>3. patch' = [patch EXCEPT ![q] = p] /\ UNCHANGED <<rows, ordered, favourites, cookie>>
  BY DEF ReadAvailable
<1> HIDE DEF old
<1>4. p \in InProgress /\ p.at = "reading"
  BY <1>1, <1>2 DEF InProgress
<1>5. StockSeen(p) /\ WriteAllowed(p) /\ CartGone(p)
  BY <1>1, <1>2 DEF StockSeen, WriteAllowed, CartGone, InProgress
<1> HIDE DEF p
<1>6. QED
  BY <1>3, <1>4, <1>5, PatchKeeps DEF IInv, TypeOK

\* The second keeps it: what is allowed by the stock read before is allowed at all.
LEMMA ReadRowKeeps ==
  ASSUME IInv, NEW q \in Patches, ReadRow(q)
  PROVE  IInv'
<1> DEFINE old == patch[q]
           n == rows[old.user][old.item] + old.step
           p == [old EXCEPT !.at = "writing", !.new = n]
<1>1. old.at = "reading" /\ old \in InProgress /\ StockSeen(old) /\ CartGone(old)
  BY UnderWay DEF ReadRow, RowQuantity
<1>2. old.signedIn /\ Allowed(old.available, n)
  BY DEF ReadRow, RowQuantity
<1>3. patch' = [patch EXCEPT ![q] = p] /\ UNCHANGED <<rows, ordered, favourites, cookie>>
  BY DEF ReadRow, RowQuantity
<1>4. rows[old.user][old.item] \in Nat
  BY <1>1 DEF InProgress, IInv, TypeOK
<1>5. n \in Int
  BY <1>1, <1>4 DEF InProgress
<1> HIDE DEF old, n
<1>6. /\ old.item \in Items /\ old.available \in Int \cup {NoLimit}
      /\ old.available # NoLimit =>
           Quantity[old.item] # NoLimit /\ old.available <= Quantity[old.item]
  BY <1>1 DEF InProgress, StockSeen
<1>7. Quantity[old.item] # NoLimit /\ n \in 1..Bound(old.item)
  BY <1>2, <1>5, <1>6, AllowedWithinBound
<1>8. p \in InProgress
  BY <1>1, <1>5 DEF InProgress
<1>9. StockSeen(p) /\ WriteAllowed(p) /\ CartGone(p)
  BY <1>1, <1>2, <1>6, <1>7 DEF StockSeen, WriteAllowed, CartGone, InProgress
<1> HIDE DEF p
<1>10. QED
  BY <1>3, <1>8, <1>9, PatchKeeps DEF IInv, TypeOK

\* The write keeps it, however old what it was computed from.
LEMMA WriteRowKeeps ==
  ASSUME IInv, NEW q \in Patches, WriteRow(q)
  PROVE  IInv'
<1>1. /\ patch[q].at = "writing" /\ patch[q] \in InProgress
      /\ Quantity[patch[q].item] # NoLimit
      /\ patch[q].new \in 1..Bound(patch[q].item)
  BY UnderWay DEF WriteRow, WriteAllowed
<1>2. rows' \in {rows, [rows EXCEPT ![patch[q].user][patch[q].item] = patch[q].new]}
  BY DEF WriteRow
<1>3. rows \in [Users -> [Items -> Nat]] /\ patch[q].new \in Nat
  BY <1>1 DEF IInv, TypeOK, InProgress
<1>4. rows' \in [Users -> [Items -> Nat]]
  BY <1>2, <1>3
<1>5. \A u \in Users, i \in Items :
        \/ rows'[u][i] = rows[u][i]
        \/ Quantity[i] # NoLimit /\ rows'[u][i] \in 1..Bound(i)
  BY <1>1, <1>2, <1>3
<1>6. QED
  BY <1>1, <1>4, <1>5, EndKeeps DEF WriteRow

\* Every step keeps the invariant.
LEMMA StepKeeps ==
  ASSUME IInv, [Next]_vars
  PROVE  IInv'
<1>1. CASE UNCHANGED vars
  BY <1>1, RowsKeep DEF vars, IInv, TypeOK
<1>2. ASSUME NEW u \in Users, NEW i \in Items,
             \/ AddToCart(u, i) \/ AddToCookie(u, i) \/ AddFavourite(u, i)
             \/ RemoveFavourite(u, i)
      PROVE  IInv'
  BY <1>2, CartRequestKeeps
<1>3. ASSUME NEW u \in Users, NEW i \in Items, NEW q \in Patches,
             NEW step \in {-1, 1}, NEW s \in BOOLEAN, StartPatch(q, u, i, step, s)
      PROVE  IInv'
  BY <1>3, StartKeeps
<1>4. ASSUME NEW u \in Users,
             RemoveFromCookie(u) \/ \E S \in SUBSET Items : RemoveFromCart(u, S)
      PROVE  IInv'
  BY <1>4, RemovalKeeps
<1>5. ASSUME NEW q \in Patches, PatchFails(q) PROVE IInv'
  BY <1>5, EndKeeps DEF PatchFails, IInv, TypeOK
<1>6. ASSUME NEW q \in Patches, ReadAvailable(q) \/ ReadRow(q) \/ WriteRow(q) PROVE IInv'
  BY <1>6, ReadAvailableKeeps, ReadRowKeeps, WriteRowKeeps
<1>7. ASSUME NEW u \in Users, NEW b \in Baskets, Order(u, b) PROVE IInv'
  BY <1>7, OrderKeeps
<1>8. QED
  BY <1>1, <1>2, <1>3, <1>4, <1>5, <1>6, <1>7 DEF Next

\* The invariant holds in every state of every behaviour.
THEOREM InvariantHolds == Spec => []IInv
<1>1. Init => IInv
  BY InitIInv
<1>2. IInv /\ [Next]_vars => IInv'
  BY StepKeeps
<1>3. QED
  BY <1>1, <1>2, PTL DEF Spec

-----------------------------------------------------------------------------
(* The theorems *)

\* The rows, cookies and requests of the cart hold only what they can hold.
THEOREM TypeCorrect == Spec => []TypeOK
<1>1. IInv => TypeOK
  BY DEF IInv
<1>2. QED
  BY <1>1, InvariantHolds, PTL

\* However many PATCH requests of a user write what they computed from older rows
\* and an older stock, while rows are added, removed and ordered, no quantity leaves
\* the limits of change_cart_item_quantity.
THEOREM CartsKeepToLimits == Spec => []CartWithinLimit
<1>1. IInv => CartWithinLimit
  BY DEF IInv
<1>2. QED
  BY <1>1, InvariantHolds, PTL

\* change_cart_item_quantity, which decides by the session cart where to write,
\* writes to the table for a user it has found.
THEOREM SignedInUsesTable == Spec => []SignedInMeansTable
<1>1. ASSUME IInv, NEW q \in Patches, patch[q].at = "writing" PROVE patch[q].cart = {}
  BY <1>1, UnderWay DEF WriteAllowed, CartGone
<1>2. IInv => SignedInMeansTable
  BY <1>1 DEF SignedInMeansTable
<1>3. QED
  BY <1>2, InvariantHolds, PTL

\* A row that a DELETE or an order has removed does not come back by the PATCH that
\* had read it: only add_item_to_cart makes rows, of one piece.
THEOREM PatchesCreateNothing == Spec => OnlyAddCreatesRow
<1> DEFINE Appears(u, i) == rows[u][i] = 0 /\ rows'[u][i] > 0
           Added == \A u \in Users, i \in Items :
                      Appears(u, i) => rows'[u][i] = 1 /\ UNCHANGED patch
<1>1. ASSUME IInv, [Next]_vars PROVE Added
  <2>1. rows \in [Users -> [Items -> Nat]]
    BY <1>1 DEF IInv, TypeOK
  <2>2. CASE UNCHANGED rows
    BY <2>1, <2>2
  <2>3. ASSUME NEW v \in Users, NEW j \in Items, AddToCart(v, j) PROVE Added
    BY <2>1, <2>3 DEF AddToCart
  <2>4. ASSUME NEW v \in Users, NEW b \in Baskets, Order(v, b) PROVE Added
    BY <2>1, <2>4 DEF Order
  <2>5. ASSUME NEW v \in Users, NEW S \in SUBSET Items, RemoveFromCart(v, S) PROVE Added
    BY <2>1, <2>5 DEF RemoveFromCart
  <2>6. ASSUME NEW q \in Patches, WriteRow(q) PROVE Added
    <3>1. patch[q].user \in Users /\ patch[q].item \in Items
      BY <1>1, <2>6, UnderWay DEF WriteRow, InProgress
    <3>2. QED
      BY <2>1, <2>6, <3>1 DEF WriteRow
  <2>7. QED
    BY <1>1, <2>2, <2>3, <2>4, <2>5, <2>6 DEF Next, vars, AddToCookie, AddFavourite,
       RemoveFavourite, StartPatch, RemoveFromCookie, PatchFails, ReadAvailable, ReadRow
<1>2. IInv /\ [Next]_vars => [Added]_vars
  BY <1>1
<1>3. QED
  BY <1>2, InvariantHolds, PTL DEF Spec, OnlyAddCreatesRow
=============================================================================
