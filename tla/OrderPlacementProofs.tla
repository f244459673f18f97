------------------------ MODULE OrderPlacementProofs ------------------------
(***************************************************************************)
(* Proofs about OrderPlacement, for any items, customers and requests.     *)
(*                                                                         *)
(* The inductive invariant says what each phase of an order request owns.  *)
(* From "locked" on it holds the lock of every row of its basket; a locked *)
(* row cannot be committed by anyone else, so the quantity loaded with the *)
(* lock stays the committed one, and the limit checked at the flush still  *)
(* holds at the commit.                                                    *)
(***************************************************************************)
EXTENDS OrderPlacement, SumLemmas, TLAPS

Locked == {"locked"} \cup Reserved
Drafted == {"created", "calling", "answered", "recorded", "cleared"}

\* A request in progress has a customer, and a scan is at a row of its basket.
ControlInv ==
  \A r \in Requests :
    /\ Active(r) => customer[r] \in Customers
    /\ pc[r] = "locking" => scan[r] \in Rows(lines[r])

\* What the transaction of r has inserted, and what the bank has said.
DraftInv ==
  \A r \in Requests :
    /\ pc[r] \in Drafted => draft[r] \in Orders /\ draft[r].lines = lines[r]
    /\ pc[r] \in {"recorded", "cleared"} => draft[r].payment
    /\ pc[r] \in {"answered", "recorded", "cleared"} => bank[r] = "registered"

\* The order is for the customer of the request, and the cart rows deleted with
\* it are of its lines.
CartInv ==
  \A r \in Requests :
    /\ clearing[r] \subseteq Rows(lines[r])
    /\ clearing[r] # {} => pc[r] = "cleared"
    /\ pc[r] \in Drafted => draft[r].customer = customer[r]

\* Only a finished request has a committed order.
OrderInv ==
  \A r \in Requests : orders[r] # NoOrder => pc[r] \in Finished

\* A scan that has ended holds every row.
HoldInv ==
  \A r \in Requests : pc[r] \in Locked =>
    \A i \in Rows(lines[r]) : rowLock[i] = r

\* A locked row is as its holder loaded it.
LoadedInv ==
  \A i \in Items : rowLock[i] # Nobody => loaded[rowLock[i]][i] = ordered[i]

\* What has been flushed is within the limits.
FlushInv ==
  \A r \in Requests : pc[r] \in Reserved =>
    \A i \in Rows(lines[r]) : QuantityLimit(i, NewQuantity(r, i))

IInv ==
  /\ TypeOK
  /\ ControlInv
  /\ DraftInv
  /\ CartInv
  /\ OrderInv
  /\ LocksHeldByActive
  /\ HoldInv
  /\ LoadedInv
  /\ FlushInv
  /\ WithinLimit
  /\ LinkMeansOrder

-----------------------------------------------------------------------------
(* Facts about baskets *)

\* The rows of a basket are items, and its quantities are integers.
LEMMA BasketType ==
  ASSUME NEW b \in Baskets
  PROVE  /\ Rows(b) \subseteq Items
         /\ \A i \in Rows(b) : b[i] \in Int
<1>1. PICK S \in SUBSET Items : b \in [S -> LineQuantities]
  BY DEF Baskets
<1> QED
  BY <1>1, LineAssumption DEF Rows

\* The empty basket is a basket without rows.
LEMMA EmptyBasketType == EmptyBasket \in Baskets /\ Rows(EmptyBasket) = {}
<1>1. EmptyBasket \in [{} -> LineQuantities]
  BY DEF EmptyBasket
<1> QED
  BY <1>1 DEF Baskets, Rows, EmptyBasket

\* Storing the payment changes nothing else of an order.
LEMMA PaidOrder ==
  ASSUME NEW o \in Orders, NEW q, q = [o EXCEPT !.payment = TRUE]
  PROVE  q \in Orders /\ q.lines = o.lines /\ q.customer = o.customer /\ q.payment
<1>1. q \in Orders /\ q.lines = o.lines /\ q.customer = o.customer
  BY DEF Orders
<1>2. q.payment = TRUE
  BY DEF Orders
<1> QED
  BY <1>1, <1>2

-----------------------------------------------------------------------------
(* The invariant holds at first *)

\* The invariant holds before any request is sent.
LEMMA InitIInv == Init => IInv
<1> SUFFICES ASSUME Init PROVE IInv
  OBVIOUS
<1> USE DEF Init
<1>1. TypeOK
  BY EmptyBasketType DEF TypeOK, Phases, NothingLoaded
<1>2. /\ ControlInv /\ DraftInv /\ CartInv /\ OrderInv
      /\ HoldInv /\ FlushInv /\ LinkMeansOrder
  BY DEF ControlInv, DraftInv, CartInv, OrderInv, HoldInv, FlushInv, LinkMeansOrder,
         Active, InTransaction, Locked, Reserved, Drafted
<1>3. LocksHeldByActive /\ LoadedInv
  BY DEF LocksHeldByActive, LoadedInv
<1>4. WithinLimit
  BY QuantityAssumption DEF WithinLimit, QuantityLimit
<1> QED
  BY <1>1, <1>2, <1>3, <1>4 DEF IInv

-----------------------------------------------------------------------------
(* A rollback keeps it *)

\* A transaction that is rolled back writes nothing and gives up its locks.
LEMMA RollbackKeeps ==
  ASSUME IInv, NEW r \in Requests, Active(r), Rollback(r)
  PROVE  IInv'
<1> USE DEF IInv
<1>1. TypeOK'
  <2>1. customer[r] \in Customers /\ lines[r] \in Baskets
    BY DEF TypeOK, ControlInv
  <2>2. cookie' \in [Customers -> Baskets] /\ carried' \in [Customers -> Baskets]
    BY <2>1 DEF TypeOK, Rollback, Respond
  <2>3. lines' \in [Requests -> Baskets] /\ customer' \in [Requests -> Customers \cup {Nobody}]
    BY EmptyBasketType DEF TypeOK, Rollback, Release
  <2>4. /\ scan' \in [Requests -> Items \cup {NoRow}]
        /\ loaded' \in [Requests -> [Items -> Int]]
        /\ draft' \in [Requests -> Orders \cup {NoOrder}]
        /\ clearing' \in [Requests -> SUBSET Items]
        /\ rowLock' \in [Items -> Requests \cup {Nobody}]
        /\ pc' \in [Requests -> Phases]
    BY DEF TypeOK, Rollback, Release, NothingLoaded, Phases, Finished
  <2> QED
    BY <2>2, <2>3, <2>4 DEF TypeOK, Rollback, committed
<1>2. ControlInv' /\ DraftInv'
  BY DEF TypeOK, ControlInv, DraftInv, Rollback, Release, Active, InTransaction, Drafted
<1>3. OrderInv' /\ LinkMeansOrder'
  BY DEF TypeOK, OrderInv, LinkMeansOrder, Rollback, Finished, committed, Active, InTransaction
<1>4. LocksHeldByActive' /\ LoadedInv'
  BY SentinelAssumption
  DEF TypeOK, LocksHeldByActive, LoadedInv, Rollback, Release, Active, InTransaction, committed
<1>5. HoldInv' /\ FlushInv'
  <2> SUFFICES ASSUME NEW q \in Requests, pc'[q] \in Locked
               PROVE  /\ \A i \in Rows(lines'[q]) : rowLock'[i] = q
                      /\ pc'[q] \in Reserved =>
                           \A i \in Rows(lines'[q]) :
                              QuantityLimit(i, loaded'[q][i] + lines'[q][i])
    BY DEF HoldInv, FlushInv, Locked, NewQuantity
  <2>1. q # r /\ pc'[q] = pc[q] /\ lines'[q] = lines[q] /\ loaded'[q] = loaded[q]
    BY DEF TypeOK, Rollback, Release, Locked, Reserved
  <2>2. Rows(lines[q]) \subseteq Items
    BY BasketType DEF TypeOK
  <2>3. \A i \in Rows(lines[q]) : rowLock'[i] = q
    BY <2>1, <2>2 DEF HoldInv, Rollback, Release
  <2> QED
    BY <2>1, <2>3 DEF FlushInv, NewQuantity
<1>6. WithinLimit'
  BY DEF WithinLimit, Rollback, committed
<1>7. CartInv'
  BY DEF TypeOK, CartInv, Rollback, Release, Drafted
<1> QED
  BY <1>1, <1>2, <1>3, <1>4, <1>5, <1>6, <1>7

-----------------------------------------------------------------------------
(* A commit keeps it *)

\* Commit and CommitUnacknowledged, which differ in what the client is told.
CommitAs(r, end) ==
  /\ Advance(r, "cleared", end)
  /\ WriteCommitted(r) /\ Release(r) /\ Respond(r)
  /\ UNCHANGED bank

\* A row somebody else holds is not one of those r commits.
LEMMA CommitWritesHeldRows ==
  ASSUME IInv, NEW r \in Requests, NEW end \in Finished, CommitAs(r, end)
  PROVE  /\ \A i \in Rows(lines[r]) : i \in Items /\ rowLock[i] = r
         /\ \A i \in Items : ordered'[i] = IF i \in Rows(lines[r])
                                           THEN loaded[r][i] + lines[r][i]
                                           ELSE ordered[i]
         /\ \A i \in Rows(lines[r]) : QuantityLimit(i, ordered'[i])
         /\ draft[r] \in Orders /\ draft[r].payment /\ bank[r] = "registered"
<1> USE DEF IInv
<1>1. pc[r] = "cleared" /\ Rows(lines[r]) \subseteq Items
  BY BasketType DEF CommitAs, Advance, TypeOK
<1>2. \A i \in Rows(lines[r]) : rowLock[i] = r
  BY <1>1 DEF HoldInv, Locked, Reserved
<1>3. \A i \in Items : ordered'[i] = IF i \in Rows(lines[r])
                                     THEN loaded[r][i] + lines[r][i]
                                     ELSE ordered[i]
  BY DEF CommitAs, WriteCommitted, NewQuantity
<1>4. \A i \in Rows(lines[r]) : QuantityLimit(i, loaded[r][i] + lines[r][i])
  BY <1>1 DEF FlushInv, Reserved, NewQuantity
<1>5. draft[r] \in Orders /\ draft[r].payment /\ bank[r] = "registered"
  BY <1>1 DEF DraftInv, Drafted
<1> QED
  BY <1>1, <1>2, <1>3, <1>4, <1>5

\* A commit, acknowledged or not, keeps the invariant.
LEMMA CommitKeeps ==
  ASSUME IInv, NEW r \in Requests, NEW end \in Finished, CommitAs(r, end)
  PROVE  IInv'
<1> USE DEF IInv
<1>1. /\ \A i \in Rows(lines[r]) : i \in Items /\ rowLock[i] = r
      /\ \A i \in Items : ordered'[i] = IF i \in Rows(lines[r])
                                        THEN loaded[r][i] + lines[r][i]
                                        ELSE ordered[i]
      /\ \A i \in Rows(lines[r]) : QuantityLimit(i, ordered'[i])
      /\ draft[r] \in Orders /\ draft[r].payment /\ bank[r] = "registered"
  BY CommitWritesHeldRows
<1>2. pc[r] = "cleared" /\ customer[r] \in Customers /\ lines[r] \in Baskets
  BY DEF CommitAs, Advance, TypeOK, ControlInv, Active, InTransaction
<1>3. TypeOK'
  <2>1. cookie' \in [Customers -> Baskets] /\ carried' \in [Customers -> Baskets]
    BY <1>2 DEF TypeOK, CommitAs, Respond
  <2>2. lines' \in [Requests -> Baskets] /\ customer' \in [Requests -> Customers \cup {Nobody}]
    BY EmptyBasketType DEF TypeOK, CommitAs, Release
  <2>3. ordered' \in [Items -> Int]
    <3>1. \A i \in Rows(lines[r]) : lines[r][i] \in Int /\ loaded[r][i] \in Int
      BY <1>1, <1>2, BasketType DEF TypeOK
    <3> QED
      BY <3>1, <1>1 DEF TypeOK, CommitAs, WriteCommitted, NewQuantity
  <2>4. orders' \in [Requests -> Orders \cup {NoOrder}] /\ cart' \in [Customers -> SUBSET Items]
    BY DEF TypeOK, CommitAs, WriteCommitted
  <2>5. /\ scan' \in [Requests -> Items \cup {NoRow}]
        /\ loaded' \in [Requests -> [Items -> Int]]
        /\ draft' \in [Requests -> Orders \cup {NoOrder}]
        /\ clearing' \in [Requests -> SUBSET Items]
        /\ rowLock' \in [Items -> Requests \cup {Nobody}]
        /\ pc' \in [Requests -> Phases]
    BY DEF TypeOK, CommitAs, Advance, Release, NothingLoaded, Phases, Finished
  <2> QED
    BY <2>1, <2>2, <2>3, <2>4, <2>5 DEF TypeOK, CommitAs
<1>4. ControlInv' /\ DraftInv'
  BY DEF TypeOK, ControlInv, DraftInv, CommitAs, Advance, Release, Active,
         InTransaction, Finished, Drafted
<1>5. OrderInv' /\ LinkMeansOrder'
  BY <1>1, SentinelAssumption
  DEF TypeOK, OrderInv, LinkMeansOrder, CommitAs, Advance, WriteCommitted, Finished
<1>6. LocksHeldByActive' /\ LoadedInv'
  <2> SUFFICES ASSUME NEW i \in Items, rowLock'[i] # Nobody
               PROVE  /\ Active(rowLock[i])' /\ i \in Rows(lines'[rowLock'[i]])
                      /\ loaded'[rowLock'[i]][i] = ordered'[i]
    BY DEF LocksHeldByActive, LoadedInv, Active
  <2>1. rowLock[i] # r /\ rowLock'[i] = rowLock[i]
    BY DEF TypeOK, CommitAs, Release
  <2>2. i \notin Rows(lines[r])
    BY <2>1, <1>1
  <2> QED
    BY <2>1, <2>2, <1>1
    DEF TypeOK, LocksHeldByActive, LoadedInv, CommitAs, Advance, Release, Active
<1>7. HoldInv' /\ FlushInv'
  <2> SUFFICES ASSUME NEW q \in Requests, pc'[q] \in Locked
               PROVE  /\ \A i \in Rows(lines'[q]) : rowLock'[i] = q
                      /\ pc'[q] \in Reserved =>
                           \A i \in Rows(lines'[q]) :
                              QuantityLimit(i, loaded'[q][i] + lines'[q][i])
    BY DEF HoldInv, FlushInv, Locked, NewQuantity
  <2>1. q # r /\ pc'[q] = pc[q] /\ lines'[q] = lines[q] /\ loaded'[q] = loaded[q]
    BY DEF TypeOK, CommitAs, Advance, Release, Locked, Reserved, Finished
  <2>2. Rows(lines[q]) \subseteq Items
    BY BasketType DEF TypeOK
  <2>3. \A i \in Rows(lines[q]) : rowLock'[i] = q
    BY <2>1, <2>2 DEF HoldInv, CommitAs, Release
  <2> QED
    BY <2>1, <2>3 DEF FlushInv, NewQuantity
<1>8. WithinLimit'
  BY <1>1 DEF WithinLimit, QuantityLimit
<1>9. CartInv'
  BY DEF TypeOK, CartInv, CommitAs, Advance, Release, Finished, Drafted
<1> QED
  BY <1>3, <1>4, <1>5, <1>6, <1>7, <1>8, <1>9

-----------------------------------------------------------------------------
(* A crash keeps it *)

\* A crash of the process keeps it.
LEMMA CrashKeeps == ASSUME IInv, Crash PROVE IInv'
<1> USE DEF IInv, Crash
<1>1. TypeOK'
  BY EmptyBasketType DEF TypeOK, Phases, Finished, NothingLoaded, committed
<1>2. \A r \in Requests : pc'[r] \notin InTransaction
  BY DEF Active, InTransaction
<1>3. ControlInv' /\ DraftInv' /\ HoldInv' /\ FlushInv'
  BY <1>2 DEF ControlInv, DraftInv, HoldInv, FlushInv, Active, InTransaction,
              Drafted, Locked, Reserved
<1>4. OrderInv' /\ LinkMeansOrder'
  BY DEF OrderInv, LinkMeansOrder, Finished, committed, Active, InTransaction
<1>5. LocksHeldByActive' /\ LoadedInv' /\ WithinLimit'
  BY DEF LocksHeldByActive, LoadedInv, WithinLimit, committed
<1>6. CartInv'
  BY <1>2 DEF CartInv, Drafted, InTransaction
<1> QED
  BY <1>1, <1>3, <1>4, <1>5, <1>6

-----------------------------------------------------------------------------
(* Every other step keeps it *)

\* What the browser does to cart and cookie keeps it.
LEMMA BrowserKeeps ==
  ASSUME IInv, NEW u \in Customers,
         \/ \E i \in Items : AddToCart(u, i)
         \/ \E b \in Baskets : Checkout(u, b)
         \/ Browse(u) \/ Return(u)
  PROVE  IInv'
<1> USE DEF IInv
<1>1. UNCHANGED <<ordered, orders, pc, customer, lines, scan, loaded, draft, clearing,
                  rowLock, bank>>
  BY DEF AddToCart, Checkout, Browse, Return, committed, transaction
<1>2. TypeOK'
  <2>1. TypeOK /\ EmptyBasket \in Baskets
    BY EmptyBasketType
  <2> HIDE DEF IInv
  <2>2. cart' \in [Customers -> SUBSET Items]
    BY <2>1 DEF TypeOK, AddToCart, Checkout, Browse, Return, committed
  <2>3. cookie' \in [Customers -> Baskets]
    BY <2>1 DEF TypeOK, AddToCart, Checkout, Browse, Return
  <2>4. carried' \in [Customers -> Baskets]
    BY <2>1 DEF TypeOK, AddToCart, Checkout, Browse, Return
  <2> QED
    BY <1>1, <2>1, <2>2, <2>3, <2>4 DEF TypeOK
<1>3. ControlInv' /\ DraftInv' /\ OrderInv' /\ LinkMeansOrder'
  BY <1>1 DEF ControlInv, DraftInv, OrderInv, LinkMeansOrder, Active
<1>4. LocksHeldByActive' /\ HoldInv' /\ LoadedInv' /\ FlushInv' /\ WithinLimit'
  BY <1>1 DEF LocksHeldByActive, HoldInv, LoadedInv, FlushInv, WithinLimit, Active, NewQuantity
<1>5. CartInv'
  BY <1>1 DEF CartInv
<1> QED
  BY <1>2, <1>3, <1>4, <1>5

\* Letting a request in keeps it.
LEMMA ReceiveKeeps ==
  ASSUME IInv, NEW r \in Requests, NEW u \in Customers, Receive(r, u)
  PROVE  IInv'
<1> USE DEF IInv
<1>1. pc[r] = "idle" /\ pc'[r] = "locking" /\ cookie[u] \in Baskets
      /\ Rows(cookie[u]) \subseteq Items
  BY BasketType DEF TypeOK, Receive, Advance
<1>2. TypeOK'
  BY <1>1 DEF TypeOK, Receive, Advance, Phases, InTransaction, committed
<1>3. ControlInv'
  BY <1>1 DEF TypeOK, ControlInv, Receive, Advance, Active, InTransaction
<1>4. DraftInv' /\ OrderInv' /\ LinkMeansOrder' /\ WithinLimit'
  BY <1>1 DEF TypeOK, DraftInv, OrderInv, LinkMeansOrder, WithinLimit, Receive, Advance,
              committed, Drafted, Finished
<1>5. \A i \in Items : rowLock[i] # r
  BY <1>1, SentinelAssumption DEF LocksHeldByActive, Active, InTransaction
<1>6. LocksHeldByActive' /\ LoadedInv'
  BY <1>1, <1>5 DEF TypeOK, LocksHeldByActive, LoadedInv, Receive, Advance, Active,
                    committed, InTransaction
<1>7. HoldInv' /\ FlushInv'
  BY <1>1 DEF TypeOK, HoldInv, FlushInv, Receive, Advance, Locked, Reserved, NewQuantity
<1>8. CartInv'
  <2>1. clearing[r] = {}
    BY <1>1 DEF CartInv
  <2> QED
    BY <2>1, <1>1 DEF TypeOK, CartInv, Receive, Advance, Drafted
<1> QED
  BY <1>2, <1>3, <1>4, <1>6, <1>7, <1>8

\* Refusing a request keeps it.
LEMMA RefuseKeeps ==
  ASSUME IInv, NEW r \in Requests, NEW u \in Customers, Refuse(r, u)
  PROVE  IInv'
<1> USE DEF IInv
<1>1. pc[r] = "idle" /\ pc'[r] = "failed"
  BY DEF TypeOK, Refuse, Advance
<1>2. TypeOK'
  BY DEF TypeOK, Refuse, Advance, Phases, Finished, committed, transaction
<1>3. ControlInv' /\ DraftInv' /\ OrderInv' /\ LinkMeansOrder'
  BY <1>1 DEF TypeOK, ControlInv, DraftInv, OrderInv, LinkMeansOrder, Refuse, Advance, Active,
              InTransaction, Drafted, Finished, committed, transaction
<1>4. LocksHeldByActive' /\ LoadedInv' /\ WithinLimit'
  BY <1>1 DEF TypeOK, LocksHeldByActive, LoadedInv, WithinLimit, Refuse, Advance, Active,
              InTransaction, committed, transaction
<1>5. HoldInv' /\ FlushInv'
  BY <1>1 DEF TypeOK, HoldInv, FlushInv, Refuse, Advance, Locked, Reserved, NewQuantity,
              committed, transaction
<1>6. CartInv'
  BY <1>1 DEF TypeOK, CartInv, Refuse, Advance, Drafted, transaction
<1> QED
  BY <1>2, <1>3, <1>4, <1>5, <1>6

\* A row that is free belongs to no request that has ended its scan, so taking
\* it disturbs nobody.
LEMMA LockRowKeeps ==
  ASSUME IInv, NEW r \in Requests, LockRow(r)
  PROVE  IInv'
<1> USE DEF IInv
<1> DEFINE i == scan[r]
<1>1. /\ pc[r] = "locking" /\ rowLock[i] = Nobody
      /\ i \in Items /\ i \in Rows(lines[r]) /\ Rows(lines[r]) \subseteq Items
  BY BasketType DEF TypeOK, LockRow, ControlInv
<1>2. /\ rowLock' = [rowLock EXCEPT ![i] = r]
      /\ loaded' = [loaded EXCEPT ![r][i] = ordered[i]]
      /\ UNCHANGED <<cookie, carried, cart, ordered, orders, customer, lines, draft, clearing,
                     bank>>
  BY DEF LockRow, TakeRow, committed
<1>3. \/ /\ Rows(lines[r]) \subseteq Held(r) \cup {i}
         /\ scan' = [scan EXCEPT ![r] = NoRow]
         /\ pc' = [pc EXCEPT ![r] = "locked"]
      \/ /\ \E next \in Rows(lines[r]) : scan' = [scan EXCEPT ![r] = next]
         /\ pc' = pc
  BY DEF LockRow, TakeRow
<1>4. TypeOK'
  <2>1. scan' \in [Requests -> Items \cup {NoRow}] /\ pc' \in [Requests -> Phases]
    <3>1. \E next \in Items \cup {NoRow} : scan' = [scan EXCEPT ![r] = next]
      BY <1>1, <1>3
    <3>2. pc' = pc \/ pc' = [pc EXCEPT ![r] = "locked"]
      BY <1>3
    <3>3. "locked" \in Phases
      BY DEF Phases, InTransaction
    <3>4. scan \in [Requests -> Items \cup {NoRow}] /\ pc \in [Requests -> Phases]
      BY DEF TypeOK
    <3> HIDE DEF IInv
    <3> QED
      BY <3>1, <3>2, <3>3, <3>4
  <2>2. rowLock' \in [Items -> Requests \cup {Nobody}]
    BY <1>2 DEF TypeOK
  <2>3. loaded' \in [Requests -> [Items -> Int]]
    <3>1. loaded \in [Requests -> [Items -> Int]] /\ ordered[i] \in Int
      BY <1>1 DEF TypeOK
    <3> HIDE DEF IInv, i
    <3> QED
      BY <1>2, <3>1
  <2> QED
    BY <2>1, <2>2, <2>3, <1>2 DEF TypeOK
<1>5. ControlInv'
  BY <1>1, <1>2, <1>3 DEF TypeOK, ControlInv, Active, InTransaction
<1>6. DraftInv' /\ OrderInv' /\ LinkMeansOrder' /\ WithinLimit'
  <2>1. ASSUME NEW q \in Requests
        PROVE  pc'[q] = pc[q] \/ (q = r /\ pc'[q] = "locked")
    <3>1. pc \in [Requests -> Phases]
      BY DEF TypeOK
    <3>2. pc' = pc \/ pc' = [pc EXCEPT ![r] = "locked"]
      BY <1>3
    <3> HIDE DEF IInv
    <3> QED
      BY <3>1, <3>2
  <2>2. DraftInv'
    BY <1>2, <2>1 DEF DraftInv, Drafted
  <2>3. OrderInv' /\ LinkMeansOrder'
    BY <1>1, <1>2, <2>1 DEF OrderInv, LinkMeansOrder, Finished
  <2>4. WithinLimit'
    BY <1>2 DEF WithinLimit
  <2> QED
    BY <2>2, <2>3, <2>4
<1>7. LocksHeldByActive' /\ LoadedInv'
  <2>1. TypeOK /\ LocksHeldByActive /\ LoadedInv
    OBVIOUS
  <2> HIDE DEF IInv
  <2>2. LocksHeldByActive'
    BY <1>1, <1>2, <1>3, <2>1 DEF TypeOK, LocksHeldByActive, Active, InTransaction
  <2>3. LoadedInv'
    BY <1>1, <1>2, <1>3, <2>1 DEF TypeOK, LoadedInv, Active, InTransaction
  <2> QED
    BY <2>2, <2>3
<1>8. HoldInv'
  <2> SUFFICES ASSUME NEW q \in Requests, pc'[q] \in Locked, NEW j \in Rows(lines[q])
               PROVE  rowLock'[j] = q
    BY <1>2 DEF HoldInv
  <2>0. j \in Items
    BY BasketType DEF TypeOK
  <2>1. CASE q = r
    BY <2>0, <2>1, <1>1, <1>2, <1>3 DEF TypeOK, Held, Locked, Reserved
  <2>2. CASE q # r
    <3>1. pc[q] \in Locked
      BY <2>2, <1>3 DEF TypeOK
    <3>2. rowLock[j] = q
      BY <3>1 DEF HoldInv
    <3> QED
      BY <3>2, <2>0, <1>1, <1>2, SentinelAssumption DEF TypeOK
  <2> QED
    BY <2>1, <2>2
<1>9. FlushInv'
  <2> SUFFICES ASSUME NEW q \in Requests, pc'[q] \in Reserved, NEW j \in Rows(lines[q])
               PROVE  QuantityLimit(j, loaded'[q][j] + lines[q][j])
    BY <1>2 DEF FlushInv, NewQuantity
  <2>1. q # r /\ pc'[q] = pc[q]
    BY <1>1, <1>3 DEF TypeOK, Reserved
  <2>2. loaded'[q] = loaded[q]
    BY <2>1, <1>2 DEF TypeOK
  <2> QED
    BY <2>1, <2>2 DEF FlushInv, NewQuantity
<1>10. CartInv'
  BY <1>1, <1>2, <1>3 DEF TypeOK, CartInv, Drafted
<1> QED
  BY <1>4, <1>5, <1>6, <1>7, <1>8, <1>9, <1>10

\* A reservation is within the limits when it is flushed.
LEMMA ReserveKeeps ==
  ASSUME IInv, NEW r \in Requests, Reserve(r)
  PROVE  IInv'
<1> USE DEF IInv
<1>1. /\ pc[r] = "locked" /\ pc' = [pc EXCEPT ![r] = "reserved"]
      /\ \A i \in Rows(lines[r]) : QuantityLimit(i, NewQuantity(r, i))
      /\ UNCHANGED <<cookie, carried, cart, ordered, orders, customer, lines, scan, loaded,
                     draft, clearing, rowLock, bank>>
  BY DEF Reserve, Advance, committed, transaction
<1>2. TypeOK'
  BY <1>1 DEF TypeOK, Phases, InTransaction
<1>3. ControlInv' /\ DraftInv' /\ OrderInv' /\ LinkMeansOrder'
  BY <1>1 DEF TypeOK, ControlInv, DraftInv, OrderInv, LinkMeansOrder, Active,
              InTransaction, Drafted, Finished
<1>4. LocksHeldByActive' /\ LoadedInv' /\ WithinLimit'
  BY <1>1 DEF TypeOK, LocksHeldByActive, LoadedInv, WithinLimit, Active, InTransaction
<1>5. HoldInv' /\ FlushInv'
  BY <1>1 DEF TypeOK, HoldInv, FlushInv, Locked, Reserved, NewQuantity
<1>6. CartInv'
  BY <1>1 DEF TypeOK, CartInv, Drafted
<1> QED
  BY <1>2, <1>3, <1>4, <1>5, <1>6

\* The steps between the reservation and the commit: they move the request on,
\* write its draft or note the cart rows, and touch no row of the catalog.
LEMMA MiddleKeeps ==
  ASSUME IInv, NEW r \in Requests,
         \/ CreateOrder(r) \/ CallBank(r) \/ BankAnswers(r)
         \/ RecordPayment(r) \/ ClearCart(r)
  PROVE  IInv'
<1> USE DEF IInv
<1>1. /\ pc[r] \in Reserved
      /\ \E next \in Drafted : pc' = [pc EXCEPT ![r] = next]
      /\ UNCHANGED <<cookie, carried, cart, ordered, orders, customer, lines, scan, loaded,
                     rowLock>>
  BY DEF CreateOrder, CallBank, BankAnswers, RecordPayment, ClearCart, Advance,
         Reserved, Drafted, committed, transaction
<1>2. /\ lines[r] \in Baskets /\ customer[r] \in Customers
      /\ Rows(lines[r]) \subseteq Items
  BY <1>1, BasketType DEF TypeOK, ControlInv, Active, InTransaction, Reserved
<1>3. draft' \in [Requests -> Orders \cup {NoOrder}]
  <2>1. CASE CreateOrder(r)
    <3>1. \A first \in Rows(lines[r]) : NewOrder(r, first) \in Orders
      BY <1>2 DEF NewOrder, Orders, IsPreorder
    <3> QED
      BY <2>1, <3>1 DEF CreateOrder, TypeOK
  <2>2. CASE RecordPayment(r)
    <3>1. draft[r] \in Orders
      BY <2>2 DEF RecordPayment, Advance, DraftInv, Drafted
    <3>2. [draft[r] EXCEPT !.payment = TRUE] \in Orders
      BY <3>1, PaidOrder
    <3> QED
      BY <2>2, <3>2 DEF RecordPayment, TypeOK
  <2>3. CASE CallBank(r) \/ BankAnswers(r) \/ ClearCart(r)
    BY <2>3 DEF CallBank, BankAnswers, ClearCart, transaction, TypeOK
  <2> QED
    BY <2>1, <2>2, <2>3
<1>4. /\ bank' \in [Requests -> {"none", "sent", "registered", "refused"}]
      /\ clearing' \in [Requests -> SUBSET Items]
  <2>1. bank' = bank \/ bank' = [bank EXCEPT ![r] = "sent"]
    BY DEF CreateOrder, CallBank, BankAnswers, RecordPayment, ClearCart
  <2>2. clearing' = clearing \/ \E S \in SUBSET Items : clearing' = [clearing EXCEPT ![r] = S]
    BY <1>2 DEF CreateOrder, CallBank, BankAnswers, RecordPayment, ClearCart, transaction
  <2>3. /\ bank \in [Requests -> {"none", "sent", "registered", "refused"}]
        /\ clearing \in [Requests -> SUBSET Items]
    BY DEF TypeOK
  <2> HIDE DEF IInv
  <2> QED
    BY <2>1, <2>2, <2>3
<1>5. TypeOK'
  <2>1. pc' \in [Requests -> Phases]
    BY <1>1 DEF TypeOK, Phases, InTransaction, Drafted
  <2> QED
    BY <1>1, <1>3, <1>4, <2>1 DEF TypeOK
<1>6. ControlInv' /\ OrderInv'
  BY <1>1 DEF TypeOK, ControlInv, OrderInv, Active, InTransaction, Reserved, Drafted, Finished
<1>7. DraftInv'
  <2>1. CASE CreateOrder(r)
    <3>1. PICK first \in Rows(lines[r]) : draft' = [draft EXCEPT ![r] = NewOrder(r, first)]
      BY <2>1 DEF CreateOrder
    <3>2. NewOrder(r, first) \in Orders /\ NewOrder(r, first).lines = lines[r]
      BY <1>2 DEF NewOrder, Orders, IsPreorder
    <3>3. draft'[r] \in Orders /\ draft'[r].lines = lines[r]
      BY <3>1, <3>2 DEF TypeOK
    <3>4. \A q \in Requests \ {r} : draft'[q] = draft[q]
      BY <3>1 DEF TypeOK
    <3> QED
      BY <2>1, <3>3, <3>4, <1>1 DEF TypeOK, DraftInv, CreateOrder, Advance, Drafted
  <2>2. CASE CallBank(r)
    BY <2>2 DEF TypeOK, DraftInv, CallBank, Advance, Drafted, transaction
  <2>3. CASE BankAnswers(r)
    BY <2>3 DEF TypeOK, DraftInv, BankAnswers, Advance, Drafted, transaction
  <2>4. CASE RecordPayment(r)
    <3>1. /\ draft[r] \in Orders /\ draft[r].lines = lines[r] /\ bank[r] = "registered"
          /\ pc[r] = "answered" /\ pc' = [pc EXCEPT ![r] = "recorded"]
          /\ draft' = [draft EXCEPT ![r].payment = TRUE]
      BY <2>4 DEF RecordPayment, Advance, DraftInv, Drafted
    <3>2. /\ draft'[r] = [draft[r] EXCEPT !.payment = TRUE]
          /\ \A q \in Requests \ {r} : draft'[q] = draft[q]
      BY <3>1 DEF TypeOK
    <3>3. draft'[r] \in Orders /\ draft'[r].lines = lines[r] /\ draft'[r].payment
      BY <3>1, <3>2, PaidOrder
    <3> QED
      BY <3>1, <3>2, <3>3, <1>1, <2>4 DEF TypeOK, DraftInv, RecordPayment, Drafted
  <2>5. CASE ClearCart(r)
    BY <2>5 DEF TypeOK, DraftInv, ClearCart, Advance, Drafted
  <2> QED
    BY <2>1, <2>2, <2>3, <2>4, <2>5
<1>8. LinkMeansOrder'
  <2>1. orders[r] = NoOrder
    BY <1>1 DEF OrderInv, Reserved, Finished
  <2>2. \A q \in Requests \ {r} : bank'[q] = bank[q]
    BY DEF TypeOK, CreateOrder, CallBank, BankAnswers, RecordPayment, ClearCart
  <2> QED
    BY <1>1, <2>1, <2>2 DEF TypeOK, LinkMeansOrder, Drafted
<1>9. LocksHeldByActive' /\ LoadedInv' /\ WithinLimit'
  BY <1>1 DEF TypeOK, LocksHeldByActive, LoadedInv, WithinLimit, Active, InTransaction, Drafted
<1>10. HoldInv' /\ FlushInv'
  BY <1>1 DEF TypeOK, HoldInv, FlushInv, Locked, Reserved, Drafted, NewQuantity
<1>11. CartInv'
  <2>1. CASE CreateOrder(r)
    <3>1. PICK first \in Rows(lines[r]) : draft' = [draft EXCEPT ![r] = NewOrder(r, first)]
      BY <2>1 DEF CreateOrder
    <3>2. draft'[r].customer = customer[r]
      BY <3>1 DEF TypeOK, NewOrder
    <3> QED
      BY <2>1, <3>1, <3>2, <1>1 DEF TypeOK, CartInv, CreateOrder, Advance, Drafted
  <2>2. CASE CallBank(r) \/ BankAnswers(r)
    BY <2>2 DEF TypeOK, CartInv, CallBank, BankAnswers, Advance, Drafted, transaction
  <2>3. CASE RecordPayment(r)
    <3>1. draft[r] \in Orders /\ draft[r].customer = customer[r]
      BY <2>3 DEF RecordPayment, Advance, DraftInv, CartInv, Drafted
    <3>2. /\ draft'[r].customer = customer[r]
          /\ \A q \in Requests \ {r} : draft'[q] = draft[q]
      BY <2>3, <3>1, PaidOrder DEF RecordPayment, TypeOK
    <3> QED
      BY <2>3, <3>2 DEF TypeOK, CartInv, RecordPayment, Advance, Drafted
  <2>4. CASE ClearCart(r)
    BY <2>4 DEF TypeOK, CartInv, ClearCart, Advance, Drafted
  <2> QED
    BY <2>1, <2>2, <2>3, <2>4
<1> QED
  BY <1>5, <1>6, <1>7, <1>8, <1>9, <1>10, <1>11

\* The decisions of the bank keep it.
LEMMA BankKeeps ==
  ASSUME IInv, NEW r \in Requests, BankDecides(r)
  PROVE  IInv'
<1> USE DEF IInv
<1>1. /\ bank[r] = "sent" /\ \A q \in Requests \ {r} : bank'[q] = bank[q]
      /\ UNCHANGED <<cookie, carried, cart, ordered, orders, pc, customer, lines, scan, loaded,
                     draft, clearing, rowLock>>
  BY DEF TypeOK, BankDecides, committed, transaction
<1>2. TypeOK'
  BY <1>1 DEF TypeOK, BankDecides
<1>3. ControlInv' /\ DraftInv' /\ OrderInv' /\ LinkMeansOrder'
  BY <1>1 DEF ControlInv, DraftInv, OrderInv, LinkMeansOrder, Active
<1>4. LocksHeldByActive' /\ HoldInv' /\ LoadedInv' /\ FlushInv' /\ WithinLimit'
  BY <1>1 DEF LocksHeldByActive, HoldInv, LoadedInv, FlushInv, WithinLimit, Active, NewQuantity
<1>5. CartInv'
  BY <1>1 DEF CartInv
<1> QED
  BY <1>2, <1>3, <1>4, <1>5

-----------------------------------------------------------------------------
(* The invariant *)

\* Every step keeps the invariant.
LEMMA StepKeeps == IInv /\ [Next]_vars => IInv'
<1> SUFFICES ASSUME IInv, [Next]_vars PROVE IInv'
  OBVIOUS
<1>1. ASSUME NEW r \in Requests, Progress(r) PROVE IInv'
  <2>1. CASE LockRow(r)
    BY <2>1, LockRowKeeps
  <2>2. CASE \/ DeadlockAbort(r) \/ OutOfStock(r) \/ OrmRejects(r) \/ NoAnswer(r)
    <3>1. Active(r) /\ Rollback(r)
      BY <2>2 DEF DeadlockAbort, WaitCycle, OutOfStock, OrmRejects, NoAnswer, Active,
                  InTransaction
    <3> QED
      BY <3>1, RollbackKeeps
  <2>3. CASE Reserve(r)
    BY <2>3, ReserveKeeps
  <2>4. CASE \/ CreateOrder(r) \/ CallBank(r) \/ BankAnswers(r)
             \/ RecordPayment(r) \/ ClearCart(r)
    BY <2>4, MiddleKeeps
  <2>5. CASE Commit(r) \/ CommitUnacknowledged(r)
    <3>1. CommitAs(r, "done") \/ CommitAs(r, "failed")
      BY <2>5 DEF Commit, CommitUnacknowledged, CommitAs
    <3> QED
      BY <3>1, CommitKeeps DEF Finished
  <2> QED
    BY <1>1, <2>1, <2>2, <2>3, <2>4, <2>5 DEF Progress
<1>2. ASSUME NEW u \in Customers,
             \/ \E i \in Items : AddToCart(u, i)
             \/ \E b \in Baskets : Checkout(u, b)
             \/ Browse(u) \/ Return(u)
             \/ \E r \in Requests : Receive(r, u) \/ Refuse(r, u)
      PROVE  IInv'
  BY <1>2, BrowserKeeps, ReceiveKeeps, RefuseKeeps
<1>3. ASSUME NEW r \in Requests, BankDecides(r) \/ Fault(r) PROVE IInv'
  BY <1>3, BankKeeps, RollbackKeeps DEF Fault
<1>4. CASE Crash
  BY <1>4, CrashKeeps
<1>5. CASE UNCHANGED vars
  BY <1>5
  DEF vars, IInv, TypeOK, ControlInv, DraftInv, CartInv, OrderInv, LocksHeldByActive, HoldInv,
      LoadedInv, FlushInv, WithinLimit, LinkMeansOrder, Active, NewQuantity
<1> QED
  BY <1>1, <1>2, <1>3, <1>4, <1>5 DEF Next

\* Every reachable state satisfies the inductive invariant.
THEOREM InvariantHolds == Spec => []IInv
<1> QED
  BY InitIInv, StepKeeps, PTL DEF Spec

\* Type correctness.
THEOREM TypeCorrect == Spec => []TypeOK
<1>1. IInv => TypeOK
  BY DEF IInv
<1> QED
  BY <1>1, InvariantHolds, PTL

\* However many requests compete for a row, it is never sold over its limit.
THEOREM NeverOversold == Spec => []WithinLimit
<1>1. IInv => WithinLimit
  BY DEF IInv
<1> QED
  BY <1>1, InvariantHolds, PTL

\* No row lock outlives its request.
THEOREM NoLockLeaks == Spec => []LocksHeldByActive
<1>1. IInv => LocksHeldByActive
  BY DEF IInv
<1> QED
  BY <1>1, InvariantHolds, PTL

\* A payment link belongs to a committed order, and every committed order has
\* a payment the bank knows.
THEOREM LinksAreBacked == Spec => []LinkMeansOrder
<1>1. IInv => LinkMeansOrder
  BY DEF IInv
<1> QED
  BY <1>1, InvariantHolds, PTL

\* A reservation stays valid for as long as the bank takes.
THEOREM ReservationsHold == Spec => []ReservationHolds
<1>1. IInv => ReservationHolds
  <2> SUFFICES ASSUME IInv, NEW r \in Requests, pc[r] \in Reserved,
                      NEW i \in Rows(lines[r])
               PROVE  /\ NewQuantity(r, i) = ordered[i] + lines[r][i]
                      /\ QuantityLimit(i, ordered[i] + lines[r][i])
    BY DEF ReservationHolds
  <2>1. i \in Items /\ rowLock[i] = r
    BY BasketType DEF IInv, TypeOK, HoldInv, Locked
  <2>2. loaded[r][i] = ordered[i]
    BY <2>1, SentinelAssumption DEF IInv, LoadedInv
  <2>3. QuantityLimit(i, NewQuantity(r, i))
    BY DEF IInv, FlushInv
  <2> QED
    BY <2>2, <2>3 DEF NewQuantity
<1> QED
  BY <1>1, InvariantHolds, PTL

-----------------------------------------------------------------------------
(* Orders keep to one section *)

\* An order as NewOrder makes it of a basket of one section.
Filed(o) ==
  /\ OneSection(o.lines)
  /\ \E first \in Rows(o.lines) : o.preorder = PreorderOf[first]
  /\ o.delivery <=> ~IsPreorder(o.lines)

\* The basket stays one of a single section on its way from the checkout, through
\* the cookie and the request, to the order.
SectionInv ==
  /\ \A u \in Customers : OneSection(cookie[u]) /\ OneSection(carried[u])
  /\ \A r \in Requests : OneSection(lines[r])
  /\ \A r \in Requests : draft[r] # NoOrder => Filed(draft[r])
  /\ \A r \in Requests : orders[r] # NoOrder => Filed(orders[r])

\* Requests that end leave baskets of one section behind.
LEMMA EndKeepsSections ==
  ASSUME IInv, SectionInv, NEW r \in Requests, Release(r), Respond(r),
         orders' = orders \/ orders' = [orders EXCEPT ![r] = draft[r]]
  PROVE  SectionInv'
<1> USE DEF IInv, TypeOK, SectionInv
<1>1. OneSection(EmptyBasket)
  BY EmptyBasketType DEF OneSection
<1>2. \A u \in Customers : OneSection(cookie'[u]) /\ OneSection(carried'[u])
  BY DEF Respond
<1>3. \A q \in Requests : lines'[q] = lines[q] \/ lines'[q] = EmptyBasket
  BY DEF Release
<1>4. \A q \in Requests : draft'[q] = draft[q] \/ draft'[q] = NoOrder
  BY DEF Release
<1>5. \A q \in Requests : orders'[q] = orders[q] \/ orders'[q] = draft[q]
  OBVIOUS
<1> QED
  BY <1>1, <1>2, <1>3, <1>4, <1>5

\* Every step keeps baskets and orders to one section.
LEMMA SectionsKept == IInv /\ SectionInv /\ [Next]_vars => SectionInv'
<1> SUFFICES ASSUME IInv, SectionInv, [Next]_vars PROVE SectionInv'
  OBVIOUS
<1> USE DEF SectionInv
<1>1. ASSUME NEW r \in Requests, Progress(r) \/ BankDecides(r) \/ Fault(r)
      PROVE  SectionInv'
  <2>1. CASE Commit(r) \/ CommitUnacknowledged(r)
    BY <2>1, EndKeepsSections DEF Commit, CommitUnacknowledged, WriteCommitted
  <2>2. CASE \/ DeadlockAbort(r) \/ OutOfStock(r) \/ OrmRejects(r) \/ NoAnswer(r) \/ Fault(r)
    BY <2>2, EndKeepsSections
    DEF DeadlockAbort, OutOfStock, OrmRejects, NoAnswer, Fault, Rollback, committed
  <2>3. CASE \/ LockRow(r) \/ Reserve(r) \/ CallBank(r) \/ BankAnswers(r) \/ ClearCart(r)
             \/ BankDecides(r)
    BY <2>3 DEF LockRow, TakeRow, Reserve, CallBank, BankAnswers, ClearCart, BankDecides,
                committed, transaction
  <2>4. CASE CreateOrder(r)
    <3>1. PICK first \in Rows(lines[r]) : draft' = [draft EXCEPT ![r] = NewOrder(r, first)]
      BY <2>4 DEF CreateOrder
    <3>2. Filed(NewOrder(r, first))
      BY DEF Filed, NewOrder
    <3>3. UNCHANGED <<cookie, carried, lines, orders>>
      BY <2>4 DEF CreateOrder, committed
    <3> HIDE DEF NewOrder
    <3> QED
      BY <3>1, <3>2, <3>3 DEF IInv, TypeOK
  <2>5. CASE RecordPayment(r)
    <3>1. pc[r] = "answered" /\ draft[r] \in Orders /\ draft[r] # NoOrder
      BY <2>5, SentinelAssumption DEF RecordPayment, Advance, IInv, DraftInv, Drafted
    <3>2. draft' = [draft EXCEPT ![r] = [draft[r] EXCEPT !.payment = TRUE]]
      BY <2>5 DEF RecordPayment
    <3>3. Filed([draft[r] EXCEPT !.payment = TRUE])
      BY <3>1 DEF Filed, Orders
    <3>4. UNCHANGED <<cookie, carried, lines, orders>>
      BY <2>5 DEF RecordPayment, committed
    <3> QED
      BY <3>2, <3>3, <3>4 DEF IInv, TypeOK
  <2> QED
    BY <1>1, <2>1, <2>2, <2>3, <2>4, <2>5 DEF Progress
<1>2. ASSUME NEW u \in Customers, NEW r \in Requests, Receive(r, u) \/ Refuse(r, u)
      PROVE  SectionInv'
  <2>1. lines' = lines \/ lines' = [lines EXCEPT ![r] = cookie[u]]
    BY <1>2 DEF Receive, Refuse, committed
  <2>2. UNCHANGED <<cookie, carried, draft, orders>>
    BY <1>2 DEF Receive, Refuse, committed, transaction
  <2> QED
    BY <2>1, <2>2 DEF IInv, TypeOK
<1>3. ASSUME NEW u \in Customers,
             \/ \E b \in Baskets : Checkout(u, b)
             \/ Browse(u) \/ Return(u)
      PROVE  SectionInv'
  <2>1. OneSection(EmptyBasket)
    BY EmptyBasketType DEF OneSection
  <2>2. /\ \A v \in Customers : OneSection(cookie'[v]) /\ OneSection(carried'[v])
        /\ UNCHANGED <<lines, draft, orders>>
    BY <1>3, <2>1 DEF Checkout, Browse, Return, IInv, TypeOK, committed, transaction
  <2> QED
    BY <2>2
<1>4. ASSUME NEW u \in Customers, NEW i \in Items, AddToCart(u, i)
      PROVE  SectionInv'
  BY <1>4 DEF AddToCart, transaction
<1>5. CASE Crash
  BY <1>5, EmptyBasketType DEF Crash, committed, OneSection
<1>6. CASE UNCHANGED vars
  BY <1>6 DEF vars
<1> QED
  BY <1>1, <1>2, <1>3, <1>4, <1>5, <1>6 DEF Next

\* Every order has lines of one preorder, the one it is filed under, or of none, and
\* then a delivery.
THEOREM OrdersKeepToOneSection == Spec => []OneSectionPerOrder
<1>1. Init => SectionInv
  BY EmptyBasketType DEF Init, SectionInv, OneSection
<1>2. SectionInv => OneSectionPerOrder
  <2> SUFFICES ASSUME SectionInv, NEW r \in Requests, orders[r] # NoOrder
               PROVE  /\ \A i \in Rows(orders[r].lines) : PreorderOf[i] = orders[r].preorder
                      /\ orders[r].delivery <=> (orders[r].preorder = NoPreorder)
    BY DEF OneSectionPerOrder
  <2>1. Filed(orders[r])
    BY DEF SectionInv
  <2>2. PICK first \in Rows(orders[r].lines) : orders[r].preorder = PreorderOf[first]
    BY <2>1 DEF Filed
  <2>3. \A i \in Rows(orders[r].lines) : PreorderOf[i] = orders[r].preorder
    BY <2>1, <2>2 DEF Filed, OneSection
  <2>4. IsPreorder(orders[r].lines) <=> orders[r].preorder # NoPreorder
    BY <2>2, <2>3 DEF IsPreorder
  <2>5. orders[r].delivery <=> ~IsPreorder(orders[r].lines)
    BY <2>1 DEF Filed
  <2> QED
    BY <2>3, <2>4, <2>5
<1> QED
  BY <1>1, <1>2, SectionsKept, InvariantHolds, PTL DEF Spec

-----------------------------------------------------------------------------
(* Every deadlock is one the database can see *)

\* The row a request is about to lock is not one it has already.
ScanInv == \A r \in Requests : pc[r] = "locking" => rowLock[scan[r]] # r

\* A request that ends waits for nothing, and the rows of others stay theirs.
LEMMA EndKeepsScans ==
  ASSUME IInv, ScanInv, NEW r \in Requests, Release(r),
         NEW end \in Finished, pc' = [pc EXCEPT ![r] = end]
  PROVE  ScanInv'
<1> SUFFICES ASSUME NEW q \in Requests, pc'[q] = "locking"
             PROVE  rowLock'[scan'[q]] # q
  BY DEF ScanInv
<1>1. q # r /\ pc[q] = "locking" /\ scan'[q] = scan[q]
  BY DEF IInv, TypeOK, Finished, Release
<1>2. scan[q] \in Items
  BY <1>1, BasketType DEF IInv, TypeOK, ControlInv
<1>3. rowLock'[scan[q]] \in {Nobody, rowLock[scan[q]]}
  BY <1>2 DEF Release
<1> QED
  BY <1>1, <1>3, SentinelAssumption DEF ScanInv

\* A scan goes on to a row its request does not hold.
LEMMA LockRowKeepsScans ==
  ASSUME IInv, ScanInv, NEW r \in Requests, LockRow(r)
  PROVE  ScanInv'
<1> SUFFICES ASSUME NEW q \in Requests, pc'[q] = "locking"
             PROVE  rowLock'[scan'[q]] # q
  BY DEF ScanInv
<1>1. pc[q] = "locking" /\ scan[q] \in Rows(lines[q]) /\ scan[r] \in Items
  BY BasketType DEF LockRow, TakeRow, IInv, TypeOK, ControlInv
<1>2. Rows(lines[q]) \subseteq Items
  BY BasketType DEF IInv, TypeOK
<1>3. rowLock' = [rowLock EXCEPT ![scan[r]] = r]
  BY DEF LockRow, TakeRow
<1>4. CASE q = r
  <2>1. PICK next \in Rows(lines[r]) \ (Held(r) \cup {scan[r]}) :
               scan' = [scan EXCEPT ![r] = next]
    BY <1>4 DEF LockRow, TakeRow, IInv, TypeOK
  <2>2. next \in Items /\ rowLock[next] # r /\ next # scan[r]
    BY <1>2, <1>4, <2>1 DEF Held
  <2> QED
    BY <1>3, <1>4, <2>1, <2>2 DEF IInv, TypeOK
<1>5. CASE q # r
  <2>1. scan'[q] = scan[q]
    BY <1>5 DEF LockRow, TakeRow, IInv, TypeOK
  <2> QED
    BY <1>1, <1>2, <1>3, <1>5, <2>1 DEF ScanInv, IInv, TypeOK
<1> QED
  BY <1>4, <1>5

\* No step lets a request wait for itself.
LEMMA ScansKept == IInv /\ ScanInv /\ [Next]_vars => ScanInv'
<1> SUFFICES ASSUME IInv, ScanInv, [Next]_vars PROVE ScanInv'
  OBVIOUS
<1>1. ASSUME NEW r \in Requests, Progress(r) \/ BankDecides(r) \/ Fault(r)
      PROVE  ScanInv'
  <2>1. CASE Commit(r) \/ CommitUnacknowledged(r)
    BY <2>1, EndKeepsScans DEF Commit, CommitUnacknowledged, Advance, Finished
  <2>2. CASE \/ DeadlockAbort(r) \/ OutOfStock(r) \/ OrmRejects(r) \/ NoAnswer(r) \/ Fault(r)
    BY <2>2, EndKeepsScans
    DEF DeadlockAbort, OutOfStock, OrmRejects, NoAnswer, Fault, Rollback, Finished
  <2>3. CASE \/ Reserve(r) \/ CreateOrder(r) \/ CallBank(r) \/ BankAnswers(r)
             \/ RecordPayment(r) \/ ClearCart(r) \/ BankDecides(r)
    <3>1. UNCHANGED <<scan, rowLock>>
      BY <2>3 DEF Reserve, CreateOrder, CallBank, BankAnswers, RecordPayment, ClearCart,
                  BankDecides, transaction
    <3>2. \A q \in Requests : pc'[q] = "locking" => pc[q] = "locking"
      BY <2>3 DEF Reserve, CreateOrder, CallBank, BankAnswers, RecordPayment, ClearCart,
                  BankDecides, Advance, IInv, TypeOK
    <3> QED
      BY <3>1, <3>2 DEF ScanInv
  <2>4. CASE LockRow(r)
    BY <2>4, LockRowKeepsScans
  <2> QED
    BY <1>1, <2>1, <2>2, <2>3, <2>4 DEF Progress
<1>2. ASSUME NEW u \in Customers, NEW r \in Requests, Receive(r, u)
      PROVE  ScanInv'
  <2>1. PICK i \in Rows(cookie[u]) : scan' = [scan EXCEPT ![r] = i]
    BY <1>2 DEF Receive
  <2>2. pc[r] = "idle" /\ pc' = [pc EXCEPT ![r] = "locking"] /\ UNCHANGED rowLock
    BY <1>2 DEF Receive, Advance
  <2>3. rowLock[i] # r
    <3>1. i \in Items
      BY BasketType DEF IInv, TypeOK
    <3>2. ~ Active(r)
      BY <2>2 DEF Active, InTransaction
    <3> QED
      BY <3>1, <3>2, SentinelAssumption DEF IInv, LocksHeldByActive
  <2> QED
    BY <2>1, <2>2, <2>3 DEF ScanInv, IInv, TypeOK
<1>3. ASSUME NEW u \in Customers, NEW r \in Requests, Refuse(r, u)
      PROVE  ScanInv'
  BY <1>3 DEF Refuse, Advance, transaction, ScanInv, IInv, TypeOK
<1>4. ASSUME NEW u \in Customers,
             \/ \E i \in Items : AddToCart(u, i)
             \/ \E b \in Baskets : Checkout(u, b)
             \/ Browse(u) \/ Return(u)
      PROVE  ScanInv'
  BY <1>4 DEF AddToCart, Checkout, Browse, Return, transaction, ScanInv
<1>5. CASE Crash
  BY <1>5 DEF Crash, Active, InTransaction, ScanInv
<1>6. CASE UNCHANGED vars
  BY <1>6 DEF vars, ScanInv
<1> QED
  BY <1>1, <1>2, <1>3, <1>4, <1>5, <1>6 DEF Next

\* Finitely many requests that wait for each other only contain a cycle: a least
\* set of them that is closed under "waits for" is one.
LEMMA StuckMeansCycle ==
  ASSUME IInv, ScanInv, NEW C \in SUBSET Requests, IsFiniteSet(C), C # {}, Stuck(C)
  PROVE  \E D \in SUBSET C : WaitCycle(D) /\ \E r, s \in D : r # s
<1> DEFINE For(r) == rowLock[scan[r]]
           Closed == {D \in SUBSET C : D # {} /\ \A r \in D : For(r) \in D}
<1>1. \A r \in C : pc[r] = "locking" /\ For(r) \in C /\ For(r) # r
  <2> SUFFICES ASSUME NEW r \in C
               PROVE  pc[r] = "locking" /\ For(r) \in C /\ For(r) # r
    OBVIOUS
  <2>1. pc[r] = "locking" /\ For(r) # Nobody /\ (For(r) \in C \/ ~ Active(For(r)))
    BY DEF Stuck
  <2>2. scan[r] \in Items
    BY <2>1, BasketType DEF IInv, TypeOK, ControlInv
  <2>3. Active(For(r))
    BY <2>1, <2>2 DEF IInv, LocksHeldByActive
  <2> QED
    BY <2>1, <2>3 DEF ScanInv
<1>2. PICK D \in Closed : \A E \in Closed : E \subseteq D => E = D
  <2>1. C \in Closed
    BY <1>1
  <2>2. Family(Closed, C)
    BY <2>1 DEF Family
  <2> HIDE DEF Closed
  <2> QED
    BY <2>2, LeastSubset
<1>3. D \in SUBSET C /\ D # {} /\ \A r \in D : For(r) \in D
  BY <1>2
<1>4. \A r \in D : \E s \in D : For(s) = r
  <2> DEFINE E == {r \in D : \E s \in D : For(s) = r}
  <2>1. E \subseteq D /\ E # {} /\ \A r \in E : For(r) \in E
    BY <1>3
  <2>2. E \in Closed
    BY <1>3, <2>1
  <2>3. E = D
    <3> HIDE DEF E, Closed
    <3> QED
      BY <1>2, <2>1, <2>2
  <2> QED
    BY <2>3
<1>5. WaitCycle(D)
  BY <1>1, <1>3, <1>4 DEF WaitCycle
<1>6. PICK r \in D : TRUE
  BY <1>3
<1>7. For(r) \in D /\ For(r) # r
  BY <1>1, <1>3
<1> QED
  BY <1>3, <1>5, <1>6, <1>7

\* Requests that cannot go on without each other, or without one that has ended, are
\* always in a deadlock that DeadlockAbort breaks, for any number of requests.
THEOREM DeadlocksCanBeBroken == Spec => []DeadlocksAreSeen
<1>1. Init => ScanInv
  BY DEF Init, ScanInv
<1>2. IInv /\ ScanInv => DeadlocksAreSeen
  BY StuckMeansCycle DEF DeadlocksAreSeen
<1> QED
  BY <1>1, <1>2, ScansKept, InvariantHolds, PTL DEF Spec

-----------------------------------------------------------------------------
(* What a step does to the committed tables *)

\* They change by a commit, and carts also by AddToCart.
LEMMA OnlyCommitsWrite ==
  ASSUME IInv, [Next]_vars
  PROVE  \/ /\ UNCHANGED <<ordered, orders>>
            /\ \A u \in Customers : cart[u] \subseteq cart'[u]
         \/ \E r \in Requests, end \in Finished : CommitAs(r, end)
<1>1. ASSUME NEW r \in Requests, Progress(r) \/ BankDecides(r) \/ Fault(r)
      PROVE  \/ UNCHANGED <<ordered, orders, cart>>
             \/ \E end \in Finished : CommitAs(r, end)
  <2>1. CASE Commit(r) \/ CommitUnacknowledged(r)
    BY <2>1 DEF Commit, CommitUnacknowledged, CommitAs, Finished
  <2>2. CASE \/ DeadlockAbort(r) \/ OutOfStock(r) \/ OrmRejects(r) \/ NoAnswer(r) \/ Fault(r)
    BY <2>2 DEF DeadlockAbort, OutOfStock, OrmRejects, NoAnswer, Fault, Rollback, committed
  <2>3. CASE \/ LockRow(r) \/ Reserve(r) \/ CreateOrder(r) \/ CallBank(r) \/ BankAnswers(r)
             \/ RecordPayment(r) \/ ClearCart(r) \/ BankDecides(r)
    BY <2>3 DEF LockRow, TakeRow, Reserve, CreateOrder, CallBank, BankAnswers, RecordPayment,
                ClearCart, BankDecides, committed
  <2> QED
    BY <1>1, <2>1, <2>2, <2>3 DEF Progress
<1>2. ASSUME NEW u \in Customers,
             \/ \E b \in Baskets : Checkout(u, b)
             \/ Browse(u) \/ Return(u)
             \/ \E r \in Requests : Receive(r, u) \/ Refuse(r, u)
      PROVE  UNCHANGED <<ordered, orders, cart>>
  BY <1>2 DEF Checkout, Browse, Return, Receive, Refuse, committed
<1>3. ASSUME NEW u \in Customers, NEW i \in Items, AddToCart(u, i)
      PROVE  UNCHANGED <<ordered, orders>> /\ \A v \in Customers : cart[v] \subseteq cart'[v]
  BY <1>3 DEF AddToCart, IInv, TypeOK
<1>4. CASE Crash \/ UNCHANGED vars
  BY <1>4 DEF Crash, committed, vars
<1> QED
  BY <1>1, <1>2, <1>3, <1>4 DEF Next

\* A cart row is deleted for good only by the commit of an order for it.
THEOREM CartsAreKept == Spec => CartLosesOnlyOrdered
<1>1. ASSUME IInv, [Next]_vars, NEW u \in Customers, NEW i \in cart[u] \ cart'[u]
      PROVE  \E r \in Requests : /\ orders[r] = NoOrder /\ orders'[r] # NoOrder
                                 /\ orders'[r].customer = u
                                 /\ i \in Rows(orders'[r].lines)
  <2>1. PICK r \in Requests, end \in Finished : CommitAs(r, end)
    BY <1>1, OnlyCommitsWrite
  <2>2. pc[r] = "cleared" /\ draft[r] \in Orders
    BY <1>1, <2>1 DEF CommitAs, Advance, IInv, DraftInv, Drafted
  <2>3. orders[r] = NoOrder
    BY <1>1, <2>2 DEF IInv, OrderInv, Finished
  <2>4. orders'[r] = draft[r] /\ orders'[r] # NoOrder
    BY <1>1, <2>1, <2>2, SentinelAssumption DEF CommitAs, WriteCommitted, IInv, TypeOK
  <2>5. u = customer[r] /\ i \in clearing[r]
    BY <1>1, <2>1 DEF CommitAs, WriteCommitted, IInv, TypeOK
  <2>6. draft[r].customer = u /\ i \in Rows(draft[r].lines)
    BY <1>1, <2>2, <2>5 DEF IInv, DraftInv, CartInv, Drafted
  <2> QED
    BY <2>3, <2>4, <2>6
<1>2. IInv /\ [Next]_vars =>
        [\A u \in Customers : \A i \in cart[u] \ cart'[u] :
           \E r \in Requests : /\ orders[r] = NoOrder /\ orders'[r] # NoOrder
                               /\ orders'[r].customer = u
                               /\ i \in Rows(orders'[r].lines)]_vars
  BY <1>1
<1> QED
  BY <1>2, InvariantHolds, PTL DEF Spec, CartLosesOnlyOrdered

-----------------------------------------------------------------------------
(* The requests implement the ledger *)

\* The quantities an order takes are those of the ledger.
LEMMA TakenType == ASSUME NEW b \in Baskets
                   PROVE  /\ Taken(b) \in [Items -> LineQuantities \cup {0}]
                          /\ \A i \in Items : Taken(b)[i] \in Int
<1>1. PICK S \in SUBSET Items : b \in [S -> LineQuantities]
  BY DEF Baskets
<1>2. Taken(b) \in [Items -> LineQuantities \cup {0}]
  BY <1>1 DEF Taken, Rows
<1>3. ASSUME NEW i \in Items PROVE Taken(b)[i] \in Int
  <2>1. b[i] \in LineQuantities \/ i \notin DOMAIN b
    BY <1>1
  <2>2. Taken(b)[i] = IF i \in DOMAIN b THEN b[i] ELSE 0
    BY DEF Taken, Rows
  <2>3. b[i] \in Int \/ i \notin DOMAIN b
    BY <2>1, LineAssumption, Zenon
  <2> QED
    BY <2>2, <2>3
<1> QED
  BY <1>2, <1>3

\* The initial states of the tables are those of the ledger.
LEMMA LedgerInit == Init => Ledger!Init
  BY DEF Init, Ledger!Init, Ledger!Nothing, Placed, NothingLoaded

\* A commit adds to the stock what the order of its request takes, which had no
\* order before.
LEMMA CommitTakes ==
  ASSUME IInv, NEW r \in Requests, NEW end \in Finished, CommitAs(r, end)
  PROVE  LET take == Taken(lines[r])
         IN  /\ take \in [Items -> LineQuantities \cup {0}]
             /\ \A i \in Items : take[i] \in Int
             /\ ordered' = [i \in Items |-> ordered[i] + take[i]]
             /\ \A i \in Items : take[i] # 0 => QuantityLimit(i, ordered[i] + take[i])
             /\ orders[r] = NoOrder
             /\ \E o \in Orders : o # NoOrder /\ orders' = [orders EXCEPT ![r] = o]
             /\ Placed(r) = NothingLoaded /\ Placed(r)' = take
             /\ \A q \in Requests \ {r} : Placed(q)' = Placed(q)
<1> USE DEF IInv
<1> DEFINE take == Taken(lines[r])
<1>1. /\ \A i \in Rows(lines[r]) : i \in Items /\ rowLock[i] = r
      /\ \A i \in Items : ordered'[i] = IF i \in Rows(lines[r])
                                        THEN loaded[r][i] + lines[r][i]
                                        ELSE ordered[i]
      /\ \A i \in Rows(lines[r]) : QuantityLimit(i, ordered'[i])
      /\ draft[r] \in Orders
  BY CommitWritesHeldRows
<1>2. pc[r] = "cleared" /\ lines[r] \in Baskets /\ draft[r].lines = lines[r]
  BY DEF CommitAs, Advance, TypeOK, DraftInv, Drafted
<1>3. \A i \in Items : ordered'[i] = ordered[i] + take[i]
  <2> SUFFICES ASSUME NEW i \in Items PROVE ordered'[i] = ordered[i] + take[i]
    OBVIOUS
  <2>1. CASE i \in Rows(lines[r])
    <3>1. loaded[r][i] = ordered[i]
      BY <2>1, <1>1, SentinelAssumption DEF LoadedInv
    <3> QED
      BY <2>1, <3>1, <1>1 DEF Taken
  <2>2. CASE i \notin Rows(lines[r])
    BY <2>2, <1>1 DEF Taken, TypeOK
  <2> QED
    BY <2>1, <2>2
<1>4. ordered' = [i \in Items |-> ordered[i] + take[i]]
  BY <1>3 DEF CommitAs, WriteCommitted
<1>5. \A i \in Items : take[i] # 0 => QuantityLimit(i, ordered[i] + take[i])
  <2> SUFFICES ASSUME NEW i \in Items, take[i] # 0
               PROVE  QuantityLimit(i, ordered[i] + take[i])
    OBVIOUS
  <2>1. i \in Rows(lines[r])
    BY DEF Taken
  <2> QED
    BY <2>1, <1>1, <1>3
<1>6. orders[r] = NoOrder /\ orders' = [orders EXCEPT ![r] = draft[r]] /\ draft[r] # NoOrder
  BY <1>1, <1>2, SentinelAssumption
  DEF OrderInv, Finished, CommitAs, WriteCommitted
<1>7. Placed(r) = NothingLoaded /\ Placed(r)' = take
  BY <1>2, <1>6 DEF Placed, NothingLoaded, Taken, TypeOK
<1>8. \A q \in Requests \ {r} : Placed(q)' = Placed(q)
  BY <1>6 DEF Placed, TypeOK
<1>9. take \in [Items -> LineQuantities \cup {0}] /\ \A i \in Items : take[i] \in Int
  BY <1>2, TakenType
<1> HIDE DEF take
<1> QED
  BY <1>1, <1>4, <1>5, <1>6, <1>7, <1>8, <1>9 DEF take

\* A commit places the order of its request.
LEMMA CommitPlaces ==
  ASSUME IInv, NEW r \in Requests, NEW end \in Finished, CommitAs(r, end)
  PROVE  Ledger!Next
<1> DEFINE take == Taken(lines[r])
<1>1. /\ take \in [Items -> LineQuantities \cup {0}]
      /\ ordered' = [i \in Items |-> ordered[i] + take[i]]
      /\ \A i \in Items : take[i] # 0 => Ledger!QuantityLimit(i, ordered[i] + take[i])
      /\ Placed(r) = Ledger!Nothing /\ Placed(r)' = take
      /\ \A q \in Requests \ {r} : Placed(q)' = Placed(q)
  BY CommitTakes DEF QuantityLimit, Ledger!QuantityLimit, NothingLoaded, Ledger!Nothing
<1> HIDE DEF take
<1>2. [q \in Requests |-> Placed(q)'] = [[q \in Requests |-> Placed(q)] EXCEPT ![r] = take]
  BY <1>1
<1>3. Ledger!Place(r, take)
  BY <1>1, <1>2 DEF Ledger!Place
<1> QED
  BY <1>1, <1>3 DEF Ledger!Next

\* The committed tables change only as StockLedger allows: whatever fails or
\* interleaves, orders appear whole, once, and within the limits.
THEOREM TablesImplementLedger == Spec => ImplementsLedger
<1>1. IInv /\ [Next]_vars => [Ledger!Next]_(Ledger!vars)
  <2> SUFFICES ASSUME IInv, [Next]_vars
               PROVE  Ledger!Next \/ UNCHANGED Ledger!vars
    OBVIOUS
  <2>1. CASE UNCHANGED <<ordered, orders>>
    BY <2>1 DEF Ledger!vars, Placed
  <2>2. CASE \E r \in Requests, end \in Finished : CommitAs(r, end)
    BY <2>2, CommitPlaces
  <2> QED
    BY <2>1, <2>2, OnlyCommitsWrite
<1> QED
  BY <1>1, LedgerInit, InvariantHolds, PTL DEF Spec, ImplementsLedger, Ledger!Spec

-----------------------------------------------------------------------------
(* The stock is what the orders have taken *)

\* There are finitely many orders at any time, whatever the number of requests.
StockInv == IsFiniteSet(WithOrder) /\ StockMatchesOrders

\* There are no orders at first, and no stock is taken.
LEMMA InitStock == Init => StockInv
<1> SUFFICES ASSUME Init PROVE StockInv
  OBVIOUS
<1>1. WithOrder = {}
  BY DEF Init, WithOrder
<1>2. \A i \in Items : ordered[i] = 0
  BY DEF Init
<1> QED
  BY <1>1, <1>2, SumEmpty, FS_EmptySet DEF StockInv, StockMatchesOrders, SumFunction

\* A commit adds one order to the sum of each item, and what it takes to the item.
LEMMA CommitKeepsStock ==
  ASSUME IInv, StockInv, NEW r \in Requests, NEW end \in Finished, CommitAs(r, end)
  PROVE  StockInv'
<1> DEFINE take == Taken(lines[r])
<1>1. /\ \A i \in Items : take[i] \in Int /\ ordered'[i] = ordered[i] + take[i]
      /\ orders[r] = NoOrder
      /\ Placed(r)' = take
      /\ \A q \in Requests \ {r} : Placed(q)' = Placed(q)
  <2>1. /\ \A i \in Items : take[i] \in Int
        /\ ordered' = [i \in Items |-> ordered[i] + take[i]]
        /\ orders[r] = NoOrder
        /\ Placed(r)' = take
        /\ \A q \in Requests \ {r} : Placed(q)' = Placed(q)
    BY CommitTakes
  <2> HIDE DEF take
  <2> QED
    BY <2>1
<1>2. WithOrder' = WithOrder \cup {r} /\ r \notin WithOrder
  BY CommitTakes DEF WithOrder, IInv, TypeOK
<1>3. IsFiniteSet(WithOrder) /\ IsFiniteSet(WithOrder')
  BY <1>2, FS_AddElement DEF StockInv
<1>4. ASSUME NEW q \in WithOrder, NEW i \in Items PROVE Placed(q)[i] \in Int
  <2>1. orders[q] # NoOrder /\ orders[q].lines \in Baskets
    BY DEF WithOrder, IInv, TypeOK, Orders
  <2>2. Taken(orders[q].lines)[i] \in Int
    BY <2>1, TakenType
  <2>3. Placed(q) = Taken(orders[q].lines)
    BY <2>1 DEF Placed
  <2> QED
    BY <2>2, <2>3
<1>5. ASSUME NEW i \in Items
      PROVE  ordered'[i] = SumFunction([q \in WithOrder' |-> Placed(q)'[i]])
  <2> DEFINE before == [q \in WithOrder |-> Placed(q)[i]]
             after == [q \in WithOrder' |-> Placed(q)'[i]]
  <2>1. \A q \in WithOrder : after[q] = before[q] /\ before[q] \in Int
    BY <1>1, <1>2, <1>4 DEF WithOrder
  <2>2. after[r] = take[i] /\ after[r] \in Int
    BY <1>1, <1>2
  <2>3. WithOrder' \ {r} = WithOrder /\ r \in WithOrder'
    BY <1>2
  <2>4. \A q \in WithOrder' : after[q] \in Int
    BY <1>2, <2>1, <2>2
  <2>5. ordered[i] = SumFunctionOnSet(before, WithOrder)
    BY DEF StockInv, StockMatchesOrders, SumFunction
  <2>6. SumFunction(after) = SumFunctionOnSet(after, WithOrder')
    BY DEF SumFunction
  <2> HIDE DEF before, after, take
  <2>7. SumFunctionOnSet(after, WithOrder') = after[r] + SumFunctionOnSet(after, WithOrder)
    BY <1>3, <2>3, <2>4, SumRemove
  <2>8. SumFunctionOnSet(after, WithOrder) = SumFunctionOnSet(before, WithOrder)
    BY <1>3, <2>1, SumEqual
  <2>9. SumFunctionOnSet(before, WithOrder) \in Int
    BY <1>3, <2>1, SumType
  <2>10. ordered'[i] = SumFunction(after)
    BY <2>6, <1>1, <2>2, <2>5, <2>7, <2>8, <2>9
  <2> QED
    BY <2>10 DEF after
<1> QED
  BY <1>3, <1>5 DEF StockInv, StockMatchesOrders

\* Every step keeps the sums.
LEMMA StockKept == IInv /\ StockInv /\ [Next]_vars => StockInv'
<1> SUFFICES ASSUME IInv, StockInv, [Next]_vars PROVE StockInv'
  OBVIOUS
<1>1. CASE UNCHANGED <<ordered, orders>>
  BY <1>1 DEF StockInv, StockMatchesOrders, WithOrder, Placed
<1>2. CASE \E r \in Requests, end \in Finished : CommitAs(r, end)
  BY <1>2, CommitKeepsStock
<1> QED
  BY <1>1, <1>2, OnlyCommitsWrite

\* ordered_quantity is the sum of what the committed orders have taken, for any
\* number of requests and wherever they fail: no update is lost, and nothing stays
\* reserved for an order that does not exist.
THEOREM StockIsWhatOrdersTook == Spec => []StockMatchesOrders
<1>1. StockInv => StockMatchesOrders
  BY DEF StockInv
<1> QED
  BY <1>1, StockKept, InitStock, InvariantHolds, PTL DEF Spec
-----------------------------------------------------------------------------

\* A request holds its rows as they were loaded, and what a row holds is what the
\* orders have taken: whoever is refused, for any number of requests and failures,
\* is refused on account of orders that exist.
THEOREM RefusalsAreDue == Spec => RefusedOnlyIfSold
<1>1. ASSUME IInv, StockInv, NEW r \in Requests, OutOfStock(r)
      PROVE  \E i \in Rows(lines[r]) : SoldTo(r, i)
  <2>1. PICK i \in Rows(lines[r]) : pc[r] = "locked" /\ ~QuantityLimit(i, NewQuantity(r, i))
    BY <1>1 DEF OutOfStock
  <2>2. i \in Items /\ rowLock[i] = r
    BY <1>1, <2>1, BasketType DEF IInv, TypeOK, HoldInv, Locked
  <2>3. loaded[r][i] = ordered[i]
    BY <1>1, <2>2, SentinelAssumption DEF IInv, LoadedInv
  <2>4. ordered[i] = SumFunction([q \in WithOrder |-> Placed(q)[i]])
    BY <1>1, <2>2 DEF StockInv, StockMatchesOrders
  <2> QED
    BY <2>1, <2>3, <2>4 DEF SoldTo, NewQuantity
<1>2. IInv /\ StockInv /\ [Next]_vars =>
        [\A r \in Requests : OutOfStock(r) => \E i \in Rows(lines[r]) : SoldTo(r, i)]_vars
  BY <1>1
<1> QED
  BY <1>2, StockKept, InitStock, InvariantHolds, PTL DEF Spec, RefusedOnlyIfSold
=============================================================================
