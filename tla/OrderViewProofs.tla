--------------------------- MODULE OrderViewProofs ---------------------------
(***************************************************************************)
(* Proofs about OrderView, for any basket, prices, credit plans and order  *)
(* of payments.                                                            *)
(*                                                                         *)
(* Two computations meet here: make_order_invoices_objects, which numbers  *)
(* the invoices of a plan, and get_user_order, which finds its place in    *)
(* the plan by these numbers.                                              *)
(***************************************************************************)
EXTENDS OrderView, SumLemmas, TLAPS

CreditInvoice == [type : {"CREDIT"}, part : Nat, amount : Nat]

\* What create_order has made of the checkout is what the order still is.
OrderInv ==
  /\ DOMAIN checkout \subseteq Items
  /\ \A i \in DOMAIN checkout : checkout[i] \in Lines
  /\ Created =>
       /\ order.invoices = Invoices
       /\ order.charge = Charge
       /\ DOMAIN order.lines = DOMAIN checkout
       /\ \A i \in DOMAIN checkout :
            /\ order.lines[i].byCredit => i \in creditIds
            /\ order.lines[i].invoices =
                 IF i \in SplitItems THEN CreditInvoices(i) ELSE NoInvoices

-----------------------------------------------------------------------------
(* The invoices of a plan *)

\* The parts of a plan after the first have an invoice each, with the part's index
\* and amount.
LEMMA InvoicesOfPlan ==
  ASSUME OrderInv, NEW i \in DOMAIN checkout
  PROVE  /\ CreditInvoices(i).kind = "list"
         /\ CreditInvoices(i).of \in Seq(CreditInvoice)
         /\ \A k \in DOMAIN CreditInvoices(i).of :
              /\ k \in Nat
              /\ CreditInvoices(i).of[k].part = k
              /\ CreditInvoices(i).of[k].amount =
                   checkout[i].quantity * checkout[i].parts[k + 1]
<1> DEFINE parts == checkout[i].parts
           n == Len(parts) - 1
           invoice(k) == [type |-> "CREDIT", part |-> k, amount |-> PartAmount(i, k + 1)]
<1>1. parts \in Seq(Nat) /\ checkout[i].quantity \in Nat
  BY InvoiceAssumption DEF OrderInv, Lines
<1>2. n \in Int /\ \A k \in 1..n : k \in Nat /\ k + 1 \in 1..Len(parts) /\ parts[k + 1] \in Nat
  BY <1>1
<1>3. \A k \in 1..n : PartAmount(i, k + 1) = checkout[i].quantity * parts[k + 1]
  <2> SUFFICES ASSUME NEW k \in 1..n
               PROVE  PartAmount(i, k + 1) = checkout[i].quantity * parts[k + 1]
    OBVIOUS
  <2>1. \A x, y \in Nat : x * y = y * x
    OBVIOUS
  <2>2. QED
    BY <1>1, <1>2, <2>1 DEF PartAmount
<1>4. \A k \in 1..n : PartAmount(i, k + 1) \in Nat
  <2> SUFFICES ASSUME NEW k \in 1..n PROVE PartAmount(i, k + 1) \in Nat
    OBVIOUS
  <2>1. \A x, y \in Nat : x * y \in Nat
    OBVIOUS
  <2>2. QED
    BY <1>1, <1>2, <2>1 DEF PartAmount
<1>5. CreditInvoices(i) = [kind |-> "list", of |-> [k \in 1..n |-> invoice(k)]]
  BY DEF CreditInvoices, List
<1>6. [k \in 1..n |-> invoice(k)] \in Seq(CreditInvoice)
  <2>1. \A k \in 1..n : invoice(k) \in CreditInvoice
    BY <1>2, <1>4 DEF CreditInvoice
  <2> HIDE DEF invoice
  <2>2. CASE n \in Nat
    BY <2>1, <2>2
  <2>3. CASE n \notin Nat
    <3>1. 1..n = 1..0
      BY <1>1, <2>3
    <3>2. QED
      BY <2>1, <3>1
  <2>4. QED
    BY <2>2, <2>3
<1>7. QED
  BY <1>2, <1>3, <1>5, <1>6

\* A line that is bought by credit and has a plan has the invoices of that plan.
LEMMA InvoicesOfLine ==
  ASSUME OrderInv, Created, NEW i \in DOMAIN order.lines,
         order.lines[i].byCredit, ~Planless(i)
  PROVE  i \in DOMAIN checkout /\ Credits(i) = CreditInvoices(i).of
<1>1. i \in DOMAIN checkout
  BY DEF OrderInv
<1>2. i \in creditIds
  BY <1>1, Zenon DEF OrderInv
<1>3. checkout[i].parts # <<>>
  BY Zenon DEF Planless
<1>4. i \in SplitItems
  BY <1>1, <1>2, <1>3 DEF SplitItems
<1>5. QED
  BY <1>1, <1>4 DEF OrderInv, Credits

-----------------------------------------------------------------------------
(* The view *)

\* What get_user_order may return for a line is unpaid, and the part of the plan that
\* it says.
LEMMA CreditsMatch ==
  ASSUME OrderInv, Created, NEW i \in DOMAIN order.lines,
         order.lines[i].byCredit, ~Planless(i), NEW c \in CreditsOf(i)
  PROVE  IF c.invoice = NoInvoices
         THEN \A v \in Parts(i) : status[v] # "UNPAID"
         ELSE /\ status[<<i, c.invoice.part>>] = "UNPAID"
              /\ c.invoice.amount = checkout[i].quantity * checkout[i].parts[c.paidParts + 1]
<1> DEFINE unpaid == {k \in DOMAIN Credits(i) : status[<<i, k>>] = "UNPAID"}
<1>1. /\ Credits(i) \in Seq(CreditInvoice)
      /\ \A k \in DOMAIN Credits(i) :
           /\ Credits(i)[k].part = k
           /\ Credits(i)[k].amount = checkout[i].quantity * checkout[i].parts[k + 1]
  BY InvoicesOfLine, InvoicesOfPlan
<1>2. ASSUME NEW k \in DOMAIN Credits(i) PROVE Credits(i)[k] # NoInvoices
  <2>1. Credits(i)[k] \in CreditInvoice
    BY <1>1
  <2>2. QED
    BY <2>1, InvoiceAssumption, Zenon DEF CreditInvoice
<1>3. CASE unpaid = {}
  <2>1. c.invoice = NoInvoices
    BY <1>3 DEF CreditsOf
  <2>2. \A k \in DOMAIN Credits(i) : status[<<i, k>>] # "UNPAID"
    BY <1>3
  <2>3. QED
    BY <2>1, <2>2 DEF Parts
<1>4. CASE unpaid # {}
  <2>1. PICK k \in unpaid : c = [paidParts |-> Credits(i)[k].part, invoice |-> Credits(i)[k]]
    BY <1>4 DEF CreditsOf
  <2>2. QED
    BY <1>1, <1>2, <2>1
<1>5. QED
  BY <1>3, <1>4

\* The invariant holds before the order is made.
LEMMA InitOrder == ViewInit => OrderInv /\ OfferMatchesPlan
<1> SUFFICES ASSUME ViewInit PROVE OrderInv /\ OfferMatchesPlan
  OBVIOUS
<1>1. OrderInv
  BY DEF ViewInit, Init, OrderInv, Created
<1>2. OfferMatchesPlan
  BY DEF ViewInit, OfferMatchesPlan, Shown, Outcome
<1>3. QED
  BY <1>1, <1>2

\* The order is made once, and not changed by payments and views.
LEMMA OrderKeeps == ASSUME OrderInv, [ViewNext]_viewVars PROVE OrderInv'
<1>1. ASSUME UNCHANGED <<checkout, creditIds>>
      PROVE  /\ SplitItems' = SplitItems /\ \A i : CreditInvoices(i)' = CreditInvoices(i)
             /\ Invoices' = Invoices /\ Charge' = Charge
  <2>1. SplitItems' = SplitItems /\ \A i : CreditInvoices(i)' = CreditInvoices(i)
    BY <1>1 DEF SplitItems, CreditInvoices, List, PartAmount
  <2>2. \A i : Price(i)' = Price(i) /\ DueNow(i)' = DueNow(i)
    BY <1>1, <2>1 DEF Price, DueNow, PartAmount
  <2> QED
    BY <1>1, <2>1, <2>2 DEF Invoices, Dict, InitialInvoice, Charge
<1>2. CASE CreateUnpaid
  <2>1. /\ UNCHANGED <<checkout, creditIds>>
        /\ order'.invoices = Invoices /\ order'.charge = Charge
        /\ order'.lines = [i \in DOMAIN checkout |->
                             [byCredit |-> i \in creditIds, invoices |-> LineInvoices(i)]]
    BY <1>2 DEF CreateUnpaid, CreateOrder
  <2>2. ASSUME NEW i \in DOMAIN checkout
        PROVE  /\ order'.lines[i].byCredit => i \in creditIds
               /\ order'.lines[i].invoices =
                    IF i \in SplitItems THEN CreditInvoices(i) ELSE NoInvoices
    <3>1. i # "INITIAL"
      BY InvoiceAssumption DEF OrderInv
    <3>2. LineInvoices(i) = IF i \in SplitItems THEN CreditInvoices(i) ELSE NoInvoices
      BY <3>1 DEF LineInvoices, Invoices, Dict
    <3>3. order'.lines[i] = [byCredit |-> i \in creditIds, invoices |-> LineInvoices(i)]
      BY <2>1
    <3>4. order'.lines[i].byCredit = (i \in creditIds)
      BY <3>3
    <3>5. order'.lines[i].invoices = LineInvoices(i)
      BY <3>3
    <3>6. QED
      BY <3>2, <3>4, <3>5
  <2>3. DOMAIN order'.lines = DOMAIN checkout
    BY <2>1
  <2>4. QED
    BY <1>1, <2>1, <2>2, <2>3 DEF OrderInv
<1>3. CASE UNCHANGED <<checkout, creditIds, order>>
  BY <1>1, <1>3 DEF OrderInv, Created
<1>4. QED
  BY <1>2, <1>3 DEF ViewNext, viewVars, DepositPaid, PartPaid, Notified, ViewMissing,
     ViewOfAnother, ViewWithoutPlan, ViewWithoutImage, ViewWithoutPreorder, ViewShown, Answered

\* A view is right when it is made, and forgotten when a payment changes it.
LEMMA OfferKeeps ==
  ASSUME OrderInv, OfferMatchesPlan, [ViewNext]_viewVars
  PROVE  OfferMatchesPlan'
<1>1. CASE UNCHANGED viewVars
  BY <1>1 DEF viewVars, OfferMatchesPlan, Shown, Parts, Credits
<1>2. CASE CreateUnpaid \/ DepositPaid \/ PartPaid
  BY <1>2 DEF CreateUnpaid, DepositPaid, PartPaid, Notified, Outcome, OfferMatchesPlan, Shown
<1>3. CASE ViewMissing \/ ViewOfAnother \/ ViewWithoutPlan \/ ViewWithoutImage
           \/ ViewWithoutPreorder
  BY <1>3 DEF ViewMissing, ViewOfAnother, ViewWithoutPlan, ViewWithoutImage,
     ViewWithoutPreorder, Answered, Outcome, OfferMatchesPlan, Shown
<1>4. CASE ViewShown
  <2> DEFINE byCredit == {i \in DOMAIN order.lines : order.lines[i].byCredit}
  <2>1. PICK c \in [byCredit -> UNION {CreditsOf(i) : i \in byCredit}] :
          /\ \A i \in byCredit : c[i] \in CreditsOf(i)
          /\ Answered([outcome |-> "shown", credits |-> c, isPaid |-> status[Deposit] = "PAID"])
    BY <1>4 DEF ViewShown
  <2>2. /\ Created /\ \A i \in DOMAIN order.lines : Showable(i)
        /\ UNCHANGED <<checkout, creditIds, order, status>>
    BY <1>4, <2>1 DEF ViewShown, Answered
  <2>3. view'.credits = c /\ DOMAIN c = byCredit
    BY <2>1 DEF Answered
  <2>4. ASSUME NEW i \in byCredit
        PROVE  IF c[i].invoice = NoInvoices
               THEN \A v \in Parts(i) : status[v] # "UNPAID"
               ELSE /\ status[<<i, c[i].invoice.part>>] = "UNPAID"
                    /\ c[i].invoice.amount =
                         checkout[i].quantity * checkout[i].parts[c[i].paidParts + 1]
    BY <2>1, <2>2, CreditsMatch DEF Showable
  <2>5. \A i : Parts(i)' = Parts(i)
    BY <2>2 DEF Parts, Credits
  <2>6. QED
    BY <2>2, <2>3, <2>4, <2>5 DEF OfferMatchesPlan
<1>5. QED
  BY <1>1, <1>2, <1>3, <1>4 DEF ViewNext

\* In whatever order the invoices of an order are paid, what get_user_order offers
\* its owner for a line is an unpaid invoice for the part of the plan it has come to.
THEOREM OffersMatchPlans == ViewSpec => []OfferMatchesPlan
<1>1. OrderInv /\ OfferMatchesPlan /\ [ViewNext]_viewVars => OrderInv' /\ OfferMatchesPlan'
  BY OrderKeeps, OfferKeeps
<1>2. QED
  BY <1>1, InitOrder, PTL DEF ViewSpec

-----------------------------------------------------------------------------
(* The amounts of an order *)

\* Any order of ViewSpec is what create_order has made of its checkout.
LEMMA OrderStays == ViewSpec => []OrderInv
<1> QED
  BY InitOrder, OrderKeeps, PTL DEF ViewSpec

\* The lines with invoices of their own are those that are split.
LEMMA SplitLinesHaveInvoices ==
  ASSUME OrderInv, Created
  PROVE  /\ CreditLines = SplitItems
         /\ \A i \in SplitItems : i \in DOMAIN checkout /\ Credits(i) = CreditInvoices(i).of
         /\ Initial = InitialInvoice
<1>1. ASSUME NEW i \in SplitItems
      PROVE  i \in DOMAIN checkout /\ CreditInvoices(i) # NoInvoices
  <2>1. i \in DOMAIN checkout
    BY DEF SplitItems
  <2>2. CreditInvoices(i).of \in Seq([type : {"CREDIT"}, part : Nat, amount : Nat])
    BY <2>1, InvoicesOfPlan DEF CreditInvoice
  <2>3. CreditInvoices(i) = [kind |-> "list", of |-> CreditInvoices(i).of]
    BY DEF CreditInvoices, List
  <2>4. CreditInvoices(i) \in
          [kind : {"list"}, of : Seq([type : {"CREDIT"}, part : Nat, amount : Nat])]
    BY <2>2, <2>3
  <2> QED
    BY <2>1, <2>4, InvoiceAssumption
<1>2. CreditLines = SplitItems
  BY <1>1, Zenon DEF CreditLines, OrderInv
<1>3. \A i \in SplitItems : Credits(i) = CreditInvoices(i).of
  BY <1>1 DEF OrderInv, Credits
<1>4. Initial = InitialInvoice
  BY DEF OrderInv, Invoices, Dict, Initial
<1> QED
  BY <1>1, <1>2, <1>3, <1>4

\* All amounts of a checkout are natural numbers.
LEMMA Amounts ==
  ASSUME OrderInv
  PROVE  /\ IsFiniteSet(DOMAIN checkout)
         /\ \A i \in DOMAIN checkout : Price(i) \in Nat /\ DueNow(i) \in Nat
<1>1. IsFiniteSet(DOMAIN checkout)
  BY InvoiceAssumption, FS_Subset DEF OrderInv
<1>2. ASSUME NEW i \in DOMAIN checkout PROVE Price(i) \in Nat /\ DueNow(i) \in Nat
  <2>1. /\ checkout[i].price \in Nat /\ checkout[i].quantity \in Nat
        /\ checkout[i].parts \in Seq(Nat)
    BY InvoiceAssumption DEF OrderInv, Lines
  <2>2. \A x, y \in Nat : x * y \in Nat
    OBVIOUS
  <2>3. Price(i) \in Nat
    BY <2>1, <2>2 DEF Price
  <2>4. i \in SplitItems => PartAmount(i, 1) \in Nat
    <3>1. i \in SplitItems => checkout[i].parts[1] \in Nat
      BY <2>1 DEF SplitItems
    <3> QED
      BY <2>1, <2>2, <3>1 DEF PartAmount
  <2> QED
    BY <2>3, <2>4 DEF DueNow
<1> QED
  BY <1>1, <1>2

\* The first part of a plan and the invoices for the others make up the plan.
LEMMA PlanIsCovered ==
  ASSUME OrderInv, Created, NEW i \in SplitItems
  PROVE  /\ CreditAmount(i) \in Nat
         /\ checkout[i].quantity * SumFunction(checkout[i].parts) = PartAmount(i, 1) + CreditAmount(i)
<1> DEFINE q == checkout[i].quantity
           parts == checkout[i].parts
           n == Len(parts) - 1
           later == [k \in 1..n |-> parts[k + 1]]
           amounts == [k \in DOMAIN Credits(i) |-> Credits(i)[k].amount]
<1>1. i \in DOMAIN checkout /\ Credits(i) = CreditInvoices(i).of
  BY SplitLinesHaveInvoices
<1>2. q \in Nat /\ parts \in Seq(Nat) /\ parts # <<>>
  BY <1>1, InvoiceAssumption DEF OrderInv, Lines, SplitItems
<1>3. /\ n \in Nat /\ DOMAIN parts = 1..(n + 1)
      /\ \A k \in 1..(n + 1) : parts[k] \in Nat
  BY <1>2
<1>4. DOMAIN Credits(i) = 1..n
  BY <1>1 DEF CreditInvoices, List
<1>5. \A k \in 1..n : amounts[k] = q * later[k]
  BY <1>1, <1>4, InvoicesOfPlan
<1>6. \A k \in 1..n : later[k] \in Nat
  BY <1>3
<1>7. CreditAmount(i) = SumFunctionOnSet(amounts, 1..n)
  BY <1>4 DEF CreditAmount, SumFunction
<1>8. SumFunction(parts) = SumFunctionOnSet(parts, 1..(n + 1))
  BY <1>3 DEF SumFunction
<1>9. \A k \in 1..n : later[k] = parts[k + 1]
  OBVIOUS
<1>10. PartAmount(i, 1) = parts[1] * q
  BY DEF PartAmount
<1> HIDE DEF q, parts, n, later, amounts
<1>11. IsFiniteSet(1..n)
  BY <1>3, FS_Interval
<1>12. SumFunctionOnSet(amounts, 1..n) = q * SumFunctionOnSet(later, 1..n)
  <2> DEFINE I == 1..n
  <2>1. IsFiniteSet(I) /\ \A k \in I : later[k] \in Int /\ amounts[k] = q * later[k]
    BY <1>5, <1>6, <1>11
  <2>2. q \in Int
    BY <1>2
  <2> HIDE DEF I
  <2>3. SumFunctionOnSet(amounts, I) = q * SumFunctionOnSet(later, I)
    BY <2>1, <2>2, SumTimes
  <2> QED
    BY <2>3 DEF I
<1>13. SumFunctionOnSet(later, 1..n) \in Nat
  <2> DEFINE I == 1..n
  <2>1. IsFiniteSet(I) /\ \A k \in I : later[k] \in Nat
    BY <1>6, <1>11
  <2> HIDE DEF I
  <2>2. SumFunctionOnSet(later, I) \in Nat
    BY <2>1, SumType
  <2> QED
    BY <2>2 DEF I
<1>14. SumFunctionOnSet(parts, 1..(n + 1)) = parts[1] + SumFunctionOnSet(later, 1..n)
  <2>1. \A k \in 1..(n + 1) : parts[k] \in Int
    BY <1>3
  <2> QED
    BY <1>3, <1>9, <2>1, SumShift, Zenon
<1>15. parts[1] \in Nat
  BY <1>3
<1>16. \A x, y, z \in Nat : x * y \in Nat /\ x * (y + z) = y * x + x * z
  OBVIOUS
<1> QED
  BY <1>2, <1>7, <1>8, <1>10, <1>12, <1>13, <1>14, <1>15, <1>16 DEF q, parts

\* An order has one INITIAL invoice of some amount, and all others are CREDIT ones,
\* numbered by the part of the plan they are for.
THEOREM InvoicesWellTyped == ViewSpec => []TypeOK
<1>1. ASSUME OrderInv, Created
      PROVE  /\ Initial.type = "INITIAL" /\ Initial.amount \in Nat /\ order.charge \in Nat
             /\ \A i \in CreditLines : \A k \in DOMAIN Credits(i) :
                  Credits(i)[k].type = "CREDIT" /\ Credits(i)[k].part = k
  <2> DEFINE D == DOMAIN checkout
             due == [i \in D |-> DueNow(i)]
             charged == [i \in D |-> Price(i) * 100]
  <2>1. Initial.type = "INITIAL" /\ Initial.amount = SumFunctionOnSet(due, D)
    BY <1>1, SplitLinesHaveInvoices DEF InitialInvoice, SumFunction
  <2>2. order.charge = SumFunctionOnSet(charged, D)
    BY <1>1 DEF OrderInv, Charge, SumFunction
  <2>3. IsFiniteSet(D) /\ \A i \in D : due[i] \in Nat /\ charged[i] \in Nat
    BY <1>1, Amounts
  <2>4. \A i \in CreditLines : \A k \in DOMAIN Credits(i) :
          Credits(i)[k].type = "CREDIT" /\ Credits(i)[k].part = k
    BY <1>1, SplitLinesHaveInvoices, InvoicesOfPlan DEF CreditInvoices, List
  <2> HIDE DEF D, due, charged
  <2>5. SumFunctionOnSet(due, D) \in Nat /\ SumFunctionOnSet(charged, D) \in Nat
    BY <2>3, SumType
  <2> QED
    BY <2>1, <2>2, <2>4, <2>5
<1>2. OrderInv => TypeOK
  BY <1>1 DEF TypeOK
<1> QED
  BY <1>2, OrderStays, PTL

\* The invoices of an order ask for each of its lines exactly once, at its price or
\* at the sum of its plan, for any basket and any plans.
THEOREM OrdersAreCovered == ViewSpec => []InvoicesCoverOrder
<1>1. ASSUME OrderInv, Created
      PROVE  Initial.amount + SumFunction([i \in CreditLines |-> CreditAmount(i)])
               = SumFunction([i \in DOMAIN checkout |-> Owed(i)])
  <2> DEFINE D == DOMAIN checkout
             due == [i \in D |-> DueNow(i)]
             owed == [i \in D |-> Owed(i)]
             credit == [i \in SplitItems |-> CreditAmount(i)]
             later == [i \in D |-> IF i \in SplitItems THEN CreditAmount(i) ELSE 0]
  <2>1. CreditLines = SplitItems /\ SplitItems \in SUBSET D
    BY <1>1, SplitLinesHaveInvoices
  <2>2. Initial.amount = SumFunctionOnSet(due, D)
    BY <1>1, SplitLinesHaveInvoices DEF InitialInvoice, SumFunction
  <2>3. /\ SumFunction([i \in CreditLines |-> CreditAmount(i)])
             = SumFunctionOnSet(credit, SplitItems)
        /\ SumFunction([i \in DOMAIN checkout |-> Owed(i)]) = SumFunctionOnSet(owed, D)
    BY <2>1 DEF SumFunction
  <2>4. \A i \in SplitItems : CreditAmount(i) \in Nat
    BY <1>1, PlanIsCovered
  <2>5. IsFiniteSet(D) /\ IsFiniteSet(SplitItems)
    BY <1>1, <2>1, Amounts, FS_Subset
  <2>6. ASSUME NEW i \in D
        PROVE  due[i] \in Int /\ later[i] \in Int /\ owed[i] = due[i] + later[i]
    <3>1. DueNow(i) \in Nat
      BY <1>1, Amounts
    <3>2. CASE i \in SplitItems
      <4>1. Owed(i) = DueNow(i) + CreditAmount(i)
        BY <1>1, <2>1, <3>2, PlanIsCovered DEF Owed, DueNow
      <4> QED
        BY <2>4, <3>1, <3>2, <4>1
    <3>3. CASE i \notin SplitItems
      <4>1. Owed(i) = checkout[i].quantity * checkout[i].price
        BY <2>1, <3>3 DEF Owed
      <4>2. DueNow(i) = checkout[i].price * checkout[i].quantity
        BY <3>3 DEF DueNow, Price
      <4>3. checkout[i].price \in Nat /\ checkout[i].quantity \in Nat
        BY <1>1, InvoiceAssumption DEF OrderInv, Lines
      <4>4. \A x, y \in Nat : x * y = y * x
        OBVIOUS
      <4> QED
        BY <3>1, <3>3, <4>1, <4>2, <4>3, <4>4
    <3> QED
      BY <3>2, <3>3
  <2>7. /\ \A i \in SplitItems : later[i] = credit[i]
        /\ \A i \in D \ SplitItems : later[i] = 0
    BY <2>1
  <2> HIDE DEF D, due, owed, credit, later
  <2>8. SumFunctionOnSet(owed, D) = SumFunctionOnSet(due, D) + SumFunctionOnSet(later, D)
    BY <2>5, <2>6, SumPlus
  <2>9. SumFunctionOnSet(later, D) = SumFunctionOnSet(later, SplitItems)
    BY <2>1, <2>5, <2>6, <2>7, SumOfPart
  <2>10. SumFunctionOnSet(later, SplitItems) = SumFunctionOnSet(credit, SplitItems)
    BY <2>5, <2>7, SumEqual
  <2> QED
    BY <2>2, <2>3, <2>8, <2>9, <2>10
<1>2. OrderInv => InvoicesCoverOrder
  BY <1>1 DEF InvoicesCoverOrder
<1> QED
  BY <1>2, OrderStays, PTL

\* Without credit the receipt in kopecks and the invoice in roubles are the same sum,
\* for any basket.
THEOREM FullPaymentsMatch == ViewSpec => []FullPaymentMatchesInvoice
<1>1. ASSUME OrderInv, Created, creditIds = {}
      PROVE  order.charge = 100 * Initial.amount
  <2> DEFINE D == DOMAIN checkout
             due == [i \in D |-> DueNow(i)]
             charged == [i \in D |-> Price(i) * 100]
  <2>1. Initial.amount = SumFunctionOnSet(due, D)
    BY <1>1, SplitLinesHaveInvoices DEF InitialInvoice, SumFunction
  <2>2. order.charge = SumFunctionOnSet(charged, D)
    BY <1>1 DEF OrderInv, Charge, SumFunction
  <2>3. IsFiniteSet(D) /\ \A i \in D : due[i] \in Int /\ charged[i] = 100 * due[i]
    BY <1>1, Amounts DEF SplitItems, DueNow
  <2> HIDE DEF D, due, charged
  <2>4. SumFunctionOnSet(charged, D) = 100 * SumFunctionOnSet(due, D)
    BY <2>3, SumTimes
  <2> QED
    BY <2>1, <2>2, <2>4
<1>2. OrderInv => FullPaymentMatchesInvoice
  BY <1>1 DEF FullPaymentMatchesInvoice
<1> QED
  BY <1>2, OrderStays, PTL
=============================================================================
