---------------------------- MODULE OrderInvoices ----------------------------
(***************************************************************************)
(* What an order owes: make_order_invoices_objects splits it into invoices *)
(* and create_order hands them to the order, to its lines and to the bank. *)
(*                                                                         *)
(* A computation without concurrency: the checkout data and the credit ids *)
(* of a request are chosen first, and one step creates the order.          *)
(***************************************************************************)
EXTENDS Integers, Sequences, FiniteSets, Functions

CONSTANTS
  Items,         \* catalog items
  Prices,        \* bound: prices of an item, in roubles
  Plans,         \* bound: sums of the parts of a credit plan; <<>> for no plan
  Quantities,    \* bound: quantities of a line
  NoInvoices     \* None

ASSUME InvoiceAssumption ==
  /\ IsFiniteSet(Items)
  /\ Prices \subseteq Nat /\ Quantities \subseteq Nat
  /\ Plans \subseteq Seq(Nat)
  /\ "INITIAL" \notin Items
  /\ NoInvoices \notin [type : {"CREDIT"}, part : Nat, amount : Nat]
  /\ NoInvoices \notin [kind : {"list"}, of : Seq([type : {"CREDIT"}, part : Nat, amount : Nat])]

VARIABLES
  checkout,      \* checkout_items: price, quantity and credit parts of each
  creditIds,     \* credit_ids of the request
  order          \* what create_order makes of them; NoInvoices before that

vars == <<checkout, creditIds, order>>

\* The collections of Python the invoices are kept in.
Dict(f) == [kind |-> "dict", of |-> f]
List(s) == [kind |-> "list", of |-> s]

Lines == [price : Prices, quantity : Quantities, parts : Plans]

-----------------------------------------------------------------------------
(* make_order_invoices_objects *)

Price(i) == checkout[i].price * checkout[i].quantity

\* Every line with credit parts is split as soon as any credit id is given.
SplitItems ==
  {i \in DOMAIN checkout : creditIds # {} /\ checkout[i].parts # <<>>}

\* Amount of part k, counted from 1, of a line.
PartAmount(i, k) == checkout[i].parts[k] * checkout[i].quantity

\* Variant: the parts are numbered on from the deposit's, and keep its amount.
CreditInvoicesFromSecond(i) ==
  List([k \in 1..(Len(checkout[i].parts) - 1) |->
     [type |-> "CREDIT", part |-> k, amount |-> PartAmount(i, k)]])

\* The parts after the first, with their index in credit_parts, from 0.
CreditInvoices(i) ==
  List([k \in 1..(Len(checkout[i].parts) - 1) |->
     [type |-> "CREDIT", part |-> k, amount |-> PartAmount(i, k + 1)]])

\* Variant: an invoice for the credit lines only.
InitialInvoiceOfCredit ==
  [type |-> IF SplitItems = {} THEN "INITIAL" ELSE "CREDIT", part |-> 0,
   amount |-> SumFunction([i \in SplitItems |-> PartAmount(i, 1)])]

\* A split line's first part is due with the order, another line in full.
DueNow(i) == IF i \in SplitItems THEN PartAmount(i, 1) ELSE Price(i)

InitialInvoice ==
  [type |-> "INITIAL", part |-> 0,
   amount |-> SumFunction([i \in DOMAIN checkout |-> DueNow(i)])]

\* {'INITIAL': invoice, item id: [invoices], ...}
Invoices ==
  Dict([k \in {"INITIAL"} \cup SplitItems |->
          IF k = "INITIAL" THEN InitialInvoice ELSE CreditInvoices(k)])

-----------------------------------------------------------------------------
(* create_order *)

\* Variant: the line is left out of the receipt's price.
ChargeWithoutQuantity ==
  SumFunction([i \in DOMAIN checkout |-> checkout[i].price * 100])

\* sum([item.amount for item in receipt_items]), in kopecks.
Charge == SumFunction([i \in DOMAIN checkout |-> Price(i) * 100])

\* invoices.get(str(item.id), None)
LineInvoices(i) == IF i \in DOMAIN Invoices.of THEN Invoices.of[i] ELSE NoInvoices

CreateOrder ==
  /\ order = NoInvoices
  /\ order' = [invoices |-> Invoices,
               lines    |-> [i \in DOMAIN checkout |->
                              [byCredit |-> i \in creditIds, invoices |-> LineInvoices(i)]],
               charge   |-> Charge]
  /\ UNCHANGED <<checkout, creditIds>>

Init ==
  /\ \E S \in SUBSET Items \ {{}} : checkout \in [S -> Lines]
  /\ creditIds \in SUBSET Items
  /\ order = NoInvoices

Spec == Init /\ [][CreateOrder]_vars

Created == order # NoInvoices
Initial == order.invoices.of["INITIAL"]
CreditLines == {i \in DOMAIN order.lines : order.lines[i].invoices # NoInvoices}
Credits(i) == order.lines[i].invoices.of

-----------------------------------------------------------------------------
(* Correctness *)

\* The order has one INITIAL invoice, which notifications are checked against;
\* every other invoice of it is a CREDIT one, numbered by its part.
TypeOK ==
  Created =>
    /\ Initial.type = "INITIAL" /\ Initial.amount \in Nat /\ order.charge \in Nat
    /\ \A i \in CreditLines : \A k \in DOMAIN Credits(i) :
         Credits(i)[k].type = "CREDIT" /\ Credits(i)[k].part = k

\* What a line costs, by its credit plan if it is split.
Owed(i) ==
  IF i \in CreditLines
  THEN checkout[i].quantity * SumFunction(checkout[i].parts)
  ELSE checkout[i].quantity * checkout[i].price

\* What the credit invoices of a line ask for.
CreditAmount(i) == SumFunction([k \in DOMAIN Credits(i) |-> Credits(i)[k].amount])

\* The invoices of an order cover it exactly: together they ask for each line
\* once, at its price or at the sum of its plan.
InvoicesCoverOrder ==
  Created =>
    Initial.amount + SumFunction([i \in CreditLines |-> CreditAmount(i)])
      = SumFunction([i \in DOMAIN checkout |-> Owed(i)])

\* Without credit the bank is asked for exactly what the invoice says.
FullPaymentMatchesInvoice ==
  Created /\ creditIds = {} => order.charge = 100 * Initial.amount

\* The payment is made for the INITIAL invoice, which with credit is a deposit
\* (title 'Оплата депозита заказа', utils.py:50): the bank is asked for what the
\* invoice it names says.
ChargeMatchesInvoice == Created => order.charge = 100 * Initial.amount

IsList(x) == x # NoInvoices /\ x.kind = "list"

\* OrderORM.invoices and OrderItemORM.invoices are Mapped[list[InvoiceORM]]: what
\* create_order gives their constructors is a list.
InvoicesAreLists ==
  Created => /\ IsList(order.invoices)
             /\ \A i \in DOMAIN order.lines : IsList(order.lines[i].invoices)
=============================================================================
