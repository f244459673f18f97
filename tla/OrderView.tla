------------------------------- MODULE OrderView -------------------------------
(***************************************************************************)
(* An order of OrderInvoices from its creation on: its invoices get paid   *)
(* and its owner looks at it, which shows per line how far the credit plan *)
(* is paid and the invoice to pay next.                                    *)
(*                                                                         *)
(* update_payment_status treats all invoices alike, but nothing under src  *)
(* makes payments for the CREDIT ones: PartPaid is external.  One SELECT   *)
(* reads the invoices of all lines, so that a view is one step; it has no  *)
(* ORDER BY, so that any of the unpaid invoices may come first.  The parts *)
(* of a plan are never updated, and are read in the order of the checkout. *)
(***************************************************************************)
EXTENDS OrderInvoices

VARIABLES
  preordered,    \* the order has a preorder_id
  pictured,      \* items whose product has an image
  status,        \* InvoiceORM.status of each invoice
  view           \* what the last request for the order got, until a change

viewVars == <<checkout, creditIds, order, preordered, pictured, status, view>>

Outcome(e) == [outcome |-> e]
Deposit == <<"INITIAL", 0>>
Parts(i) == {<<i, k>> : k \in DOMAIN Credits(i)}
InvoiceIds == {Deposit} \cup UNION {Parts(i) : i \in CreditLines}

ViewInit ==
  /\ Init
  /\ preordered \in BOOLEAN
  /\ pictured \in SUBSET DOMAIN checkout
  /\ status = <<>>
  /\ view = Outcome("none")

CreateUnpaid ==
  /\ CreateOrder
  /\ status' = [v \in InvoiceIds' |-> "UNPAID"]
  /\ view' = Outcome("none")
  /\ UNCHANGED <<preordered, pictured>>

\* A notification for a payment of invoice v is handled, in any order.
Notified(v, to) ==
  /\ status[v] # to
  /\ status' = [status EXCEPT ![v] = to]
  /\ view' = Outcome("none")
  /\ UNCHANGED <<checkout, creditIds, order, preordered, pictured>>

DepositPaid ==
  Created /\ \E to \in {"WAITING", "PAID"} : Notified(Deposit, to)

PartPaid ==
  Created /\ \E v \in InvoiceIds \ {Deposit}, to \in {"WAITING", "PAID"} : Notified(v, to)

-----------------------------------------------------------------------------
(* get_user_order *)

\* Variant: the settled invoices are counted, wherever they are in the plan.
CreditsByCount(i) ==
  LET unpaid == {k \in DOMAIN Credits(i) : status[<<i, k>>] = "UNPAID"}
      settled == Cardinality(DOMAIN Credits(i) \ unpaid)
  IN IF unpaid = {}
     THEN {[paidParts |-> settled, invoice |-> NoInvoices]}
     ELSE {[paidParts |-> settled + 1, invoice |-> Credits(i)[k]] : k \in unpaid}

\* The credit of a line: what may come out for it, given that any unpaid invoice
\* may be the first.  A plan whose parts are all paid shows one less: its deposit
\* has no invoice of the line.
CreditsOf(i) ==
  LET unpaid == {k \in DOMAIN Credits(i) : status[<<i, k>>] = "UNPAID"}
  IN IF unpaid = {}
     THEN {[paidParts |-> Len(Credits(i)), invoice |-> NoInvoices]}
     ELSE {[paidParts |-> Credits(i)[k].part, invoice |-> Credits(i)[k]] : k \in unpaid}

\* by_credit was asked for an item that has no plan.
Planless(i) == order.lines[i].byCredit /\ checkout[i].parts = <<>>
Showable(i) == ~Planless(i) /\ i \in pictured

Answered(v) ==
  /\ view' = v
  /\ UNCHANGED <<checkout, creditIds, order, preordered, pictured, status>>

\* order is None.
ViewMissing == ~Created /\ Answered(Outcome("AttributeError"))

ViewOfAnother == Created /\ Answered(Outcome("ForbiddenError"))

\* item.info.credit_plan is None.
ViewWithoutPlan ==
  /\ Created
  /\ \E i \in DOMAIN order.lines : Planless(i)
  /\ Answered(Outcome("AttributeError"))

\* The first image of none.
ViewWithoutImage ==
  /\ Created
  /\ \E i \in DOMAIN order.lines : ~Planless(i) /\ i \notin pictured
  /\ Answered(Outcome("IndexError"))

\* order.preorder is None, and the date of the preorder is formatted for any order.
ViewWithoutPreorder ==
  /\ Created /\ ~preordered
  /\ \A i \in DOMAIN order.lines : Showable(i)
  /\ Answered(Outcome("AttributeError"))

\* The lines with their credits.  Of the invoices that are not CREDIT there is the
\* deposit only.
ViewShown ==
  /\ Created /\ preordered
  /\ \A i \in DOMAIN order.lines : Showable(i)
  /\ LET byCredit == {i \in DOMAIN order.lines : order.lines[i].byCredit}
         credits == [byCredit -> UNION {CreditsOf(i) : i \in byCredit}]
     IN \E c \in credits :
          /\ \A i \in byCredit : c[i] \in CreditsOf(i)
          /\ Answered([outcome |-> "shown", credits |-> c,
                       isPaid  |-> status[Deposit] = "PAID"])

ViewNext ==
  \/ CreateUnpaid \/ DepositPaid \/ PartPaid
  \/ ViewMissing \/ ViewOfAnother \/ ViewWithoutPlan
  \/ ViewWithoutImage \/ ViewWithoutPreorder \/ ViewShown

ViewSpec == ViewInit /\ [][ViewNext]_viewVars

Shown == view.outcome = "shown"

-----------------------------------------------------------------------------
(* Correctness *)

\* What a view offers for a line can be paid and is what its plan says: the
\* invoice is unpaid, and asks for the part that paid_parts counts up to, at the
\* line's quantity; nothing is offered only if nothing of the line is unpaid.
OfferMatchesPlan ==
  Shown =>
    \A i \in DOMAIN view.credits :
      LET c == view.credits[i]
      IN IF c.invoice = NoInvoices
         THEN \A v \in Parts(i) : status[v] # "UNPAID"
         ELSE /\ status[<<i, c.invoice.part>>] = "UNPAID"
              /\ c.invoice.amount = checkout[i].quantity * checkout[i].parts[c.paidParts + 1]

\* An order without preorder can be viewed ('preorder: PreorderInfo | None',
\* services/order/models.py:76): nothing that its owner asks for fails if all of
\* its items have a picture and the credit lines a plan.
PreorderIsOptional ==
  Created /\ (\A i \in DOMAIN order.lines : Showable(i))
    => view # Outcome("AttributeError")
=============================================================================
