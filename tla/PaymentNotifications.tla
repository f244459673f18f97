------------------------ MODULE PaymentNotifications ------------------------
(***************************************************************************)
(* POST /api/callback/notifications/payment-status: the bank tells the     *)
(* shop how the payment of an order's INITIAL invoice goes, and            *)
(* update_payment_status carries it over to the payment, the invoice and   *)
(* the order.                                                              *)
(*                                                                         *)
(* One order, its INITIAL invoice and the one payment create_order makes   *)
(* for it; orders share no row here.  Several handlers can be at work for  *)
(* it at once.  A handler loads the invoice and its relations with one     *)
(* SELECT each (lazy='selectin', READ COMMITTED), so that what it has      *)
(* loaded need never have been in the database together, and its UPDATEs   *)
(* name only the columns whose value differs from the loaded one.          *)
(*                                                                         *)
(* The notifications are those whose token verifies.                       *)
(***************************************************************************)
EXTENDS Naturals

CONSTANTS
  Handlers,    \* handlers that can be at work at the same time
  MaxFaults    \* bound: requests that fail or whose answer is lost

ASSUME NotificationAssumption == MaxFaults \in Nat

VARIABLES
  exists,      \* has the transaction of POST /order committed?
  db,          \* payment.status, invoice.status and order.status
  pc, msg,     \* where each handler is, and the status it was told
  seen,        \* what its session has loaded
  announced,   \* the statuses the bank notifies the shop of
  answered,    \* those it has got an 'OK' for
  faults,
  late,        \* history: AUTHORIZED was handled when CONFIRMED was announced
  crossed      \* history: AUTHORIZED and CONFIRMED were handled at the same time

vars == <<exists, db, pc, msg, seen, announced, answered, faults, late, crossed>>

\* Every status without a row in the mappings is OTHER.
Statuses == {"AUTHORIZED", "CONFIRMED", "OTHER"}
PaymentStatuses == {"NEW"} \cup Statuses

\* PAYMENT_TO_INVOICE_STATUS_MAPPING
InvoiceStatusOf == [s \in {"AUTHORIZED", "CONFIRMED"} |->
                      IF s = "CONFIRMED" THEN "PAID" ELSE "WAITING"]

\* INVOICE_TO_ORDER_STATUS_MAPPING
OrderStatusOf == [s \in {"PAID"} |-> "ACCEPTED"]

Rows == [payment : PaymentStatuses,
         invoice : {"UNPAID", "WAITING", "PAID"},
         order   : {"UNPAID", "ACCEPTED"}]

\* As create_order has inserted them.
NewRows == [payment |-> "NEW", invoice |-> "UNPAID", order |-> "UNPAID"]

Init ==
  /\ exists = FALSE
  /\ db = NewRows
  /\ pc = [h \in Handlers |-> "idle"]
  /\ msg = [h \in Handlers |-> "OTHER"]
  /\ seen = [h \in Handlers |-> NewRows]
  /\ announced = {}
  /\ answered = {}
  /\ faults = 0
  /\ late = FALSE
  /\ crossed = FALSE

Advance(h, from, to) == pc[h] = from /\ pc' = [pc EXCEPT ![h] = to]

\* The handler is done with, and its session closed.
Close(h) ==
  /\ pc' = [pc EXCEPT ![h] = "idle"]
  /\ msg' = [msg EXCEPT ![h] = "OTHER"]
  /\ seen' = [seen EXCEPT ![h] = NewRows]

-----------------------------------------------------------------------------
(* The shop and the bank *)

\* OrderPlacement's Commit: the rows appear, and the client gets the link.
CommitOrder ==
  /\ ~exists
  /\ exists' = TRUE
  /\ UNCHANGED <<db, pc, msg, seen, announced, answered, faults>>

\* The bank knows the payment before the order is committed, and tells of each status
\* without waiting for the 'OK' for the one before.
Announce(s) ==
  /\ s \notin announced
  /\ s = "AUTHORIZED" => "CONFIRMED" \notin announced
  /\ announced' = announced \cup {s}
  /\ UNCHANGED <<exists, db, pc, msg, seen, answered, faults>>

\* A notification is sent again until it is answered; an earlier copy of it
\* may still be being handled.
Deliver(h, s) ==
  /\ s \in announced \ answered
  /\ Advance(h, "idle", "started")
  /\ msg' = [msg EXCEPT ![h] = s]
  /\ UNCHANGED <<exists, db, seen, announced, answered, faults>>

-----------------------------------------------------------------------------
(* update_payment_status *)

\* session.get(InvoiceORM, OrderId)
LoadInvoice(h) ==
  /\ exists
  /\ Advance(h, "started", "invoice")
  /\ seen' = [seen EXCEPT ![h].invoice = db.invoice]
  /\ UNCHANGED <<exists, db, msg, announced, answered, faults>>

\* Variant: a notification without an invoice is nothing to worry about.
IgnoreMissing(h) ==
  /\ ~exists
  /\ pc[h] = "started"
  /\ Close(h)
  /\ answered' = answered \cup {msg[h]}
  /\ UNCHANGED <<exists, db, announced, faults>>

\* It returns None: AttributeError, an error for an answer.
MissingInvoice(h) ==
  /\ ~exists
  /\ pc[h] = "started"
  /\ Close(h)
  /\ UNCHANGED <<exists, db, announced, answered, faults>>

LoadPayments(h) ==
  /\ Advance(h, "invoice", "payments")
  /\ seen' = [seen EXCEPT ![h].payment = db.payment]
  /\ UNCHANGED <<exists, db, msg, announced, answered, faults>>

LoadOrder(h) ==
  /\ Advance(h, "payments", "loaded")
  /\ seen' = [seen EXCEPT ![h].order = db.order]
  /\ UNCHANGED <<exists, db, msg, announced, answered, faults>>

\* Variant: the invoice takes the payment's status as it is.
UpdatedRaw(h) ==
  [payment |-> msg[h], invoice |-> msg[h], order |-> seen[h].order]

\* Variant: any mapped status accepts the order.
UpdatedTooSoon(h) ==
  LET mapped == msg[h] \in DOMAIN InvoiceStatusOf
  IN [payment |-> msg[h],
      invoice |-> IF mapped THEN InvoiceStatusOf[msg[h]] ELSE seen[h].invoice,
      order   |-> IF mapped THEN "ACCEPTED" ELSE seen[h].order]

\* Variant: the order's status follows the one the invoice had when loaded.
UpdatedFromLoaded(h) ==
  LET mapped == msg[h] \in DOMAIN InvoiceStatusOf
  IN [payment |-> msg[h],
      invoice |-> IF mapped THEN InvoiceStatusOf[msg[h]] ELSE seen[h].invoice,
      order   |-> IF seen[h].invoice = "PAID" THEN "ACCEPTED" ELSE seen[h].order]

\* Variant: a status without a row in the mapping resets the invoice.
UpdatedWithDefault(h) ==
  LET invoice == IF msg[h] \in DOMAIN InvoiceStatusOf THEN InvoiceStatusOf[msg[h]]
                                                     ELSE "UNPAID"
  IN [payment |-> msg[h], invoice |-> invoice,
      order   |-> IF invoice = "PAID" THEN "ACCEPTED" ELSE seen[h].order]

\* Variant: the invoice takes the status mapped from the payment's old one.
UpdatedTooLate(h) ==
  LET invoice == IF seen[h].payment \in DOMAIN InvoiceStatusOf
                 THEN InvoiceStatusOf[seen[h].payment] ELSE seen[h].invoice
  IN [payment |-> msg[h], invoice |-> invoice,
      order   |-> IF invoice = "PAID" THEN "ACCEPTED" ELSE seen[h].order]

\* The attributes of the loaded objects after the assignments.
Updated(h) ==
  LET invoice == IF msg[h] \in DOMAIN InvoiceStatusOf THEN InvoiceStatusOf[msg[h]]
                                                     ELSE seen[h].invoice
  IN [payment |-> msg[h],
      invoice |-> invoice,
      order   |-> IF invoice \in DOMAIN OrderStatusOf THEN OrderStatusOf[invoice]
                                                      ELSE seen[h].order]

\* UPDATE ... SET names a column only when its attribute has changed.
Column(new, old, current) == IF new # old THEN new ELSE current

\* Variant: the request is taken for one that only reads, and not committed.
SaveNothing(h) ==
  /\ Advance(h, "loaded", "saved")
  /\ UNCHANGED <<exists, db, msg, seen, announced, answered, faults>>

\* Variant: UPDATE ... SET names every column.
SaveEveryColumn(h) ==
  /\ Advance(h, "loaded", "saved")
  /\ db' = Updated(h)
  /\ UNCHANGED <<exists, msg, seen, announced, answered, faults>>

\* Flush and commit.
Save(h) ==
  /\ Advance(h, "loaded", "saved")
  /\ LET new == Updated(h)
         old == seen[h]
     IN db' = [payment |-> Column(new.payment, old.payment, db.payment),
               invoice |-> Column(new.invoice, old.invoice, db.invoice),
               order   |-> Column(new.order, old.order, db.order)]
  /\ UNCHANGED <<exists, msg, seen, announced, answered, faults>>

\* The bank gets its 'OK'.
Answer(h) ==
  /\ pc[h] = "saved"
  /\ Close(h)
  /\ answered' = answered \cup {msg[h]}
  /\ UNCHANGED <<exists, db, announced, faults>>

\* The handler fails before it has committed, or its answer does not arrive.
Fault(h) ==
  /\ pc[h] # "idle"
  /\ faults < MaxFaults
  /\ faults' = faults + 1
  /\ Close(h)
  /\ UNCHANGED <<exists, db, announced, answered>>

-----------------------------------------------------------------------------

Handle(h) == \/ LoadInvoice(h) \/ MissingInvoice(h)
             \/ LoadPayments(h) \/ LoadOrder(h)
             \/ Save(h) \/ Answer(h)

Busy(h, s) == pc[h] # "idle" /\ msg[h] = s

\* What the history variables take down in every step.
Remember ==
  /\ late' = (late \/ \E h \in Handlers :
                        Busy(h, "AUTHORIZED")' /\ "CONFIRMED" \in announced')
  /\ crossed' = (crossed \/ \E g, h \in Handlers :
                              Busy(g, "AUTHORIZED")' /\ Busy(h, "CONFIRMED")')

Step ==
  \/ CommitOrder
  \/ \E s \in Statuses : Announce(s)
  \/ \E h \in Handlers : \/ \E s \in Statuses : Deliver(h, s)
                         \/ Handle(h)
                         \/ Fault(h)

Next == Step /\ Remember

Spec == Init /\ [][Next]_vars

\* Handlers run to their end, and the bank retries a notification for as long
\* as it has no 'OK' for it.
FairSpec ==
  /\ Spec
  /\ \A h \in Handlers : WF_vars(Handle(h) /\ Remember)
  /\ \A s \in Statuses : SF_vars(\E h \in Handlers : Deliver(h, s) /\ Remember)

-----------------------------------------------------------------------------
(* Correctness *)

\* Every variable holds what its row, handler or bank can hold.
TypeOK ==
  /\ exists \in BOOLEAN
  /\ db \in Rows
  /\ pc \in [Handlers -> {"idle", "started", "invoice", "payments", "loaded", "saved"}]
  /\ msg \in [Handlers -> Statuses]
  /\ seen \in [Handlers -> Rows]
  /\ announced \in SUBSET Statuses
  /\ answered \in SUBSET Statuses
  /\ faults \in 0..MaxFaults
  /\ late \in BOOLEAN /\ crossed \in BOOLEAN

\* Nothing is shipped unpaid: an order is accepted only after the bank has
\* confirmed its payment, whatever order the notifications are handled in.
AcceptedOnlyIfConfirmed ==
  db.order = "ACCEPTED" => "CONFIRMED" \in announced

\* A paid invoice never waits for its order: although invoice and order are
\* loaded apart and written column by column, no state shows one PAID and the
\* other not ACCEPTED.
PaidMeansAccepted == db.invoice = "PAID" => db.order = "ACCEPTED"

\* The bank stops telling of a confirmation only when the order is accepted, also if
\* it has told of it before POST /order has committed.
AnsweredMeansAccepted ==
  "CONFIRMED" \in answered => exists /\ db.order = "ACCEPTED"

\* An answered confirmation has left its invoice PAID, whatever else was handled at
\* the same time or handled twice; only an AUTHORIZED that was handled late can have
\* taken that back.
PaidUnlessLate == "CONFIRMED" \in answered /\ ~late => db.invoice = "PAID"

\* Payment and invoice agree as PAYMENT_TO_INVOICE_STATUS_MAPPING says, with any number
\* of copies handled at once, until an AUTHORIZED and a CONFIRMED have crossed: each
\* of them may then have found one of the two rows as it would have left it.
InvoiceFollowsPayment ==
  ~crossed /\ db.payment \in DOMAIN InvoiceStatusOf =>
    db.invoice = InvoiceStatusOf[db.payment]

\* PAID is taken back by the handling of a late AUTHORIZED only, to WAITING, and of an
\* order that stays accepted: by no other status, whatever its handler has loaded, by
\* no copy of the confirmation and by no failure.
PaidYieldsOnlyToAuthorized ==
  [][db.invoice = "PAID" /\ db'.invoice # "PAID" =>
       /\ late /\ \E h \in Handlers : Busy(h, "AUTHORIZED")
       /\ db' = [db EXCEPT !.payment = db'.payment, !.invoice = "WAITING"]
       /\ db.order = "ACCEPTED"]_vars

\* However the notifications of an order are repeated, overtaken or handled at the
\* same time, what update_payment_status commits of it is an OrderLifecycle: its order
\* is accepted once, by a step of its own after the commit and the confirmation, and no
\* handler that has loaded it before takes that back.
Lifecycle == INSTANCE OrderLifecycle WITH
  placed    <- exists,
  confirmed <- "CONFIRMED" \in announced,
  accepted  <- db.order = "ACCEPTED"

ImplementsLifecycle == Lifecycle!Spec

\* A confirmed payment gets its order accepted in the end, if there is an order.
ConfirmedIsAccepted == exists /\ "CONFIRMED" \in announced ~> db.order = "ACCEPTED"
=============================================================================
