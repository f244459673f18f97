--------------------- MODULE PaymentNotificationsProofs ---------------------
(***************************************************************************)
(* Theorems about PaymentNotifications for any number of handlers, any     *)
(* interleaving of them and any number of faults, proved with TLAPS from   *)
(* one inductive invariant.                                                *)
(*                                                                         *)
(* What makes it inductive is that order.status is only ever written as    *)
(* ACCEPTED: whatever a handler has loaded, however old, an order that was *)
(* accepted then is accepted still, so an UPDATE that leaves order.status  *)
(* out because its loaded value is ACCEPTED leaves out nothing.            *)
(***************************************************************************)
EXTENDS PaymentNotifications, TLAPS

\* A handler is at work on a status the bank has announced.
ToldInv == \A h \in Handlers : pc[h] # "idle" => msg[h] \in announced

\* What a session has loaded as accepted or paid belongs to an accepted order.
SeenInv ==
  \A h \in Handlers :
    seen[h].order = "ACCEPTED" \/ seen[h].invoice = "PAID" => db.order = "ACCEPTED"

\* A handler that has committed a confirmation has got the order accepted.
SavedInv ==
  \A h \in Handlers :
    pc[h] = "saved" /\ msg[h] = "CONFIRMED" => db.order = "ACCEPTED"

\* Handlers work on committed rows only, although they are told of others.
RowsInv ==
  /\ \A h \in Handlers : pc[h] \in {"invoice", "payments", "loaded", "saved"} => exists
  /\ db.order = "ACCEPTED" => exists

BankInv == answered \subseteq announced

IInv == /\ TypeOK
        /\ ToldInv /\ SeenInv /\ SavedInv /\ RowsInv /\ BankInv
        /\ AcceptedOnlyIfConfirmed
        /\ PaidMeansAccepted
        /\ AnsweredMeansAccepted

-----------------------------------------------------------------------------
(* The assignments of update_payment_status *)

\* The UPDATEs of a handler write statuses of the enumerations.
LEMMA SaveType ==
  ASSUME TypeOK, NEW h \in Handlers, Save(h)
  PROVE  db' \in Rows
<1>1. /\ msg[h] \in Statuses
      /\ seen[h] \in Rows
      /\ db \in Rows
  BY DEF TypeOK
<1> DEFINE invoice == IF msg[h] \in DOMAIN InvoiceStatusOf
                      THEN InvoiceStatusOf[msg[h]] ELSE seen[h].invoice
           order   == IF invoice \in DOMAIN OrderStatusOf
                      THEN OrderStatusOf[invoice] ELSE seen[h].order
<1>2. invoice \in {"UNPAID", "WAITING", "PAID"}
  BY <1>1 DEF InvoiceStatusOf, Rows
<1>3. order \in {"UNPAID", "ACCEPTED"}
  BY <1>1 DEF OrderStatusOf, Rows
<1>4. Updated(h) = [payment |-> msg[h], invoice |-> invoice, order |-> order]
  BY DEF Updated
<1> HIDE DEF invoice, order
<1>5. QED
  BY <1>1, <1>2, <1>3, <1>4 DEF Save, Column, Rows, PaymentStatuses

\* A handler that makes the invoice PAID, or finds it PAID, leaves the order
\* accepted; and an accepted order stays accepted whatever it does.
LEMMA SaveAccepts ==
  ASSUME TypeOK, SeenInv, NEW h \in Handlers, Save(h)
  PROVE  /\ db.order = "ACCEPTED" => db'.order = "ACCEPTED"
         /\ msg[h] = "CONFIRMED" => db'.order = "ACCEPTED"
         /\ PaidMeansAccepted => PaidMeansAccepted'
         /\ db'.order = "ACCEPTED" => db.order = "ACCEPTED" \/ msg[h] = "CONFIRMED"
<1>1. /\ msg[h] \in Statuses
      /\ seen[h] \in Rows
      /\ db \in Rows
  BY DEF TypeOK
<1>2. seen[h].order = "ACCEPTED" \/ seen[h].invoice = "PAID" => db.order = "ACCEPTED"
  BY DEF SeenInv
<1> DEFINE invoice == IF msg[h] \in DOMAIN InvoiceStatusOf
                      THEN InvoiceStatusOf[msg[h]] ELSE seen[h].invoice
           order   == IF invoice \in DOMAIN OrderStatusOf
                      THEN OrderStatusOf[invoice] ELSE seen[h].order
<1>3. /\ db'.invoice = IF invoice # seen[h].invoice THEN invoice ELSE db.invoice
      /\ db'.order = IF order # seen[h].order THEN order ELSE db.order
  BY DEF Save, Column, Updated
<1>4. order = IF invoice = "PAID" THEN "ACCEPTED" ELSE seen[h].order
  BY DEF OrderStatusOf
<1>5. /\ msg[h] = "CONFIRMED" => invoice = "PAID"
      /\ invoice = "PAID" => msg[h] = "CONFIRMED" \/ seen[h].invoice = "PAID"
  BY <1>1 DEF InvoiceStatusOf, Statuses
<1>6. seen[h].order \in {"UNPAID", "ACCEPTED"}
  BY <1>1 DEF Rows
<1> HIDE DEF invoice, order
<1>7. invoice = "PAID" => db'.order = "ACCEPTED"
  BY <1>2, <1>3, <1>4
<1>8. db.order = "ACCEPTED" => db'.order = "ACCEPTED"
  BY <1>3, <1>4
<1>9. db'.order = "ACCEPTED" => db.order = "ACCEPTED" \/ msg[h] = "CONFIRMED"
  BY <1>2, <1>3, <1>4, <1>5
<1>10. PaidMeansAccepted => PaidMeansAccepted'
  BY <1>2, <1>3, <1>7, <1>8 DEF PaidMeansAccepted
<1>11. QED
  BY <1>5, <1>7, <1>8, <1>9, <1>10

-----------------------------------------------------------------------------
(* The invariant is inductive *)

\* What the lemmas on single actions need to know of the history variables.
HistoryTypes == late' \in BOOLEAN /\ crossed' \in BOOLEAN

\* The history variables only answer yes or no.
LEMMA RememberType ==
  ASSUME TypeOK, Remember PROVE HistoryTypes
BY DEF TypeOK, Remember, HistoryTypes

\* It holds before the order is committed.
LEMMA InitIInv == ASSUME Init PROVE IInv
<1>1. NewRows \in Rows
  BY DEF NewRows, Rows, PaymentStatuses, Statuses
<1>2. TypeOK
  <2>1. 0 \in 0..MaxFaults
    BY NotificationAssumption
  <2>2. "OTHER" \in Statuses
    BY DEF Statuses
  <2>3. QED
    BY <1>1, <2>1, <2>2 DEF Init, TypeOK
<1>3. ToldInv /\ SavedInv /\ RowsInv /\ BankInv
  BY DEF Init, ToldInv, SavedInv, RowsInv, BankInv, NewRows
<1>4. SeenInv
  BY DEF Init, SeenInv, NewRows
<1>5. AcceptedOnlyIfConfirmed /\ PaidMeansAccepted /\ AnsweredMeansAccepted
  BY DEF Init, NewRows, AcceptedOnlyIfConfirmed, PaidMeansAccepted, AnsweredMeansAccepted
<1>6. QED
  BY <1>2, <1>3, <1>4, <1>5 DEF IInv

\* A handler that stops, having answered or not, forgets all it has loaded.
LEMMA CloseKeeps ==
  ASSUME IInv, HistoryTypes, NEW h \in Handlers, Close(h), UNCHANGED <<exists, db, announced>>,
         answered' \in {answered, answered \cup {msg[h]}},
         answered' # answered => pc[h] = "saved",
         faults' \in 0..MaxFaults
  PROVE  IInv'
<1> USE DEF IInv, HistoryTypes
<1>1. TypeOK'
  BY DEF TypeOK, Close, NewRows, Rows, PaymentStatuses, Statuses
<1>2. ToldInv'
  BY DEF ToldInv, Close, TypeOK
<1>3. SeenInv'
  BY DEF SeenInv, Close, TypeOK, NewRows
<1>4. SavedInv' /\ RowsInv'
  BY DEF SavedInv, RowsInv, Close, TypeOK
<1>5. BankInv' /\ AnsweredMeansAccepted'
  <2>1. CASE answered' = answered
    BY <2>1 DEF BankInv, AnsweredMeansAccepted
  <2>2. CASE answered' # answered
    <3>1. pc[h] = "saved" /\ answered' = answered \cup {msg[h]} /\ msg[h] \in announced
      BY <2>2 DEF ToldInv
    <3>2. QED
      BY <3>1 DEF BankInv, AnsweredMeansAccepted, SavedInv, RowsInv
  <2>3. QED
    BY <2>1, <2>2
<1>6. AcceptedOnlyIfConfirmed' /\ PaidMeansAccepted'
  BY DEF AcceptedOnlyIfConfirmed, PaidMeansAccepted
<1>7. QED
  BY <1>1, <1>2, <1>3, <1>4, <1>5, <1>6

\* The SELECTs of a handler keep it: a row is seen as it is.
LEMMA LoadKeeps ==
  ASSUME IInv, HistoryTypes, NEW h \in Handlers,
         LoadInvoice(h) \/ LoadPayments(h) \/ LoadOrder(h)
  PROVE  IInv'
<1> USE DEF IInv, HistoryTypes
<1>1. TypeOK'
  BY DEF TypeOK, LoadInvoice, LoadPayments, LoadOrder, Advance, Rows
<1>2. ToldInv' /\ SavedInv' /\ RowsInv'
  BY DEF ToldInv, SavedInv, RowsInv, LoadInvoice, LoadPayments, LoadOrder, Advance, TypeOK
<1>3. SeenInv'
  BY DEF SeenInv, PaidMeansAccepted, LoadInvoice, LoadPayments, LoadOrder, TypeOK, Rows
<1>4. BankInv' /\ AcceptedOnlyIfConfirmed' /\ PaidMeansAccepted' /\ AnsweredMeansAccepted'
  BY DEF BankInv, AcceptedOnlyIfConfirmed, PaidMeansAccepted, AnsweredMeansAccepted,
         LoadInvoice, LoadPayments, LoadOrder
<1>5. QED
  BY <1>1, <1>2, <1>3, <1>4

\* The commit of a handler keeps it.
LEMMA SaveKeeps == ASSUME IInv, HistoryTypes, NEW h \in Handlers, Save(h) PROVE IInv'
<1> USE DEF IInv, HistoryTypes
<1>1. TypeOK'
  <2>1. db' \in Rows
    BY SaveType
  <2>2. QED
    BY <2>1 DEF TypeOK, Save, Advance
<1>2. /\ db.order = "ACCEPTED" => db'.order = "ACCEPTED"
      /\ msg[h] = "CONFIRMED" => db'.order = "ACCEPTED"
      /\ PaidMeansAccepted'
      /\ db'.order = "ACCEPTED" => db.order = "ACCEPTED" \/ msg[h] = "CONFIRMED"
  BY SaveAccepts
<1>3. ToldInv'
  BY DEF ToldInv, Save, Advance, TypeOK
<1>4. SeenInv'
  BY <1>2 DEF SeenInv, Save
<1>5. SavedInv' /\ RowsInv'
  BY <1>2 DEF SavedInv, RowsInv, Save, Advance, TypeOK
<1>6. msg[h] \in announced
  BY DEF ToldInv, Save, Advance
<1>7. AcceptedOnlyIfConfirmed'
  BY <1>2, <1>6 DEF AcceptedOnlyIfConfirmed, Save
<1>8. BankInv' /\ AnsweredMeansAccepted'
  BY <1>2 DEF BankInv, AnsweredMeansAccepted, Save
<1>9. QED
  BY <1>1, <1>2, <1>3, <1>4, <1>5, <1>7, <1>8

\* The shop's commit and the bank's announcements keep it.
LEMMA OutsideKeeps ==
  ASSUME IInv, HistoryTypes, CommitOrder \/ \E s \in Statuses : Announce(s)
  PROVE  IInv'
<1> USE DEF IInv, HistoryTypes
<1>1. CASE CommitOrder
  BY <1>1 DEF CommitOrder, TypeOK, ToldInv, SeenInv, SavedInv, RowsInv, BankInv,
     AcceptedOnlyIfConfirmed, PaidMeansAccepted, AnsweredMeansAccepted
<1>2. CASE \E s \in Statuses : Announce(s)
  BY <1>2 DEF Announce, TypeOK, ToldInv, SeenInv, SavedInv, RowsInv, BankInv,
     AcceptedOnlyIfConfirmed, PaidMeansAccepted, AnsweredMeansAccepted
<1>3. QED
  BY <1>1, <1>2

\* A delivered notification is one that was announced.
LEMMA DeliverKeeps ==
  ASSUME IInv, HistoryTypes, NEW h \in Handlers, NEW s \in Statuses, Deliver(h, s)
  PROVE  IInv'
BY DEF IInv, HistoryTypes, Deliver, Advance, TypeOK, ToldInv, SeenInv, SavedInv, RowsInv, BankInv,
   AcceptedOnlyIfConfirmed, PaidMeansAccepted, AnsweredMeansAccepted

\* Every step keeps the invariant.
LEMMA StepKeeps ==
  ASSUME IInv, [Next]_vars
  PROVE  IInv'
<1>1. CASE UNCHANGED vars
  BY <1>1 DEF vars, IInv, TypeOK, ToldInv, SeenInv, SavedInv, RowsInv, BankInv,
     AcceptedOnlyIfConfirmed, PaidMeansAccepted, AnsweredMeansAccepted
<1>2. ASSUME Next PROVE HistoryTypes
  BY <1>2, RememberType DEF Next, IInv
<1>3. ASSUME Next, CommitOrder \/ \E s \in Statuses : Announce(s) PROVE IInv'
  BY <1>2, <1>3, OutsideKeeps
<1>4. ASSUME Next, NEW h \in Handlers, \E s \in Statuses : Deliver(h, s) PROVE IInv'
  BY <1>2, <1>4, DeliverKeeps
<1>5. ASSUME Next, NEW h \in Handlers, Handle(h) PROVE IInv'
  <2>1. CASE LoadInvoice(h) \/ LoadPayments(h) \/ LoadOrder(h)
    BY <1>2, <1>5, <2>1, LoadKeeps
  <2>2. CASE MissingInvoice(h) \/ Answer(h)
    <3>1. faults \in 0..MaxFaults
      BY DEF IInv, TypeOK
    <3>2. QED
      BY <1>2, <1>5, <2>2, <3>1, CloseKeeps DEF MissingInvoice, Answer
  <2>3. CASE Save(h)
    BY <1>2, <1>5, <2>3, SaveKeeps
  <2>4. QED
    BY <1>5, <2>1, <2>2, <2>3 DEF Handle
<1>6. ASSUME Next, NEW h \in Handlers, Fault(h) PROVE IInv'
  <2>1. faults' \in 0..MaxFaults
    BY <1>6, NotificationAssumption DEF Fault, IInv, TypeOK
  <2>2. QED
    BY <1>2, <1>6, <2>1, CloseKeeps DEF Fault
<1>7. QED
  BY <1>1, <1>3, <1>4, <1>5, <1>6 DEF Next, Step

\* The invariant holds in every state of every behaviour.
THEOREM InvariantHolds == Spec => []IInv
<1>1. Init => IInv
  BY InitIInv
<1>2. IInv /\ [Next]_vars => IInv'
  BY StepKeeps
<1>3. QED
  BY <1>1, <1>2, PTL DEF Spec

-----------------------------------------------------------------------------
(* The theorems *)

\* The rows, the handlers and the bank hold only what they can hold: in
\* particular update_payment_status writes statuses of the enumerations only.
THEOREM TypeCorrect == Spec => []TypeOK
<1>1. IInv => TypeOK
  BY DEF IInv
<1>2. QED
  BY <1>1, InvariantHolds, PTL

\* update_payment_status accepts an order only after the bank has confirmed
\* its payment, with any number of handlers, duplicates and failures.
THEOREM NothingShippedUnpaid ==
  Spec => []AcceptedOnlyIfConfirmed
<1>1. IInv => AcceptedOnlyIfConfirmed
  BY DEF IInv
<1>2. QED
  BY <1>1, InvariantHolds, PTL

\* update_payment_status never leaves an invoice PAID and its order not
\* ACCEPTED, although it loads the two rows one after the other and writes only
\* the columns it thinks have changed.
THEOREM PaidOrdersAccepted ==
  Spec => []PaidMeansAccepted
<1>1. IInv => PaidMeansAccepted
  BY DEF IInv
<1>2. QED
  BY <1>1, InvariantHolds, PTL

\* A confirmation the shop answers 'OK' to, after which the bank sends it no
\* more, is one that has got its order accepted.
THEOREM NoConfirmationLost ==
  Spec => []AnsweredMeansAccepted
<1>1. IInv => AnsweredMeansAccepted
  BY DEF IInv
<1>2. QED
  BY <1>1, InvariantHolds, PTL

-----------------------------------------------------------------------------
(* The lifecycle of the order *)

\* Outside update_payment_status only the shop's commit and the bank's
\* confirmation are steps of the lifecycle.
LEMMA OutsideSteps ==
  ASSUME CommitOrder \/ \E s \in Statuses : Announce(s)
  PROVE  [Lifecycle!Next]_Lifecycle!vars
<1> USE DEF Lifecycle!Next, Lifecycle!vars
<1>1. CASE CommitOrder
  BY <1>1 DEF CommitOrder, Lifecycle!Place
<1>2. ASSUME NEW s \in Statuses, Announce(s) PROVE [Lifecycle!Next]_Lifecycle!vars
  <2>1. CASE s = "CONFIRMED"
    BY <1>2, <2>1 DEF Announce, Lifecycle!Confirm
  <2>2. CASE s # "CONFIRMED"
    BY <1>2, <2>2 DEF Announce
  <2>3. QED
    BY <2>1, <2>2
<1>3. QED
  BY <1>1, <1>2

\* A handler's commit accepts a confirmed order or leaves it as it is.
LEMMA SaveIsAccept ==
  ASSUME IInv, NEW h \in Handlers, Save(h)
  PROVE  Lifecycle!Accept \/ UNCHANGED Lifecycle!vars
<1>1. /\ db.order = "ACCEPTED" => db'.order = "ACCEPTED"
      /\ db'.order = "ACCEPTED" => db.order = "ACCEPTED" \/ msg[h] = "CONFIRMED"
  BY SaveAccepts DEF IInv
<1>2. msg[h] \in announced
  BY DEF IInv, ToldInv, Save, Advance
<1>3. exists /\ UNCHANGED <<exists, announced>>
  BY DEF IInv, RowsInv, Save, Advance
<1>4. CASE (db'.order = "ACCEPTED") = (db.order = "ACCEPTED")
  BY <1>3, <1>4 DEF Lifecycle!vars
<1>5. CASE (db'.order = "ACCEPTED") # (db.order = "ACCEPTED")
  BY <1>1, <1>2, <1>3, <1>5 DEF Lifecycle!Accept
<1>6. QED
  BY <1>4, <1>5

\* Every step of the notifications is one of the lifecycle, or none.
LEMMA LifecycleSteps ==
  ASSUME IInv, [Next]_vars
  PROVE  [Lifecycle!Next]_Lifecycle!vars
<1>1. CASE UNCHANGED vars
  BY <1>1 DEF vars, Lifecycle!vars
<1>2. CASE CommitOrder \/ \E s \in Statuses : Announce(s)
  BY <1>2, OutsideSteps
<1>3. ASSUME NEW h \in Handlers, Save(h) PROVE [Lifecycle!Next]_Lifecycle!vars
  BY <1>3, SaveIsAccept DEF Lifecycle!Next
<1>4. ASSUME NEW h \in Handlers,
             \/ \E s \in Statuses : Deliver(h, s)
             \/ Fault(h) \/ LoadInvoice(h) \/ MissingInvoice(h)
             \/ LoadPayments(h) \/ LoadOrder(h) \/ Answer(h)
      PROVE  UNCHANGED Lifecycle!vars
  BY <1>4 DEF Deliver, Fault, LoadInvoice, MissingInvoice, LoadPayments, LoadOrder,
     Answer, Lifecycle!vars
<1>5. QED
  BY <1>1, <1>2, <1>3, <1>4 DEF Next, Step, Handle

\* With any number of handlers, duplicates, overtaking and failures, the order's
\* status goes from UNPAID to ACCEPTED once, after the confirmation, and stays.
THEOREM StatusesImplementLifecycle ==
  Spec => ImplementsLifecycle
<1>1. Init => Lifecycle!Init
  BY DEF Init, NewRows, Lifecycle!Init
<1>2. IInv /\ [Next]_vars => [Lifecycle!Next]_Lifecycle!vars
  BY LifecycleSteps
<1>3. QED
  BY <1>1, <1>2, InvariantHolds, PTL DEF Spec, ImplementsLifecycle, Lifecycle!Spec
=============================================================================
