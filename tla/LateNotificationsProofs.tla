----------------------- MODULE LateNotificationsProofs -----------------------
(***************************************************************************)
(* Proofs about PaymentNotifications, for any number of handlers, of what  *)
(* becomes of the invoice: it follows the payment until an AUTHORIZED and  *)
(* a CONFIRMED have crossed, and what is PAID is taken back by nothing but *)
(* a late AUTHORIZED.                                                      *)
(*                                                                         *)
(* The UPDATE of a handler leaves a column out if it has loaded the value  *)
(* it was going to write.  What makes the invariants inductive is that, as *)
(* long as nothing has crossed, everybody at work writes the same to that  *)
(* column, so that the value is there still.                               *)
(***************************************************************************)
EXTENDS PaymentNotificationsProofs

\* What a handler that carries a status over to the invoice has found done already is
\* still done, unless a status without a row has come to the payment since.
FoundDone ==
  \A h \in Handlers : msg[h] \in DOMAIN InvoiceStatusOf =>
    /\ pc[h] \in {"invoice", "payments", "loaded"} /\ seen[h].invoice = InvoiceStatusOf[msg[h]]
         => db.invoice = InvoiceStatusOf[msg[h]]
    /\ pc[h] \in {"payments", "loaded"} /\ seen[h].payment = msg[h]
         => db.payment \in {msg[h], "OTHER"}

PaymentAndInvoice ==
  db.payment \in DOMAIN InvoiceStatusOf => db.invoice = InvoiceStatusOf[db.payment]

NoneCross == \A g, h \in Handlers : ~(Busy(g, "AUTHORIZED") /\ Busy(h, "CONFIRMED"))

CrossInv == ~crossed => NoneCross /\ FoundDone /\ PaymentAndInvoice

\* PAID is what a confirmation leaves, and nobody is late who was not noted down.
PaidInv ==
  /\ db.invoice = "PAID" => "CONFIRMED" \in announced
  /\ "CONFIRMED" \in announced /\ ~late => \A h \in Handlers : ~Busy(h, "AUTHORIZED")
  /\ ~late =>
       /\ "CONFIRMED" \in answered => db.invoice = "PAID"
       /\ \A h \in Handlers :
            seen[h].invoice = "PAID" \/ (pc[h] = "saved" /\ msg[h] = "CONFIRMED")
              => db.invoice = "PAID"

\* Both hold before the order is committed.
LEMMA InitHistory == ASSUME Init PROVE CrossInv /\ PaidInv
BY DEF Init, CrossInv, PaidInv, FoundDone, PaymentAndInvoice, NoneCross, Busy, NewRows,
   InvoiceStatusOf

-----------------------------------------------------------------------------
(* The UPDATEs *)

\* What each status makes of the rows.
LEMMA SaveWrites ==
  ASSUME TypeOK, NEW h \in Handlers, Save(h)
  PROVE  /\ db'.payment = IF msg[h] # seen[h].payment THEN msg[h] ELSE db.payment
         /\ msg[h] = "CONFIRMED" =>
              db'.invoice = IF seen[h].invoice # "PAID" THEN "PAID" ELSE db.invoice
         /\ msg[h] = "AUTHORIZED" =>
              /\ db'.invoice = IF seen[h].invoice # "WAITING" THEN "WAITING" ELSE db.invoice
              /\ db'.order = db.order
         /\ msg[h] = "OTHER" => db'.invoice = db.invoice
<1> DEFINE invoice == IF msg[h] \in DOMAIN InvoiceStatusOf
                      THEN InvoiceStatusOf[msg[h]] ELSE seen[h].invoice
           order   == IF invoice \in DOMAIN OrderStatusOf
                      THEN OrderStatusOf[invoice] ELSE seen[h].order
<1>1. /\ db'.payment = IF msg[h] # seen[h].payment THEN msg[h] ELSE db.payment
      /\ db'.invoice = IF invoice # seen[h].invoice THEN invoice ELSE db.invoice
      /\ db'.order = IF order # seen[h].order THEN order ELSE db.order
  BY DEF Save, Column, Updated
<1>2. /\ msg[h] = "CONFIRMED" => invoice = "PAID"
      /\ msg[h] = "AUTHORIZED" => invoice = "WAITING"
      /\ msg[h] = "OTHER" => invoice = seen[h].invoice
  BY DEF InvoiceStatusOf
<1>3. invoice # "PAID" => order = seen[h].order
  BY DEF OrderStatusOf
<1> HIDE DEF invoice, order
<1>4. QED
  BY <1>1, <1>2, <1>3

-----------------------------------------------------------------------------
(* Payment and invoice *)

\* A commit that nothing has crossed leaves payment and invoice in agreement.
LEMMA SaveAgrees ==
  ASSUME TypeOK, NoneCross, FoundDone, PaymentAndInvoice, NEW h \in Handlers, Save(h)
  PROVE  FoundDone' /\ PaymentAndInvoice'
<1>1. /\ pc[h] = "loaded" /\ pc' = [pc EXCEPT ![h] = "saved"]
      /\ UNCHANGED <<msg, seen>> /\ msg[h] \in Statuses
      /\ pc \in [Handlers -> {"idle", "started", "invoice", "payments", "loaded", "saved"}]
  BY DEF Save, Advance, TypeOK
<1>2. /\ db'.payment = IF msg[h] # seen[h].payment THEN msg[h] ELSE db.payment
      /\ msg[h] = "CONFIRMED" =>
           db'.invoice = IF seen[h].invoice # "PAID" THEN "PAID" ELSE db.invoice
      /\ msg[h] = "AUTHORIZED" =>
           db'.invoice = IF seen[h].invoice # "WAITING" THEN "WAITING" ELSE db.invoice
      /\ msg[h] = "OTHER" => db'.invoice = db.invoice
  BY SaveWrites
<1>3. CASE msg[h] = "OTHER"
  <2>1. db'.invoice = db.invoice /\ db'.payment \in {db.payment, "OTHER"}
    BY <1>2, <1>3
  <2>2. PaymentAndInvoice'
    BY <2>1 DEF PaymentAndInvoice, InvoiceStatusOf
  <2>3. FoundDone'
    BY <1>1, <2>1 DEF FoundDone
  <2>4. QED
    BY <2>2, <2>3
<1>4. CASE msg[h] # "OTHER"
  <2>1. msg[h] \in {"AUTHORIZED", "CONFIRMED"}
    BY <1>1, <1>4 DEF Statuses
  <2>2. /\ seen[h].invoice = InvoiceStatusOf[msg[h]] => db.invoice = InvoiceStatusOf[msg[h]]
        /\ seen[h].payment = msg[h] => db.payment \in {msg[h], "OTHER"}
    BY <1>1, <2>1 DEF FoundDone, InvoiceStatusOf
  <2>3. db'.invoice = InvoiceStatusOf[msg[h]] /\ db'.payment \in {msg[h], "OTHER"}
    BY <1>2, <2>1, <2>2 DEF InvoiceStatusOf
  <2>4. PaymentAndInvoice'
    BY <2>1, <2>3 DEF PaymentAndInvoice, InvoiceStatusOf
  <2>5. ASSUME NEW g \in Handlers, msg[g] \in DOMAIN InvoiceStatusOf, pc[g] # "idle"
        PROVE  msg[g] = msg[h]
    BY <1>1, <2>1, <2>5 DEF NoneCross, Busy, InvoiceStatusOf
  <2>6. FoundDone'
    BY <1>1, <2>3, <2>5 DEF FoundDone
  <2>7. QED
    BY <2>4, <2>6
<1>5. QED
  BY <1>3, <1>4

\* Every step keeps payment and invoice in agreement until something crosses.
LEMMA CrossKeeps ==
  ASSUME TypeOK, CrossInv, Next
  PROVE  CrossInv'
<1> SUFFICES ASSUME ~crossed' PROVE NoneCross' /\ FoundDone' /\ PaymentAndInvoice'
  BY DEF CrossInv
<1>1. ~crossed /\ NoneCross' /\ Step
  BY DEF Next, Remember, NoneCross
<1>2. NoneCross /\ FoundDone /\ PaymentAndInvoice
  BY <1>1 DEF CrossInv
<1>3. CASE CommitOrder \/ \E s \in Statuses : Announce(s)
  BY <1>1, <1>2, <1>3 DEF CommitOrder, Announce, FoundDone, PaymentAndInvoice
<1>4. ASSUME NEW h \in Handlers, NEW s \in Statuses, Deliver(h, s)
      PROVE  FoundDone' /\ PaymentAndInvoice'
  BY <1>2, <1>4 DEF Deliver, Advance, FoundDone, PaymentAndInvoice, TypeOK
<1>5. ASSUME NEW h \in Handlers, LoadInvoice(h) \/ LoadPayments(h) \/ LoadOrder(h)
      PROVE  FoundDone' /\ PaymentAndInvoice'
  BY <1>2, <1>5 DEF LoadInvoice, LoadPayments, LoadOrder, Advance, FoundDone,
     PaymentAndInvoice, TypeOK, Rows
<1>6. ASSUME NEW h \in Handlers, Save(h) PROVE FoundDone' /\ PaymentAndInvoice'
  BY <1>2, <1>6, SaveAgrees
<1>7. ASSUME NEW h \in Handlers, Close(h), UNCHANGED db
      PROVE  FoundDone' /\ PaymentAndInvoice'
  BY <1>2, <1>7 DEF Close, FoundDone, PaymentAndInvoice, InvoiceStatusOf, TypeOK
<1>8. QED
  BY <1>1, <1>3, <1>4, <1>5, <1>6, <1>7
     DEF Step, Handle, MissingInvoice, Answer, Fault

\* While no AUTHORIZED and no CONFIRMED have been handled at the same time, any number
\* of copies of each, of other notifications and of failures leave the invoice in the
\* status PAYMENT_TO_INVOICE_STATUS_MAPPING gives for the payment's.
THEOREM InvoicesFollowPayments == Spec => []InvoiceFollowsPayment
<1>1. TypeOK /\ CrossInv /\ [Next]_vars => CrossInv'
  <2>1. CrossInv /\ UNCHANGED vars => CrossInv'
    BY DEF vars, CrossInv, NoneCross, Busy, FoundDone, PaymentAndInvoice
  <2>2. QED
    BY <2>1, CrossKeeps
<1>2. CrossInv => InvoiceFollowsPayment
  BY DEF CrossInv, PaymentAndInvoice, InvoiceFollowsPayment
<1>3. QED
  BY <1>1, <1>2, InitHistory, TypeCorrect, PTL DEF Spec

-----------------------------------------------------------------------------
(* What becomes of PAID *)

\* A handler leaves PAID as it is, unless it is told of an authorization.
LEMMA SaveOfPaid ==
  ASSUME TypeOK, NEW h \in Handlers, Save(h)
  PROVE  /\ db'.invoice = "PAID" => db.invoice = "PAID" \/ msg[h] = "CONFIRMED"
         /\ db.invoice = "PAID" =>
              \/ db'.invoice = "PAID"
              \/ /\ msg[h] = "AUTHORIZED" /\ db'.invoice = "WAITING" /\ db'.order = db.order
<1>1. msg[h] \in {"AUTHORIZED", "CONFIRMED", "OTHER"}
  BY DEF TypeOK, Statuses
<1>2. QED
  BY <1>1, SaveWrites

\* A commit keeps what is noted of paid invoices.
LEMMA SaveKeepsPaid ==
  ASSUME IInv, PaidInv, NEW h \in Handlers, Save(h), Remember
  PROVE  PaidInv'
<1> USE DEF PaidInv
<1>1. /\ pc[h] = "loaded" /\ pc' = [pc EXCEPT ![h] = "saved"]
      /\ UNCHANGED <<msg, seen, announced, answered>>
      /\ pc \in [Handlers -> {"idle", "started", "invoice", "payments", "loaded", "saved"}]
      /\ late => late'
  BY DEF Save, Advance, IInv, TypeOK, Remember
<1>2. /\ db'.invoice = "PAID" => db.invoice = "PAID" \/ msg[h] = "CONFIRMED"
      /\ db.invoice = "PAID" => db'.invoice = "PAID" \/ msg[h] = "AUTHORIZED"
  BY SaveOfPaid DEF IInv
<1>3. Busy(h, msg[h]) /\ msg[h] \in announced
  BY <1>1 DEF IInv, ToldInv, Busy
<1>4. ~late /\ db.invoice = "PAID" => db'.invoice = "PAID"
  BY <1>2, <1>3
<1>5. ~late /\ msg[h] = "CONFIRMED" => db'.invoice = "PAID"
  BY <1>4, SaveWrites DEF IInv
<1>6. "CONFIRMED" \in announced' /\ ~late' => \A g \in Handlers : ~Busy(g, "AUTHORIZED")'
  BY DEF Remember
<1>7. ~late' => \A g \in Handlers :
        seen'[g].invoice = "PAID" \/ (pc'[g] = "saved" /\ msg'[g] = "CONFIRMED")
          => db'.invoice = "PAID"
  BY <1>1, <1>4, <1>5
<1>8. db'.invoice = "PAID" => "CONFIRMED" \in announced'
  BY <1>1, <1>2, <1>3
<1>9. QED
  BY <1>1, <1>4, <1>6, <1>7, <1>8

\* Every step keeps it.
LEMMA PaidKeeps ==
  ASSUME IInv, PaidInv, Next
  PROVE  PaidInv'
<1> USE DEF PaidInv
<1>1. /\ Step /\ Remember
      /\ late => late'
      /\ "CONFIRMED" \in announced' /\ ~late' => \A g \in Handlers : ~Busy(g, "AUTHORIZED")'
      /\ TypeOK
  BY DEF Next, Remember, IInv
<1>2. CASE CommitOrder \/ \E s \in Statuses : Announce(s)
  BY <1>1, <1>2 DEF CommitOrder, Announce
<1>3. ASSUME NEW h \in Handlers, NEW s \in Statuses, Deliver(h, s) PROVE PaidInv'
  BY <1>1, <1>3 DEF Deliver, Advance, TypeOK
<1>4. ASSUME NEW h \in Handlers, LoadInvoice(h) \/ LoadPayments(h) \/ LoadOrder(h)
      PROVE  PaidInv'
  BY <1>1, <1>4 DEF LoadInvoice, LoadPayments, LoadOrder, Advance, TypeOK, Rows
<1>5. ASSUME NEW h \in Handlers, Save(h) PROVE PaidInv'
  BY <1>1, <1>5, SaveKeepsPaid
<1>6. ASSUME NEW h \in Handlers, Close(h), UNCHANGED <<db, announced>>,
             answered' = answered \/ (pc[h] = "saved" /\ answered' = answered \cup {msg[h]})
      PROVE  PaidInv'
  <2>1. ~late' => ("CONFIRMED" \in answered' => db'.invoice = "PAID")
    BY <1>1, <1>6
  <2>2. ~late' => \A g \in Handlers :
          seen'[g].invoice = "PAID" \/ (pc'[g] = "saved" /\ msg'[g] = "CONFIRMED")
            => db'.invoice = "PAID"
    BY <1>1, <1>6 DEF Close, TypeOK, NewRows
  <2>3. QED
    BY <1>1, <1>6, <2>1, <2>2
<1>7. QED
  BY <1>1, <1>2, <1>3, <1>4, <1>5, <1>6 DEF Step, Handle, MissingInvoice, Answer, Fault

\* What is noted of paid invoices holds in every state.
LEMMA PaidInvHolds == Spec => []PaidInv
<1>1. IInv /\ PaidInv /\ [Next]_vars => PaidInv'
  <2>1. PaidInv /\ UNCHANGED vars => PaidInv'
    BY DEF vars, PaidInv, Busy
  <2>2. QED
    BY <2>1, PaidKeeps
<1>2. QED
  BY <1>1, InitHistory, InvariantHolds, PTL DEF Spec

\* However many handlers there are, a confirmation that was answered has left a PAID
\* invoice if update_payment_status has met no AUTHORIZED that was late.
THEOREM AnsweredIsPaid == Spec => []PaidUnlessLate
<1>1. PaidInv => PaidUnlessLate
  BY DEF PaidInv, PaidUnlessLate
<1>2. QED
  BY <1>1, PaidInvHolds, PTL

\* Only an update_payment_status of a late AUTHORIZED takes PAID back; it leaves the
\* invoice WAITING and its order ACCEPTED.
THEOREM PaidYields == Spec => PaidYieldsOnlyToAuthorized
<1> DEFINE Yields ==
      db.invoice = "PAID" /\ db'.invoice # "PAID" =>
        /\ late /\ \E h \in Handlers : Busy(h, "AUTHORIZED")
        /\ db' = [db EXCEPT !.payment = db'.payment, !.invoice = "WAITING"]
        /\ db.order = "ACCEPTED"
<1>1. IInv /\ PaidInv /\ Next => Yields
  <2> SUFFICES ASSUME IInv, PaidInv, Next, db.invoice = "PAID", db'.invoice # "PAID"
               PROVE  /\ late /\ \E h \in Handlers : Busy(h, "AUTHORIZED")
                      /\ db' = [db EXCEPT !.payment = db'.payment, !.invoice = "WAITING"]
                      /\ db.order = "ACCEPTED"
    OBVIOUS
  <2>1. PICK h \in Handlers : Save(h)
    BY DEF Next, Step, CommitOrder, Announce, Deliver, Handle, LoadInvoice, LoadPayments,
       LoadOrder, MissingInvoice, Answer, Fault
  <2>2. msg[h] = "AUTHORIZED" /\ db'.invoice = "WAITING" /\ db'.order = db.order
    BY <2>1, SaveOfPaid DEF IInv
  <2>3. Busy(h, "AUTHORIZED")
    BY <2>1, <2>2 DEF Save, Advance, Busy
  <2>4. late
    BY <2>3 DEF PaidInv, IInv, TypeOK
  <2>5. db.order = "ACCEPTED"
    BY DEF IInv, PaidMeansAccepted
  <2>6. db' \in Rows /\ db \in Rows
    BY <2>1, SaveType DEF IInv, TypeOK
  <2>7. db' = [db EXCEPT !.payment = db'.payment, !.invoice = "WAITING"]
    BY <2>2, <2>6 DEF Rows
  <2>8. QED
    BY <2>3, <2>4, <2>5, <2>7
<1>2. IInv /\ PaidInv /\ [Next]_vars => [Yields]_vars
  BY <1>1
<1>3. QED
  BY <1>2, InvariantHolds, PaidInvHolds, PTL DEF Spec, PaidYieldsOnlyToAuthorized
=============================================================================
