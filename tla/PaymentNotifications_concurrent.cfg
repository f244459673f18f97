\* Two handlers at once, notifications overtaking each other, bounded failures
\* and lost answers; the bank retries.
SPECIFICATION FairSpec
CONSTANTS
  Handlers = {h1, h2}
  MaxFaults = 2
INVARIANTS
  TypeOK
  AcceptedOnlyIfConfirmed
  PaidMeansAccepted
  AnsweredMeansAccepted
  PaidUnlessLate
  InvoiceFollowsPayment
PROPERTIES
  ConfirmedIsAccepted
  ImplementsLifecycle
  PaidYieldsOnlyToAuthorized
CHECK_DEADLOCK FALSE
