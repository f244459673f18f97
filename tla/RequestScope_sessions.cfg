\* Two requests, which may send the same id.
SPECIFICATION Spec
CONSTANTS
  Requests = {r1, r2}
  HeaderIds = {id}
  Statements = 2
  NoTrace = NoTrace
INVARIANTS
  TypeOK
  AllOrNothing
  AnswerIsTrue
  NoSessionLeft
PROPERTY ImplementsTransactions
SYMMETRY RequestSymmetry
CHECK_DEADLOCK FALSE
