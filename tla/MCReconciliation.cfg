SPECIFICATION ReconciliationSpec
CONSTANTS
  r1 = r1
  r2 = r2
  c1 = c1
  c2 = c2
  Null = Null
  Expectation = {1, 2}
  Line = {1, 2}
  Ref = {r1, r2}
  Terms <- MCTerms
  Report <- MCReport
  Caller = {c1, c2}
INVARIANTS
  OneRunPerInput
  LosersFindTheWinner
  EveryRowIsAccountedFor
SYMMETRY Symmetric
CHECK_DEADLOCK FALSE
