CONSTANTS
  c1 = c1
  c2 = c2
  k1 = k1
  k2 = k2
  None = None
  Caller <- MCCaller
  Key <- MCKey
  Account <- MCAccount
  AccountCurrency <- MCCurrency
  Request <- MCRequest
  MAX_COLLISION_ATTEMPTS = 3
  MaxRetries = 1
  MaxSeq = 4
  AccountType <- MCType

SPECIFICATION Spec

SYMMETRY MCSymmetry

INVARIANT LosersReplay
INVARIANT BooksBalance
PROPERTY ImplementsLedgerSpec
