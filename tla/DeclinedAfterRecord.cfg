CONSTANTS
  r1 = r1
  c1 = c1
  c2 = c2
  m1 = m1
  m2 = m2
  ana = ana
  beto = beto
  why = why
  NoRow = NoRow
  Null = Null
  Request <- MCRequest
  Caller <- MCCaller
  Mover <- MCMover
  Resolver <- MCResolver
  Reason <- MCReason
  user_a <- MCSender
  user_b <- MCRecipient

SPECIFICATION RoutesSpec
SYMMETRY MCSymmetry

INVARIANT DeclinedHasNoTransaction

CHECK_DEADLOCK FALSE
