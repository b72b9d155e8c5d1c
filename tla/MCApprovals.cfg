CONSTANTS
  r1 = r1
  c1 = c1
  c2 = c2
  m1 = m1
  p1 = p1
  p2 = p2
  ana = ana
  beto = beto
  why = why
  NoRow = NoRow
  Null = Null
  Request <- MCRequest
  Caller <- MCCaller
  Mover <- MCMover
  Recorder <- MCRecorder
  Resolver <- MCResolver
  Reason <- MCReason

SPECIFICATION ApprovalsSpec
SYMMETRY MCSymmetry

INVARIANT KeyRaceNeverFires
PROPERTY ImplementsTransactions
