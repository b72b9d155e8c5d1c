CONSTANTS
  k1 = k1
  k2 = k2
  b1 = b1
  b2 = b2
  s1 = s1
  p1 = p1
  p2 = p2
  c1 = c1
  c2 = c2
  None = None
  maxEntries = 1
  Key <- MCKey
  Body <- MCBody
  Session <- MCSession
  Process <- MCProcess
  Call <- MCCall

SPECIFICATION Spec
SYMMETRY Symmetric

INVARIANT AppliedAtMostOnce
INVARIANT SuccessMeansApplied
INVARIANT RefusalMeansNotDone
INVARIANT SlotsComeBack
