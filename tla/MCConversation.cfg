CONSTANTS
  k1 = k1
  c1 = c1
  c2 = c2
  c3 = c3
  t1 = t1
  Null = Null
  ttlMinutes = 1
  maxNow = 2
  Talk <- MCTalk
  Call <- MCCall
  Proposal <- MCProposal

SPECIFICATION Spec
SYMMETRY Symmetric

INVARIANT EachQuestionClosesOnce
INVARIANT ClosedByItsDeadline
INVARIANT EvidenceAnswersAnArrivalCheck

CHECK_DEADLOCK FALSE
