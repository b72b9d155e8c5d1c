SPECIFICATION Spec
CONSTANTS
  phone = phone
  ip = ip
  c1 = c1
  c2 = c2
  v1 = v1
  v2 = v2
  v3 = v3
  w1 = w1
  Null = Null
  Phone <- MCPhone
  Ip <- MCIp
  Challenge <- MCChallenge
  Verifier <- MCVerifier
  Revoker <- MCRevoker
  MaxAttempts = 2
  maxFailures = 2
  codeTtl = 1
  sessionTtl = 1
  lockout = 1
  window = 1
  requestPerPhone = 2
  requestPerIp = 2
  verifyPerPhone = 3
  verifyPerIp = 3
  maxHits = 2
  maxNow = 1
SYMMETRY Symmetry
INVARIANT GuessesAreBounded
INVARIANT OneLiveSession
PROPERTY OpensOnlyLive
PROPERTY TokensStayDead
CHECK_DEADLOCK FALSE
