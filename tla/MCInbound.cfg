CONSTANTS
  reply = reply
  status = status
  r1 = r1
  r2 = r2
  c1 = c1
  c2 = c2
  c3 = c3
  Message <- MCMessage
  Replied <- MCReplied
  Request <- MCRequest
  Claim <- MCClaim

SPECIFICATION InboundFairSpec

INVARIANT ExactlyOnce
PROPERTY EventuallyProcessed
