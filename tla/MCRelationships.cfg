CONSTANTS
  ana = ana
  beto = beto
  r1 = r1
  r2 = r2
  c1 = c1
  c2 = c2
  i1 = i1
  i2 = i2
  home = home
  Null = Null
  WINDOW = 0
  maxNow = 1
  windowMs = 1
  max <- MCMax
  Person <- MCPerson
  Rel <- MCRel
  Call <- MCCall
  Invitation <- MCInvitation
  Ip <- MCIp

SPECIFICATION InvitationsSpec
SYMMETRY Symmetric

INVARIANT HistoryIsAPath
INVARIANT AcceptedInTime
INVARIANT OneLivePerPair
INVARIANT SidesHaveTheirRoles
INVARIANT LimitsHold

CHECK_DEADLOCK FALSE
