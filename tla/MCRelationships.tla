------------------------- MODULE MCRelationships -------------------------
\* Two people who sign up and invite each other from one address, two rows for
\* one pair, two invitations and two overlapping calls of the action routes.
EXTENDS Invitations, TLC

CONSTANTS ana, beto, r1, r2, c1, c2, i1, i2, home

MCPerson     == {ana, beto}
MCRel        == {r1, r2}
MCCall       == {c1, c2}
MCInvitation == {i1, i2}
MCIp         == {home}
MCMax        == [user |-> 1, ip |-> 2]

Symmetric ==
  Permutations(MCCall) \cup Permutations(MCPerson) \cup Permutations(MCRel)
    \cup Permutations(MCInvitation)
=============================================================================
