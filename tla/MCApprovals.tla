---------------------------- MODULE MCApprovals ----------------------------
\* Two calls of approveAndRecord, statement by statement, and two calls of
\* resolve() for one request, with one call that moves the transaction.
EXTENDS Approvals, TLC

CONSTANTS r1, c1, c2, m1, p1, p2, ana, beto, why

MCRequest  == {r1}
MCCaller   == {c1, c2}
MCMover    == {m1}
MCRecorder == {p1, p2}
MCResolver == {ana, beto}
MCReason   == {why}
MCSymmetry == Permutations(MCCaller) \cup Permutations(MCRecorder)
=============================================================================
