-------------------------- MODULE MCTransactions --------------------------
\* Requests, their routes and transactions together, on one request of two
\* people: two calls of routes that resolve it and two calls that move the
\* transaction, overlapping in every way.
EXTENDS RequestRoutes, TLC

CONSTANTS r1, c1, c2, m1, m2, ana, beto, why

MCRequest  == {r1}
MCCaller   == {c1, c2}
MCMover    == {m1, m2}
MCResolver == {ana, beto}
MCReason   == {why}
MCSender    == [r \in MCRequest |-> ana]
MCRecipient == [r \in MCRequest |-> beto]
MCSymmetry == Permutations(MCCaller) \cup Permutations(MCMover)
=============================================================================
