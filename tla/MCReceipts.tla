---------------------------- MODULE MCReceipts ----------------------------
\* Receipts on a small instance: two keys, two bodies and two processes whose
\* maps hold one entry each, so that they fill up.  The two requests in flight
\* come back with another key or body when they have been answered.
\* The members of every set are interchangeable.
EXTENDS Receipts, TLC

CONSTANTS k1, k2, b1, b2, s1, p1, p2, c1, c2

MCKey     == {k1, k2}
MCBody    == {b1, b2}
MCSession == {s1}
MCProcess == {p1, p2}
MCCall    == {c1, c2}

Symmetric == Permutations(MCCall) \cup Permutations(MCProcess) \cup Permutations(MCBody)
               \cup Permutations(MCKey)
=============================================================================
