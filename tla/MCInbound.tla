----------------------------- MODULE MCInbound -----------------------------
\* Two messages, one of them a reply, two deliveries to the route and three calls
\* of the durable claim.
EXTENDS Inbound, TLC

CONSTANTS reply, status, r1, r2, c1, c2, c3

MCMessage == {reply, status}
MCReplied == {reply}
MCRequest == {r1, r2}
MCClaim   == {c1, c2, c3}
=============================================================================
