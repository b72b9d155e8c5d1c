----------------------------- MODULE MCOutbox -----------------------------
\* Outbox with the bounds of the cfg file: three entries, so that a drain has
\* entries before and after the one it sends, two kills and two failures of the
\* storage.
EXTENDS Outbox

EveryApp == SUBSET {"overlaps", "goes on"}
=============================================================================
