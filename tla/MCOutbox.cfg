CONSTANTS
  maxEntries = 3
  maxKills = 2
  maxFailures = 2
  Apps <- EveryApp

SPECIFICATION FairSpec

INVARIANT KeptByCarefulApp
INVARIANT InComposeOrder
PROPERTY RemovedForGood
PROPERTY EventuallySent

CHECK_DEADLOCK FALSE
