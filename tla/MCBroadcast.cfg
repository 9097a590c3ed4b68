SPECIFICATION LiveSpec
CONSTANTS
  e1 = e1
  e2 = e2
  Last = 3
  Expanders = {e1, e2}
  Broken = {2}
  SnapshotBatch = 2
  ClaimBatch = 1
  MaxTries = 2
  MaxTroubles = 1
CHECK_DEADLOCK FALSE
INVARIANT RecipientsAreSound
INVARIANT ChargedOnce
PROPERTY EndsForGood
