SPECIFICATION FairSpec
CONSTANTS
  Notes = {1}
  Announced = {1}
  Callers = {c1, c2}
  NoNote = NoNote
  Slots = {k1, k2}
  RetryLimit = 1
  DefaultLimit = 1
  SweepBatch = 1
  MaxUnknown = 1
  MaxLost = 1
  MaxLimited = 1
  MaxRequeued = 1
INVARIANTS DeliveredOnce
PROPERTIES NothingAfterSettled EveryRowSettled
