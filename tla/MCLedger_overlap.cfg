SPECIFICATION Spec
CONSTANTS
  Clerks = {k1}
  NoTx = NoTx
  Amounts = {1, 2}
  Times = {1}
  Now = 1
  Periods = {1}
  MaxCharges = 3
  MaxPayments = 2
  ManualPicks <- NoPicks
  Overlap = TRUE
INVARIANTS NoOverAllocation
CHECK_DEADLOCK FALSE
