SPECIFICATION Spec
CONSTANTS
  Clerks = {k1}
  NoTx = NoTx
  Amounts = {1, 2}
  Times = {1, 2}
  Now = 2
  Periods = {1, 2}
  MaxCharges = 3
  MaxPayments = 1
  ManualPicks <- NoPicks
  Overlap = FALSE
PROPERTIES OldestFirst ClosedPeriodFrozen RecalculationExact
CHECK_DEADLOCK FALSE
