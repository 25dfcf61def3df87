SPECIFICATION Spec
CONSTANTS
  Clerks = {k1, k2}
  NoTx = NoTx
  Amounts = {1, 2}
  Times = {1}
  Now = 1
  Periods = {1}
  MaxCharges = 3
  MaxPayments = 2
  ManualPicks <- OneOrTwoPicks
  Overlap = FALSE
SYMMETRY ClerkSymmetry
INVARIANTS NoOverAllocation NoOverSpend
PROPERTIES OutstandingIsDebt
CHECK_DEADLOCK FALSE
