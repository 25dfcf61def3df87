SPECIFICATION Spec
CONSTANTS
  Children = {1}
  Tariffs = {t1, t2, t3}
  Price <- MCPrice
  t1 = t1
  t2 = t2
  t3 = t3
  NoTariff = NoTariff
  Days = {0, 1}
  NoCharge = NoCharge
  Runs = {r1, r2}
  Requests = {q1}
  Keys = {k1}
  NoKey = NoKey
  NoRun = NoRun
  Editors = {e1}
  NoChild = NoChild
  ManualOnly = {"closed"}
SYMMETRY Alike
INVARIANTS BilledAsAttended
PROPERTIES ChargedAsPreviewed BillsOnce
