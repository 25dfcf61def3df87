SPECIFICATION Spec
CONSTANTS
  Children = {1, 2}
  Tariffs = {t1}
  Price <- MCPrice
  t1 = t1
  t2 = t2
  t3 = t3
  NoTariff = NoTariff
  Days = {0}
  NoCharge = NoCharge
  Runs = {r1, r2}
  Requests = {q1, q2}
  Keys = {k1, k2}
  NoKey = NoKey
  NoRun = NoRun
  Editors = {}
  NoChild = NoChild
  ManualOnly = {}
SYMMETRY Alike
INVARIANTS CommitsNeverDeadlock ReplayIsHonest
