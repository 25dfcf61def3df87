------------------------------ MODULE MCLedger ------------------------------
\* Small instances of Ledger for TLC.
EXTENDS Ledger, TLC

\* One or two allocations chosen by hand, of one tiyin each.
OneOrTwoPicks ==
  LET pick == [charge : 1..2, amount : {1}]
  IN {<<p>> : p \in pick} \cup {<<p, q>> : p \in pick, q \in pick}

NoPicks == {}

ClerkSymmetry == Permutations(Clerks)
=============================================================================
