---------------------------- MODULE MCBillingRun ----------------------------
\* Small instances of BillingRun for TLC.
EXTENDS BillingRun, TLC

CONSTANTS t1, t2, t3

\* t1 and t2 charge the same, t3 charges more.
MCPrice == [t \in Tariffs |-> IF t = t3 THEN 2 ELSE 1]

Alike == Permutations({t1, t2} \cap Tariffs) \cup Permutations(Runs)
         \cup Permutations(Requests) \cup Permutations(Keys)
=============================================================================
