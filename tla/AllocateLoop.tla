---------------------------- MODULE AllocateLoop ----------------------------
(***************************************************************************)
(* The two nested loops of allocateCredit, one iteration at a time.        *)
(* Module Ledger uses their result, given by Money!Common for each payment *)
(* and charge; here the loops themselves are shown to compute it.          *)
(***************************************************************************)
EXTENDS Money

CONSTANTS
  NPayments,  \* payments of the child, oldest first
  NCharges,   \* charges with something outstanding, oldest first
  MaxAmount   \* bound on the amounts

ASSUME LoopConstants ==
  NPayments \in Nat /\ NCharges \in Nat /\ MaxAmount \in Nat

VARIABLES
  available,    \* available tiyin of each payment, as queried
  outstanding,  \* outstanding tiyin of each charge, as queried
  payment,      \* the payment of the outer loop
  charge,       \* the charge of the inner loop
  left,         \* `available` of the payment, as the inner loop reduces it
  owed,         \* `charge.amount`, as the loops reduce it
  given         \* rows of payment_allocation created

vars == <<available, outstanding, payment, charge, left, owed, given>>

Payments == 1..NPayments
Charges == 1..NCharges

\* A payment may be overspent, so available may be negative; the query keeps
\* the charges with outstanding_tiyin > 0.
Init ==
  /\ available \in [Payments -> -1..MaxAmount]
  /\ outstanding \in [Charges -> 1..MaxAmount]
  /\ payment = 1
  /\ charge = 1
  /\ left = IF NPayments > 0 THEN available[1] ELSE 0
  /\ owed = outstanding
  /\ given = [p \in Payments |-> [c \in Charges |-> 0]]

Done == payment > NPayments

\* The inner loop ended, or broke off because the payment has nothing left.
NextPayment ==
  /\ ~Done
  /\ charge > NCharges \/ left <= 0
  /\ payment' = payment + 1
  /\ charge' = 1
  /\ left' = IF payment < NPayments THEN available[payment + 1] ELSE 0
  /\ UNCHANGED <<available, outstanding, owed, given>>

\* if (amount <= 0n) continue
SkipPaidCharge ==
  /\ ~Done
  /\ charge <= NCharges /\ left > 0
  /\ owed[charge] <= 0
  /\ charge' = charge + 1
  /\ UNCHANGED <<available, outstanding, payment, left, owed, given>>

\* MUTANT: does not note in charge.amount what the charge was given.
GiveUnnoted ==
  /\ ~Done
  /\ charge <= NCharges /\ left > 0
  /\ owed[charge] > 0
  /\ LET amount == Lesser(left, owed[charge])
     IN /\ given' = [given EXCEPT ![payment][charge] = @ + amount]
        /\ left' = left - amount
  /\ charge' = charge + 1
  /\ UNCHANGED <<available, outstanding, payment, owed>>

Give ==
  /\ ~Done
  /\ charge <= NCharges /\ left > 0
  /\ owed[charge] > 0
  /\ LET amount == Lesser(left, owed[charge])
     IN /\ given' = [given EXCEPT ![payment][charge] = @ + amount]
        /\ left' = left - amount
        /\ owed' = [owed EXCEPT ![charge] = @ - amount]
  /\ charge' = charge + 1
  /\ UNCHANGED <<available, outstanding, payment>>

Next == NextPayment \/ SkipPaidCharge \/ Give

Spec == Init /\ [][Next]_vars

-----------------------------------------------------------------------------
TypeOK ==
  /\ available \in [Payments -> -1..MaxAmount]
  /\ outstanding \in [Charges -> 1..MaxAmount]
  /\ payment \in 1..(NPayments + 1)
  /\ charge \in 1..(NCharges + 1)
  /\ left \in -1..MaxAmount
  /\ owed \in [Charges -> 0..MaxAmount]
  /\ given \in [Payments -> [Charges -> 0..MaxAmount]]

Money(p) == AtLeastZero(available[p])

\* At every iteration, what a payment gave a charge that the loops have passed
\* is the stretch their money and debt have in common when both are lined up
\* oldest first, and the others have nothing yet: when the loops end, this is
\* the table of Money!Common that module Ledger allocates by.
GivesCommonStretch ==
  \A p \in Payments, c \in Charges :
    given[p][c] =
      IF p < payment \/ (p = payment /\ c < charge)
      THEN Common(Total([q \in Payments |-> Money(q)], 1..(p - 1)), Money(p),
                  Total(outstanding, 1..(c - 1)), outstanding[c])
      ELSE 0
=============================================================================
