----------------------------- MODULE MoneyProofs -----------------------------
(***************************************************************************)
(* Proofs about how money is counted.                                      *)
(*                                                                         *)
(* Module AllocateLoop: for any number of payments and charges and any     *)
(* amounts, the nested loops give each payment and charge exactly the      *)
(* stretch that Money!Common says they have in common.                     *)
(*                                                                         *)
(* Module Bill: for any month, prices, discounts, rule sets and edits, a   *)
(* stored charge recomputes to the amount it was stored with as long as    *)
(* the attendance it was computed from is what it was.                     *)
(*                                                                         *)
(* The windows of a month are the days the child was enrolled; the dry run *)
(* and the billing run agree; and a month divided between assignments of   *)
(* one price costs what it costs undivided, up to rounding.  These rest on *)
(* an invariant of the rows a child has (BillInv), on what the folds of    *)
(* module Charge compute, shown by induction over the parts of a finite    *)
(* set, and on the arithmetic of divRound and of discounts.                *)
(***************************************************************************)
EXTENDS MCMoney, MoneyTheorems, Sequences

-----------------------------------------------------------------------------
\* The loops of allocateCredit.

\* Where the money of payment p and the debt of charge c start when both are
\* lined up, oldest first.
MoneyOf == [q \in Payments |-> Money(q)]
Before(p) == Total(MoneyOf, 1..(p - 1))
DebtBefore(c) == Total(outstanding, 1..(c - 1))

\* What lies beyond x of the stretch of length n that starts at a.
Beyond(a, n, x) == a + n - Greater(a, Lesser(x, a + n))

\* Payments up to this unit of money have been through charge c.
Reached(c) ==
  IF payment <= NPayments /\ c < charge THEN Before(payment) + Money(payment)
  ELSE Before(payment)

\* The inductive invariant.  The table alone says nothing of the next
\* iteration: what is left of the payment is what lies beyond the debts it has
\* been through, and what a charge is owed lies beyond the money that has been
\* through it.
LoopInv ==
  /\ TypeOK
  /\ payment <= NPayments => AtLeastZero(left) = Beyond(Before(payment), Money(payment), DebtBefore(charge))
  /\ \A c \in Charges : owed[c] = Beyond(DebtBefore(c), outstanding[c], Reached(c))
  /\ GivesCommonStretch

-----------------------------------------------------------------------------
\* A table of naturals lined up.
LEMMA LinedUp ==
  ASSUME NEW n \in Nat, NEW f, \A x \in 1..n : f[x] \in Nat
  PROVE  /\ Total(f, 1..0) = 0
         /\ \A x \in 1..(n + 1) : Total(f, 1..(x - 1)) \in Nat
         /\ \A x \in 1..n : Total(f, 1..((x + 1) - 1)) = Total(f, 1..(x - 1)) + f[x]
         /\ \A x, y \in 1..(n + 1) : x <= y => Total(f, 1..(x - 1)) <= Total(f, 1..(y - 1))
<1>1. Total(f, 1..0) = 0
  BY TotalZero
<1>2. ASSUME NEW x \in 1..(n + 1) PROVE IsFiniteSet(1..(x - 1)) /\ \A y \in 1..(x - 1) : f[y] \in Nat
  BY UpTo
<1>3. ASSUME NEW x \in 1..(n + 1) PROVE Total(f, 1..(x - 1)) \in Nat
  BY <1>2, TotalType
<1>4. ASSUME NEW x \in 1..n PROVE Total(f, 1..((x + 1) - 1)) = Total(f, 1..(x - 1)) + f[x]
  <2> DEFINE S == 1..(x - 1)
  <2>1. 1..((x + 1) - 1) = S \cup {x} /\ x \notin S
    OBVIOUS
  <2>2. IsFiniteSet(S) /\ (\A y \in S : f[y] \in Nat) /\ f[x] \in Nat
    BY <1>2
  <2> HIDE DEF S
  <2>3. Total(f, S \cup {x}) = Total(f, S) + f[x]
    BY <2>1, <2>2, TotalAddRow
  <2>4. QED
    BY <2>1, <2>3 DEF S
<1>5. ASSUME NEW x \in 1..(n + 1), NEW y \in 1..(n + 1), x <= y
      PROVE  Total(f, 1..(x - 1)) <= Total(f, 1..(y - 1))
  <2>1. 1..(x - 1) \subseteq 1..(y - 1)
    BY <1>5
  <2>2. IsFiniteSet(1..(y - 1)) /\ \A z \in 1..(y - 1) : f[z] \in Nat
    BY <1>2
  <2>3. QED
    BY <2>1, <2>2, TotalMonotone
<1>6. QED
  BY <1>1, <1>3, <1>4, <1>5

\* The payments and the charges lined up.
LEMMA Lines ==
  ASSUME TypeOK
  PROVE  /\ Before(1) = 0 /\ DebtBefore(1) = 0
         /\ \A p \in 1..(NPayments + 1) : Before(p) \in Nat
         /\ \A c \in 1..(NCharges + 1) : DebtBefore(c) \in Nat
         /\ \A p \in Payments : Money(p) \in Nat /\ Before(p + 1) = Before(p) + Money(p)
         /\ \A c \in Charges : /\ outstanding[c] \in Nat /\ outstanding[c] > 0
                               /\ DebtBefore(c + 1) = DebtBefore(c) + outstanding[c]
         /\ \A c, e \in 1..(NCharges + 1) : c <= e => DebtBefore(c) <= DebtBefore(e)
<1>1. NPayments \in Nat /\ NCharges \in Nat /\ MaxAmount \in Nat
  BY LoopConstants
<1>2. \A p \in 1..NPayments : Money(p) \in Nat /\ MoneyOf[p] = Money(p)
  BY <1>1 DEF TypeOK, Money, MoneyOf, AtLeastZero, Payments
<1>3. \A c \in 1..NCharges : outstanding[c] \in Nat /\ outstanding[c] > 0
  BY <1>1 DEF TypeOK, Charges
<1>4. /\ Total(MoneyOf, 1..0) = 0
      /\ \A x \in 1..(NPayments + 1) : Total(MoneyOf, 1..(x - 1)) \in Nat
      /\ \A x \in 1..NPayments : Total(MoneyOf, 1..((x + 1) - 1)) = Total(MoneyOf, 1..(x - 1)) + MoneyOf[x]
  BY <1>1, <1>2, LinedUp
<1>5. /\ Total(outstanding, 1..0) = 0
      /\ \A x \in 1..(NCharges + 1) : Total(outstanding, 1..(x - 1)) \in Nat
      /\ \A x \in 1..NCharges :
           Total(outstanding, 1..((x + 1) - 1)) = Total(outstanding, 1..(x - 1)) + outstanding[x]
      /\ \A x, y \in 1..(NCharges + 1) :
           x <= y => Total(outstanding, 1..(x - 1)) <= Total(outstanding, 1..(y - 1))
  BY <1>1, <1>3, LinedUp
<1>6. 1 - 1 = 0
  OBVIOUS
<1>7. QED
  BY <1>2, <1>3, <1>4, <1>5, <1>6 DEF Before, DebtBefore, Payments, Charges

-----------------------------------------------------------------------------
\* Before the first iteration nothing has been given.
LEMMA LoopInit ==
  ASSUME Init
  PROVE  LoopInv
<1>1. NPayments \in Nat /\ NCharges \in Nat /\ MaxAmount \in Nat
  BY LoopConstants
<1>2. TypeOK
  BY <1>1, SMTT(30) DEF Init, TypeOK, Payments, Charges
<1>3. payment <= NPayments => AtLeastZero(left) = Beyond(Before(payment), Money(payment), DebtBefore(charge))
  <2>1. Before(1) = 0 /\ DebtBefore(1) = 0 /\ \A p \in Payments : Money(p) \in Nat
    BY <1>2, Lines
  <2>2. SUFFICES ASSUME payment <= NPayments
                 PROVE  AtLeastZero(left) = Beyond(0, Money(1), 0)
    BY <2>1 DEF Init
  <2>3. left = available[1] /\ 1 \in Payments
    BY <1>1, <2>2 DEF Init, Payments
  <2>4. QED
    BY <2>1, <2>3 DEF Money, Beyond, Greater, Lesser
<1>4. \A c \in Charges : owed[c] = Beyond(DebtBefore(c), outstanding[c], Reached(c))
  <2>1. /\ Before(1) = 0
        /\ \A c \in Charges : outstanding[c] \in Nat /\ DebtBefore(c) \in Nat
    BY <1>1, <1>2, Lines DEF Charges
  <2>2. \A c \in Charges : Reached(c) = 0
    BY <1>1, <2>1 DEF Init, Reached, Charges
  <2>3. QED
    BY <2>1, <2>2 DEF Init, Beyond, Greater, Lesser
<1>5. GivesCommonStretch
  BY <1>1 DEF Init, GivesCommonStretch, Payments, Charges
<1>6. QED
  BY <1>2, <1>3, <1>4, <1>5 DEF LoopInv

\* What a step of the loops does not change.
LEMMA SameLines ==
  ASSUME UNCHANGED <<available, outstanding>>
  PROVE  /\ \A p : Before(p)' = Before(p) /\ Money(p)' = Money(p)
         /\ \A c : DebtBefore(c)' = DebtBefore(c)
         /\ Before(payment)' = Before(payment') /\ Money(payment)' = Money(payment')
         /\ DebtBefore(charge)' = DebtBefore(charge')
BY DEF Before, MoneyOf, Money, DebtBefore

\* The table by the names above, now and after a step.
LEMMA GivenTable ==
  /\ GivesCommonStretch <=>
       \A p \in Payments, c \in Charges :
         given[p][c] = IF p < payment \/ (p = payment /\ c < charge)
                       THEN Common(Before(p), Money(p), DebtBefore(c), outstanding[c])
                       ELSE 0
  /\ GivesCommonStretch' <=>
       \A p \in Payments, c \in Charges :
         given'[p][c] = IF p < payment' \/ (p = payment' /\ c < charge')
                        THEN Common(Before(p)', Money(p)', DebtBefore(c)', outstanding'[c])
                        ELSE 0
BY DEF GivesCommonStretch, Before, MoneyOf, DebtBefore

-----------------------------------------------------------------------------
\* The arithmetic of one iteration, for a payment of m units from a on and a
\* charge of n units from d on.

\* A payment with nothing left has passed by every later charge.
LEMMA NothingLeft ==
  ASSUME NEW a \in Nat, NEW m \in Nat, NEW b \in Nat, Beyond(a, m, b) = 0,
         NEW d \in Nat, b <= d, NEW n \in Nat
  PROVE  Beyond(d, n, a + m) = Beyond(d, n, a) /\ Common(a, m, d, n) = 0
BY DEF Beyond, Common, AtLeastZero, Greater, Lesser

\* A charge that owes nothing was paid by earlier payments.
LEMMA NothingOwed ==
  ASSUME NEW a \in Nat, NEW m \in Nat, NEW d \in Nat, NEW n \in Nat, n > 0, Beyond(d, n, a) = 0
  PROVE  /\ Beyond(a, m, d + n) = Beyond(a, m, d)
         /\ Beyond(d, n, a + m) = 0
         /\ Common(a, m, d, n) = 0
BY DEF Beyond, Common, AtLeastZero, Greater, Lesser

\* Otherwise the lesser of the two is what they have in common.
LEMMA LesserIsCommon ==
  ASSUME NEW a \in Nat, NEW m \in Nat, NEW d \in Nat, NEW n \in Nat,
         Beyond(a, m, d) > 0, Beyond(d, n, a) > 0
  PROVE  LET amount == Lesser(Beyond(a, m, d), Beyond(d, n, a))
         IN /\ amount = Common(a, m, d, n)
            /\ Beyond(a, m, d) - amount = Beyond(a, m, d + n)
            /\ Beyond(d, n, a) - amount = Beyond(d, n, a + m)
BY DEF Beyond, Common, AtLeastZero, Greater, Lesser

-----------------------------------------------------------------------------
\* The next payment.
LEMMA NextPaymentKeeps ==
  ASSUME LoopInv, NextPayment
  PROVE  LoopInv'
<1>1. NPayments \in Nat /\ NCharges \in Nat /\ MaxAmount \in Nat
  BY LoopConstants
<1> DEFINE p == payment
<1>2. /\ p \in Payments /\ p <= NPayments /\ p \in 1..(NPayments + 1) /\ p + 1 \in 1..(NPayments + 1)
      /\ charge \in 1..(NCharges + 1) /\ left \in Int
  BY <1>1 DEF LoopInv, TypeOK, NextPayment, Done, Payments
<1>3. TypeOK'
  BY <1>1, <1>2 DEF LoopInv, TypeOK, NextPayment, Payments
<1>4. /\ Before(p) \in Nat /\ Money(p) \in Nat /\ Before(p + 1) = Before(p) + Money(p)
      /\ Before(p + 1) \in Nat /\ DebtBefore(1) = 0 /\ DebtBefore(charge) \in Nat
      /\ \A c \in Charges : /\ DebtBefore(c) \in Nat /\ outstanding[c] \in Nat
                            /\ charge <= c => DebtBefore(charge) <= DebtBefore(c)
  BY <1>1, <1>2, Lines DEF LoopInv, Charges
<1>5. /\ \A q : Before(q)' = Before(q) /\ Money(q)' = Money(q)
      /\ \A c : DebtBefore(c)' = DebtBefore(c)
      /\ Before(payment)' = Before(payment') /\ Money(payment)' = Money(payment')
      /\ DebtBefore(charge)' = DebtBefore(charge')
  BY SameLines DEF NextPayment
<1>6. ASSUME NEW c \in Charges, ~(c < charge)
      PROVE  /\ Beyond(DebtBefore(c), outstanding[c], Before(p) + Money(p))
                  = Beyond(DebtBefore(c), outstanding[c], Before(p))
             /\ Common(Before(p), Money(p), DebtBefore(c), outstanding[c]) = 0
  <2>1. left <= 0 /\ charge <= c
    BY <1>1, <1>2, <1>6 DEF NextPayment, Charges
  <2>2. Beyond(Before(p), Money(p), DebtBefore(charge)) = 0
    BY <1>2, <2>1 DEF LoopInv, AtLeastZero
  <2>3. QED
    BY <1>4, <2>1, <2>2, NothingLeft
<1>7. (payment <= NPayments => AtLeastZero(left) = Beyond(Before(payment), Money(payment), DebtBefore(charge)))'
  <2>1. SUFFICES ASSUME p + 1 <= NPayments
                 PROVE  AtLeastZero(available[p + 1]) = Beyond(Before(p + 1), Money(p + 1), DebtBefore(1))
    BY <1>1, <1>2, <1>5 DEF NextPayment
  <2>2. Money(p + 1) \in Nat
    BY <1>1, <1>2, <2>1, Lines DEF LoopInv, Payments
  <2>3. QED
    BY <1>4, <2>2 DEF Money, Beyond, Greater, Lesser
<1>8. ASSUME NEW c \in Charges
      PROVE  (owed[c] = Beyond(DebtBefore(c), outstanding[c], Reached(c)))'
  <2>1. Reached(c)' = Before(p) + Money(p)
    BY <1>1, <1>2, <1>4, <1>5 DEF Reached, NextPayment, Charges
  <2>2. owed[c] = Beyond(DebtBefore(c), outstanding[c], Reached(c))
    BY DEF LoopInv
  <2>3. Reached(c) = IF c < charge THEN Before(p) + Money(p) ELSE Before(p)
    BY <1>2 DEF Reached
  <2>4. QED
    BY <1>5, <1>6, <2>1, <2>2, <2>3 DEF NextPayment
<1>9. GivesCommonStretch'
  <2>1. SUFFICES ASSUME NEW q \in Payments, NEW c \in Charges
                 PROVE  given[q][c] = IF q < p + 1 \/ (q = p + 1 /\ c < 1)
                                      THEN Common(Before(q), Money(q), DebtBefore(c), outstanding[c])
                                      ELSE 0
    BY <1>5, GivenTable DEF NextPayment
  <2>2. given[q][c] = IF q < p \/ (q = p /\ c < charge)
                      THEN Common(Before(q), Money(q), DebtBefore(c), outstanding[c])
                      ELSE 0
    BY GivenTable DEF LoopInv
  <2>3. QED
    BY <1>1, <1>2, <1>6, <2>2 DEF Payments, Charges
<1>10. QED
  BY <1>3, <1>7, <1>8, <1>9 DEF LoopInv

-----------------------------------------------------------------------------
\* The facts an iteration of the inner loop starts from, for payment p and
\* charge e.
LEMMA Iteration ==
  ASSUME LoopInv, ~Done, charge <= NCharges, left > 0
  PROVE  /\ payment \in Payments /\ charge \in Charges
         /\ Before(payment) \in Nat /\ Money(payment) \in Nat
         /\ DebtBefore(charge) \in Nat /\ outstanding[charge] \in Nat /\ outstanding[charge] > 0
         /\ DebtBefore(charge + 1) = DebtBefore(charge) + outstanding[charge]
         /\ left = Beyond(Before(payment), Money(payment), DebtBefore(charge))
         /\ owed[charge] = Beyond(DebtBefore(charge), outstanding[charge], Before(payment))
         /\ given[payment][charge] = 0
         /\ \A c \in Charges : Reached(c) = IF c < charge THEN Before(payment) + Money(payment)
                                            ELSE Before(payment)
<1>1. NPayments \in Nat /\ NCharges \in Nat
  BY LoopConstants
<1>2. payment \in Payments /\ payment <= NPayments /\ charge \in Charges
      /\ payment \in 1..(NPayments + 1) /\ charge \in 1..(NCharges + 1) /\ left \in Int
  BY <1>1 DEF LoopInv, TypeOK, Done, Payments, Charges
<1>3. /\ Before(payment) \in Nat /\ Money(payment) \in Nat
      /\ DebtBefore(charge) \in Nat /\ outstanding[charge] \in Nat /\ outstanding[charge] > 0
      /\ DebtBefore(charge + 1) = DebtBefore(charge) + outstanding[charge]
  BY <1>2, Lines DEF LoopInv
<1>4. left = Beyond(Before(payment), Money(payment), DebtBefore(charge))
  BY <1>2 DEF LoopInv, AtLeastZero
<1>5. \A c \in Charges : Reached(c) = IF c < charge THEN Before(payment) + Money(payment)
                                      ELSE Before(payment)
  BY <1>2 DEF Reached
<1>6. owed[charge] = Beyond(DebtBefore(charge), outstanding[charge], Before(payment))
  <2>1. Reached(charge) = Before(payment)
    BY <1>1, <1>2, <1>5 DEF Charges
  <2>2. QED
    BY <1>2, <2>1 DEF LoopInv
<1>7. given[payment][charge] = 0
  BY <1>1, <1>2, GivenTable DEF LoopInv, Payments, Charges
<1>8. QED
  BY <1>2, <1>3, <1>4, <1>5, <1>6, <1>7

\* What an iteration that gives `amount` owes to the invariant.
LEMMA IterationKeeps ==
  ASSUME LoopInv, ~Done, charge <= NCharges, left > 0, TypeOK',
         UNCHANGED <<available, outstanding, payment>>, charge' = charge + 1,
         left' = Beyond(Before(payment), Money(payment), DebtBefore(charge + 1)),
         owed' = [owed EXCEPT ![charge] =
                    Beyond(DebtBefore(charge), outstanding[charge], Before(payment) + Money(payment))],
         given' = [given EXCEPT ![payment][charge] =
                    Common(Before(payment), Money(payment), DebtBefore(charge), outstanding[charge])]
  PROVE  LoopInv'
<1>1. NPayments \in Nat /\ NCharges \in Nat
  BY LoopConstants
<1>2. /\ payment \in Payments /\ payment <= NPayments /\ charge \in Charges /\ charge \in Int
      /\ owed \in [Charges -> 0..MaxAmount] /\ given \in [Payments -> [Charges -> 0..MaxAmount]]
      /\ left' \in Int
  <2>1. payment \in Payments /\ charge \in Charges
    BY Iteration
  <2>2. payment <= NPayments /\ charge \in Int
    BY <1>1, <2>1 DEF Payments, Charges
  <2>3. owed \in [Charges -> 0..MaxAmount] /\ given \in [Payments -> [Charges -> 0..MaxAmount]]
    BY DEF LoopInv, TypeOK
  <2>4. left' \in Int
    <3>1. left' \in -1..MaxAmount /\ MaxAmount \in Nat
      BY LoopConstants DEF TypeOK
    <3>2. QED
      BY <3>1
  <2>5. QED
    BY <2>1, <2>2, <2>3, <2>4
<1>3. /\ \A q : Before(q)' = Before(q) /\ Money(q)' = Money(q)
      /\ \A c : DebtBefore(c)' = DebtBefore(c)
      /\ Before(payment)' = Before(payment') /\ Money(payment)' = Money(payment')
      /\ DebtBefore(charge)' = DebtBefore(charge')
  BY SameLines
<1>4. (payment <= NPayments => AtLeastZero(left) = Beyond(Before(payment), Money(payment), DebtBefore(charge)))'
  <2>1. left' >= 0
    <3>1. /\ Before(payment) \in Nat /\ Money(payment) \in Nat
          /\ DebtBefore(charge) + outstanding[charge] \in Nat
          /\ DebtBefore(charge + 1) = DebtBefore(charge) + outstanding[charge]
      BY Iteration
    <3>2. QED
      BY <3>1 DEF Beyond, Greater, Lesser
  <2>2. AtLeastZero(left') = left'
    BY <1>2, <2>1 DEF AtLeastZero
  <2>3. QED
    BY <1>3, <2>2
<1>5. ASSUME NEW c \in Charges
      PROVE  (owed[c] = Beyond(DebtBefore(c), outstanding[c], Reached(c)))'
  <2>1. Reached(c)' = IF c < charge + 1 THEN Before(payment) + Money(payment) ELSE Before(payment)
    BY <1>2, <1>3 DEF Reached
  <2>2. Reached(c) = IF c < charge THEN Before(payment) + Money(payment) ELSE Before(payment)
    BY Iteration
  <2>3. owed[c] = Beyond(DebtBefore(c), outstanding[c], Reached(c))
    BY DEF LoopInv
  <2>4. CASE c = charge
    <3>1. Reached(c)' = Before(payment) + Money(payment)
      BY <1>2, <2>1, <2>4
    <3>2. owed'[c] = Beyond(DebtBefore(c), outstanding[c], Before(payment) + Money(payment))
      BY <1>2, <2>4
    <3>3. QED
      BY <1>3, <3>1, <3>2
  <2>5. CASE c # charge
    <3>1. owed'[c] = owed[c]
      BY <1>2, <2>5
    <3>2. Reached(c)' = Reached(c)
      BY <1>1, <1>2, <2>1, <2>2, <2>5 DEF Charges
    <3>3. QED
      BY <1>3, <2>3, <3>1, <3>2
  <2>6. QED
    BY <2>4, <2>5
<1>6. GivesCommonStretch'
  <2>1. SUFFICES ASSUME NEW q \in Payments, NEW c \in Charges
                 PROVE  given'[q][c] = IF q < payment \/ (q = payment /\ c < charge + 1)
                                       THEN Common(Before(q), Money(q), DebtBefore(c), outstanding[c])
                                       ELSE 0
    BY <1>3, GivenTable
  <2>2. given[q][c] = IF q < payment \/ (q = payment /\ c < charge)
                      THEN Common(Before(q), Money(q), DebtBefore(c), outstanding[c])
                      ELSE 0
    BY GivenTable DEF LoopInv
  <2>3. CASE q = payment /\ c = charge
    <3>1. given'[q][c] = Common(Before(q), Money(q), DebtBefore(c), outstanding[c])
      BY <1>2, <2>3
    <3>2. QED
      BY <1>2, <2>3, <3>1
  <2>4. CASE ~(q = payment /\ c = charge)
    <3>1. given'[q][c] = given[q][c]
      BY <1>2, <2>4
    <3>2. (q < payment \/ (q = payment /\ c < charge)) <=> (q < payment \/ (q = payment /\ c < charge + 1))
      BY <1>1, <1>2, <2>4, SMTT(30) DEF Payments, Charges
    <3>3. QED
      BY <2>2, <3>1, <3>2
  <2>5. QED
    BY <2>3, <2>4
<1>7. QED
  BY <1>4, <1>5, <1>6 DEF LoopInv

\* A charge that owes nothing is passed by and given nothing.
LEMMA SkipPaidChargeKeeps ==
  ASSUME LoopInv, SkipPaidCharge
  PROVE  LoopInv'
<1>1. NCharges \in Nat /\ MaxAmount \in Nat
  BY LoopConstants
<1> DEFINE a == Before(payment)
           m == Money(payment)
           d == DebtBefore(charge)
           n == outstanding[charge]
<1>2. /\ payment \in Payments /\ charge \in Charges
      /\ a \in Nat /\ m \in Nat /\ d \in Nat /\ n \in Nat /\ n > 0
      /\ DebtBefore(charge + 1) = d + n /\ left = Beyond(a, m, d)
      /\ owed[charge] = Beyond(d, n, a) /\ given[payment][charge] = 0
  BY Iteration DEF SkipPaidCharge
<1>3. TypeOK'
  <2>1. charge' \in 1..(NCharges + 1)
    BY <1>1, <1>2 DEF SkipPaidCharge, Charges
  <2>2. QED
    BY <2>1 DEF LoopInv, TypeOK, SkipPaidCharge
<1>4. owed[charge] = 0 /\ owed \in [Charges -> 0..MaxAmount]
      /\ given \in [Payments -> [Charges -> 0..MaxAmount]]
  <2>1. /\ owed \in [Charges -> 0..MaxAmount] /\ given \in [Payments -> [Charges -> 0..MaxAmount]]
        /\ owed[charge] <= 0
    BY DEF LoopInv, TypeOK, SkipPaidCharge
  <2>2. owed[charge] \in 0..MaxAmount
    BY <1>2, <2>1
  <2>3. QED
    BY <1>1, <2>1, <2>2
<1>5. Beyond(a, m, d + n) = Beyond(a, m, d) /\ Beyond(d, n, a + m) = 0 /\ Common(a, m, d, n) = 0
  <2>1. Beyond(d, n, a) = 0
    BY <1>2, <1>4
  <2> HIDE DEF a, m, d, n
  <2>2. QED
    BY <1>2, <2>1, NothingOwed
<1>6. /\ left' = Beyond(a, m, DebtBefore(charge + 1))
      /\ owed' = [owed EXCEPT ![charge] = Beyond(d, n, a + m)]
      /\ given' = [given EXCEPT ![payment][charge] = Common(a, m, d, n)]
  BY <1>2, <1>4, <1>5 DEF SkipPaidCharge
<1>7. QED
  BY <1>3, <1>6, IterationKeeps DEF SkipPaidCharge

\* The lesser of what is left and what is owed is given.
LEMMA GiveKeeps ==
  ASSUME LoopInv, Give
  PROVE  LoopInv'
<1>1. NCharges \in Nat /\ MaxAmount \in Nat
  BY LoopConstants
<1> DEFINE a == Before(payment)
           m == Money(payment)
           d == DebtBefore(charge)
           n == outstanding[charge]
           amount == Lesser(left, owed[charge])
<1>2. /\ payment \in Payments /\ charge \in Charges
      /\ a \in Nat /\ m \in Nat /\ d \in Nat /\ n \in Nat /\ n > 0
      /\ DebtBefore(charge + 1) = d + n /\ left = Beyond(a, m, d)
      /\ owed[charge] = Beyond(d, n, a) /\ given[payment][charge] = 0
  BY Iteration DEF Give
<1>3. /\ owed \in [Charges -> 0..MaxAmount] /\ given \in [Payments -> [Charges -> 0..MaxAmount]]
      /\ left \in 1..MaxAmount /\ owed[charge] \in 1..MaxAmount
  BY <1>1, <1>2 DEF LoopInv, TypeOK, Give
<1>4. /\ amount \in 1..MaxAmount /\ left - amount \in 0..MaxAmount
      /\ owed[charge] - amount \in 0..MaxAmount /\ given[payment][charge] + amount = amount
  BY <1>1, <1>2, <1>3 DEF Lesser
<1>5. /\ given' = [given EXCEPT ![payment][charge] = amount]
      /\ left' = left - amount
      /\ owed' = [owed EXCEPT ![charge] = owed[charge] - amount]
  BY <1>2, <1>3, <1>4 DEF Give
<1> HIDE DEF amount
<1>6. TypeOK'
  <2>1. owed' \in [Charges -> 0..MaxAmount]
    BY <1>3, <1>4, <1>5
  <2>2. given' \in [Payments -> [Charges -> 0..MaxAmount]]
    <3>1. given[payment] \in [Charges -> 0..MaxAmount] /\ amount \in 0..MaxAmount
      BY <1>1, <1>2, <1>3, <1>4
    <3>2. [given[payment] EXCEPT ![charge] = amount] \in [Charges -> 0..MaxAmount]
      BY <3>1
    <3>3. QED
      BY <1>3, <1>5, <3>2
  <2>3. left' \in -1..MaxAmount
    BY <1>1, <1>3, <1>4, <1>5
  <2>4. charge' \in 1..(NCharges + 1)
    BY <1>1, <1>2 DEF Give, Charges
  <2>5. QED
    BY <2>1, <2>2, <2>3, <2>4 DEF LoopInv, TypeOK, Give
<1>7. /\ amount = Common(a, m, d, n)
      /\ left - amount = Beyond(a, m, d + n)
      /\ owed[charge] - amount = Beyond(d, n, a + m)
  <2>1. Beyond(a, m, d) > 0 /\ Beyond(d, n, a) > 0
    BY <1>2, <1>3
  <2>2. QED
    BY <1>2, <2>1, LesserIsCommon DEF amount
<1>8. QED
  BY <1>2, <1>5, <1>6, <1>7, IterationKeeps DEF Give

-----------------------------------------------------------------------------
\* The loops of allocateCredit keep the inductive invariant.
THEOREM LoopInvariance == Spec => []LoopInv
<1>1. Init => LoopInv
  BY LoopInit
<1>2. LoopInv /\ [Next]_vars => LoopInv'
  <2>1. SUFFICES ASSUME LoopInv, [Next]_vars PROVE LoopInv'
    OBVIOUS
  <2>2. CASE NextPayment
    BY <2>1, <2>2, NextPaymentKeeps
  <2>3. CASE SkipPaidCharge
    BY <2>1, <2>3, SkipPaidChargeKeeps
  <2>4. CASE Give
    BY <2>1, <2>4, GiveKeeps
  <2>5. CASE UNCHANGED vars
    BY <2>1, <2>5 DEF LoopInv, TypeOK, GivesCommonStretch, Before, MoneyOf, Money, DebtBefore,
                      Reached, vars
  <2>6. QED
    BY <2>1, <2>2, <2>3, <2>4, <2>5 DEF Next
<1>3. QED
  BY <1>1, <1>2, PTL DEF Spec

\* Whatever the numbers of payments and charges and their amounts, at every
\* iteration of the two loops of allocateCredit each payment has given each
\* charge passed so far exactly the stretch they have in common, and the others
\* nothing.
THEOREM LoopsComputeCommon == Spec => []GivesCommonStretch
<1>1. LoopInv => GivesCommonStretch
  BY DEF LoopInv
<1>2. QED
  BY <1>1, LoopInvariance, PTL

\* No amount of the loops leaves its bounds: nothing negative is given, and no
\* charge is left with a negative debt.
THEOREM LoopTypeCorrect == Spec => []TypeOK
<1>1. LoopInv => TypeOK
  BY DEF LoopInv
<1>2. QED
  BY <1>1, LoopInvariance, PTL

-----------------------------------------------------------------------------
\* A charge and its snapshot.

\* Cutting what is cut and counting again the attendance that was counted
\* change nothing.
Frozen(days, context, window) ==
  /\ context = [x \in DOMAIN context |-> context[x]]
  /\ {"windows", "attendedDays"} \subseteq DOMAIN context
  /\ B!Clipped(context.windows, window.start, window.end) = context.windows
  /\ context.attendedDays = B!Cardinality(days \cap UNION {w.start..w.end : w \in context.windows})

\* A stored line repeats itself on the attendance it was computed from.
Repeats(l) ==
  /\ l.amount = B!Amount(l.rules, l.kind, l.segments, l.context)
  /\ Frozen(l.attended, l.context, B!WholeMonth)
  /\ l.segments = [i \in DOMAIN l.segments |-> l.segments[i]]
  /\ \A i \in DOMAIN l.segments :
       /\ l.segments[i] = [x \in DOMAIN l.segments[i] |-> l.segments[i][x]]
       /\ "context" \in DOMAIN l.segments[i]
       /\ Frozen(l.attended, l.segments[i].context, B!Window(l.segments[i].from, l.segments[i].to))

LinesInv == \A l \in charges : Repeats(l)

LEMMA ClipIsIdempotent ==
  ASSUME NEW W, NEW from, NEW to
  PROVE  B!Clipped(B!Clipped(W, from, to), from, to) = B!Clipped(W, from, to)
<1>1. \A w : B!Clip(B!Clip(w, from, to), from, to) = B!Clip(w, from, to)
  BY DEF B!Clip, B!Window, B!Greatest, B!Least
<1> QED
  BY <1>1 DEF B!Clipped

LEMMA ContextIsFrozen ==
  ASSUME NEW rules, NEW window
  PROVE  Frozen(attended, B!Context(rules, window), window)
<1> DEFINE windows == B!Clipped(B!enrollmentWindows(child, history, B!FirstTariff, Month), window.start, window.end)
           c == B!Context(rules, window)
<1>1. /\ c.windows = windows /\ c.attendedDays = B!AttendedIn(windows)
      /\ c = [x \in DOMAIN c |-> c[x]] /\ {"windows", "attendedDays"} \subseteq DOMAIN c
  BY DEF B!Context
<1>2. B!Clipped(windows, window.start, window.end) = windows
  BY ClipIsIdempotent
<1> HIDE DEF windows, c
<1> QED
  BY <1>1, <1>2 DEF Frozen, B!AttendedIn, c

LEMMA FrozenStays ==
  ASSUME NEW context, NEW window, Frozen(attended, context, window)
  PROVE  B!FrozenContext(context, window) = context
BY DEF Frozen, B!FrozenContext, B!AttendedIn

LEMMA LinesRepeat ==
  ASSUME NEW l, Repeats(l), l.attended = attended
  PROVE  B!Recomputed(l) = l.amount
<1> DEFINE again == [i \in DOMAIN l.segments |->
                      [l.segments[i] EXCEPT !.context =
                        B!FrozenContext(l.segments[i].context, B!Window(l.segments[i].from, l.segments[i].to))]]
<1>1. B!FrozenContext(l.context, B!WholeMonth) = l.context
  BY FrozenStays DEF Repeats
<1>2. ASSUME NEW i \in DOMAIN l.segments PROVE again[i] = l.segments[i]
  <2> DEFINE window == B!Window(l.segments[i].from, l.segments[i].to)
  <2>1. B!FrozenContext(l.segments[i].context, window) = l.segments[i].context
    <3> HIDE DEF window
    <3>1. Frozen(attended, l.segments[i].context, window)
      BY DEF Repeats, window
    <3> QED  BY <3>1, FrozenStays
  <2>2. again[i] = [l.segments[i] EXCEPT !.context = l.segments[i].context]
    BY <2>1
  <2> QED
    BY <2>2 DEF Repeats
<1>3. again = l.segments
  BY <1>2 DEF Repeats
<1>4. B!Recomputed(l) = B!Amount(l.rules, l.kind, again, B!FrozenContext(l.context, B!WholeMonth))
  BY DEF B!Recomputed
<1> QED
  BY <1>1, <1>3, <1>4 DEF Repeats

LEMMA LineIsNew ==
  ASSUME NEW rules, NEW kind, NEW list
  PROVE  Repeats(B!computeLine(rules, kind, list))
<1> DEFINE month == B!Context(rules, B!WholeMonth)
           parts == B!Segments(rules, list)
           l == B!computeLine(rules, kind, list)
<1>1. /\ l.amount = B!Amount(rules, kind, parts, month) /\ l.rules = rules /\ l.kind = kind
      /\ l.segments = parts /\ l.context = month /\ l.attended = attended
  BY DEF B!computeLine, B!Line
<1>2. Frozen(attended, month, B!WholeMonth)
  BY ContextIsFrozen
<1>3. parts = [i \in DOMAIN parts |-> parts[i]] /\ DOMAIN parts = DOMAIN list
  BY DEF B!Segments
<1>4. ASSUME NEW i \in DOMAIN list
      PROVE  /\ parts[i] = [x \in DOMAIN parts[i] |-> parts[i][x]]
             /\ "context" \in DOMAIN parts[i]
             /\ Frozen(attended, parts[i].context, B!Window(parts[i].from, parts[i].to))
  <2> DEFINE window == B!Window(list[i].from, list[i].to)
             context == B!Context(rules, window)
  <2>1. parts[i] = [from |-> list[i].from, to |-> list[i].to, price |-> list[i].price, context |-> context]
    BY DEF B!Segments
  <2>2. Frozen(attended, context, window)
    BY ContextIsFrozen
  <2> HIDE DEF context
  <2> QED
    BY <2>1, <2>2
<1> HIDE DEF month, parts, l
<1>5. Repeats(l)
  BY <1>1, <1>2, <1>3, <1>4 DEF Repeats
<1> QED
  BY <1>5 DEF l

\* A recalculation reproduces a committed charge from its snapshot for as long
\* as the attendance is the one it was computed from, whatever was edited since:
\* for any rules, tariffs, discounts, holidays, dates and statuses.
THEOREM RecalculationRepeats == B!Spec => []RecomputedAlike
<1>1. B!Init => LinesInv
  BY DEF B!Init, LinesInv
<1>2. ASSUME LinesInv, [B!Next]_B!vars PROVE LinesInv'
  <2>1. CASE charges' = charges
    BY <1>2, <2>1 DEF LinesInv
  <2>2. CASE B!commit
    <3>1. PICK rules : charges' = B!computeAllLines(rules)
      BY <2>2 DEF B!commit
    <3>2. \A l \in charges' : \E kind, list : l = B!computeLine(rules, kind, list)
      BY <3>1 DEF B!computeAllLines
    <3>3. \A l \in charges' : Repeats(l)
      BY <3>2, LineIsNew
    <3> QED  BY <3>3 DEF LinesInv
  <2>3. B!commit \/ charges' = charges
    BY <1>2, ZenonT(60) DEF B!Next, B!vars, B!EditRules, B!EditDiscounts, B!EditHolidays, B!EditTariffs, B!EditStatus,
       B!createRules, B!createDiscount, B!revoke, B!createHoliday, B!removeHoliday, B!assignToChild,
       B!endAssignment, B!setStatus, B!recordAttendance, B!feeElsewhere
  <2> QED  BY <2>1, <2>2, <2>3
<1>3. LinesInv => RecomputedAlike
  BY LinesRepeat DEF LinesInv, RecomputedAlike, B!RecomputedAlike
<1> QED
  BY <1>1, <1>2, <1>3, PTL DEF B!Spec

\* The last of 1..i, and what is before it.
LEMMA LastOfRange ==
  ASSUME NEW i \in Nat, i > 0
  PROVE  B!Max(1..i) = i /\ (1..i) \ {i} = 1..(i - 1)
<1>1. i \in 1..i /\ \A y \in 1..i : i >= y
  OBVIOUS
<1>2. \A x \in 1..i : (\A y \in 1..i : x >= y) => x = i
  OBVIOUS
<1>3. B!Max(1..i) = i
  BY <1>1, <1>2 DEF B!Max
<1> QED
  BY <1>3

\* Max chooses the largest of some indices.
LEMMA LargestChosen ==
  ASSUME NEW n \in Nat, NEW t \in SUBSET (1..n), t # {}
  PROVE  B!Max(t) \in t /\ \A y \in t : y =< B!Max(t)
<1>1. \E x \in t : \A y \in t : x >= y
  BY Largest
<1> QED
  BY <1>1 DEF B!Max

\* A list of n elements is folded by its last index.
LastIndex(n) == [t \in SUBSET (1..n) |-> B!Max(t)]

\* Folding over the parts of 1..n, the last index first, has a result for each part.
LEMMA ListFoldExists ==
  ASSUME NEW n \in Nat, NEW V, NEW base \in V, NEW G, Acts(G, 1..n, V)
  PROVE  \E F \in [SUBSET (1..n) -> V] : FoldOf(F, 1..n, base, G, LastIndex(n))
<1>1. Chooses(LastIndex(n), 1..n)
  BY LargestChosen DEF Chooses, LastIndex
<1>2. IsFiniteSet(1..n)
  BY UpTo
<1> QED
  BY <1>1, <1>2, FoldExists

\* The fold of a list of n elements that act on V as G says is the last of a
\* line of n + 1 values.
LineOf(c, n, V, base, G) ==
  c \in [0..n -> V] /\ c[0] = base /\ \A i \in 1..n : c[i] = G[i][c[i - 1]]

FoldsOn(iter, n, V, base, G) ==
  /\ iter[{}] = base
  /\ \A t \in SUBSET (1..n) : t # {} /\ iter[t \ {B!Max(t)}] \in V
                                => iter[t] = G[B!Max(t)][iter[t \ {B!Max(t)}]]

\* The fold of a list is the end of the line of its intermediate results.
LEMMA ListFold ==
  ASSUME NEW n \in Nat, NEW V, NEW base \in V, NEW G, Acts(G, 1..n, V),
         NEW iter, FoldsOn(iter, n, V, base, G)
  PROVE  \E c : LineOf(c, n, V, base, G) /\ iter[1..n] = c[n]
<1> DEFINE c == [i \in 0..n |-> iter[1..i]]
           T == {k \in 0..n : c[k] \in V}
<1>1. c[0] = base
  <2>1. 1..0 = {}
    OBVIOUS
  <2> QED BY <2>1 DEF FoldsOn
<1>2. ASSUME NEW i \in 1..n, c[i - 1] \in V PROVE c[i] = G[i][c[i - 1]]
  <2>1. 1..i \in SUBSET (1..n) /\ 1..i # {} /\ i - 1 \in 0..n
    <3>1. i \in 1..i /\ \A x \in 1..i : x \in 1..n
      OBVIOUS
    <3>2. i - 1 \in 0..n
      OBVIOUS
    <3> DEFINE I == 1..i
    <3> HIDE DEF I
    <3>3. I \in SUBSET (1..n) /\ I # {}
      BY <3>1 DEF I
    <3> QED BY <3>2, <3>3 DEF I
  <2>2. B!Max(1..i) = i /\ (1..i) \ {i} = 1..(i - 1)
    BY LastOfRange
  <2>3. c[i] = iter[1..i] /\ c[i - 1] = iter[1..(i - 1)]
    BY <2>1
  <2>4. iter[1..i] = G[i][iter[1..(i - 1)]]
    <3> HIDE DEF c
    <3> QED BY <2>1, <2>2, <2>3, <1>2 DEF FoldsOn
  <2> QED  BY <2>3, <2>4
<1>3. \A i \in 0..n : i \in T
  <2>1. 0 \in T
    BY <1>1
  <2>2. ASSUME NEW i \in 1..n, i - 1 \in T PROVE i \in T
    <3>1. c[i - 1] \in V
      BY <2>2
    <3> HIDE DEF c
    <3>2. c[i] = G[i][c[i - 1]]
      BY <1>2, <3>1
    <3> QED BY <3>1, <3>2 DEF Acts
  <2> HIDE DEF T
  <2> QED  BY <2>1, <2>2, InductionUpTo
<1>4. c \in [0..n -> V] /\ iter[1..n] = c[n]
  BY <1>3
<1>5. \A i \in 1..n : c[i - 1] \in V
  BY <1>3
<1> HIDE DEF c
<1>6. \A i \in 1..n : c[i] = G[i][c[i - 1]]
  BY <1>2, <1>5
<1> QED
  BY <1>1, <1>4, <1>6 DEF LineOf

\* The sum of a list of naturals.
LEMMA SumFold ==
  ASSUME NEW n \in Nat, NEW s, DOMAIN s = 1..n, \A i \in 1..n : s[i] \in Nat
  PROVE  \E c \in [0..n -> Nat] : /\ c[0] = 0
                                  /\ \A i \in 1..n : c[i] = c[i - 1] + s[i]
                                  /\ B!Sum(s) = c[n]
<1> DEFINE G == [i \in 1..n |-> [v \in Nat |-> v + s[i]]]
           Folds(f) == f = [t \in SUBSET DOMAIN s |->
                             IF t = {} THEN 0 ELSE f[t \ {B!Max(t)}] + s[B!Max(t)]]
           iter == CHOOSE iter : Folds(iter)
<1>1. B!Sum(s) = iter[1..n]
  BY Zenon DEF B!Sum, B!FoldLeft, B!MapThenFoldSet
<1>2. Acts(G, 1..n, Nat)
  BY DEF Acts
<1>3. \A t \in SUBSET (1..n) : t # {} => B!Max(t) \in 1..n
  BY LargestChosen
<1>4. PICK F \in [SUBSET (1..n) -> Nat] : FoldOf(F, 1..n, 0, G, LastIndex(n))
  <2> HIDE DEF G
  <2> QED  BY <1>2, ListFoldExists
<1>5. Folds(F)
  BY <1>3, <1>4 DEF FoldOf, LastIndex
<1>6. Folds(iter)
  <2> HIDE DEF Folds
  <2> QED  BY <1>5
<1> HIDE DEF iter
<1>7. FoldsOn(iter, n, Nat, 0, G)
  BY <1>3, <1>6 DEF FoldsOn
<1>8. PICK c : LineOf(c, n, Nat, 0, G) /\ iter[1..n] = c[n]
  <2> DEFINE V == Nat
  <2>1. 0 \in V /\ Acts(G, 1..n, V) /\ FoldsOn(iter, n, V, 0, G)
    BY <1>2, <1>7
  <2> HIDE DEF G, V
  <2>2. \E c : LineOf(c, n, V, 0, G) /\ iter[1..n] = c[n]
    BY <2>1, ListFold
  <2> QED  BY <2>2 DEF V
<1>9. c \in [0..n -> Nat] /\ c[0] = 0 /\ \A i \in 1..n : c[i] = c[i - 1] + s[i]
  <2>1. \A i \in 1..n : c[i - 1] \in Nat
    BY <1>8 DEF LineOf
  <2> QED  BY <1>8, <2>1 DEF LineOf
<1> QED
  BY <1>1, <1>8, <1>9

-----------------------------------------------------------------------------
\* Sorting.

\* A finite set that is not empty has a member with the largest key.
LEMMA LargestKey ==
  ASSUME NEW S, IsFiniteSet(S), S # {}, NEW key, \A x \in S : key[x] \in Int
  PROVE  \E x \in S : \A y \in S : key[y] <= key[x]
<1> DEFINE n == Cardinality(S)
           Has(s) == \E x \in s : \A y \in s : key[y] <= key[x]
           T == {k \in Nat : \A s \in SUBSET S : Cardinality(s) = k => s = {} \/ Has(s)}
<1>1. n \in Nat /\ \A s \in SUBSET S : IsFiniteSet(s) /\ Cardinality(s) \in Nat
                                       /\ (Cardinality(s) = 0 <=> s = {})
  <2>1. \A s \in SUBSET S : IsFiniteSet(s)
    BY FS_Subset
  <2> QED  BY <2>1, FS_CardinalityType, FS_EmptySet
<1>2. 0 \in T
  BY <1>1
<1>3. ASSUME NEW k \in 1..n, k - 1 \in T PROVE k \in T
  <2>1. k \in Nat
    BY <1>1
  <2>2. ASSUME NEW s \in SUBSET S, Cardinality(s) = k, s # {} PROVE Has(s)
    <3>1. PICK x \in s : TRUE
      BY <2>2
    <3> DEFINE t == s \ {x}
    <3>2. t \in SUBSET S /\ Cardinality(t) = k - 1
      BY <1>1, <2>2, <3>1, FS_RemoveElement
    <3>3. t = {} \/ Has(t)
      <4> HIDE DEF t, Has
      <4> QED  BY <1>3, <3>2
    <3>4. CASE t = {}
      <4>1. \A y \in s : y = x
        BY <3>4
      <4> QED  BY <4>1, <3>1
    <3>5. CASE Has(t)
      <4>1. PICK z \in t : \A y \in t : key[y] <= key[z]
        BY <3>5
      <4>2. key[z] \in Int /\ key[x] \in Int /\ \A y \in s : y = x \/ y \in t
        BY <3>1, <4>1
      <4>3. CASE key[x] <= key[z]
        BY <4>1, <4>2, <4>3
      <4>4. CASE key[z] <= key[x]
        <5>1. \A y \in t : key[y] \in Int
          OBVIOUS
        <5>2. \A y \in s : key[y] <= key[x]
          BY <4>1, <4>2, <4>4, <5>1
        <5> QED  BY <3>1, <5>2
      <4> QED  BY <4>2, <4>3, <4>4
    <3> QED  BY <3>3, <3>4, <3>5
  <2> HIDE DEF Has
  <2> QED  BY <2>1, <2>2
<1> HIDE DEF T
<1>4. n \in T
  BY <1>1, <1>2, <1>3, InductionUpTo
<1> USE DEF T
<1> HIDE DEF Has
<1>5. Has(S)
  BY <1>4
<1> QED
  BY <1>5 DEF Has

\* The members of S once each, by key.
Lists(f, S, key) ==
  /\ f \in [1..Cardinality(S) -> S]
  /\ \A i, j \in 1..Cardinality(S) : i # j => f[i] # f[j]
  /\ \A x \in S : \E i \in 1..Cardinality(S) : f[i] = x
  /\ \A i, j \in 1..Cardinality(S) : i < j => key[f[i]] <= key[f[j]]

\* A finite set can be sorted.
LEMMA SortExists ==
  ASSUME NEW S, IsFiniteSet(S), NEW key, \A x \in S : key[x] \in Int
  PROVE  \E f : Lists(f, S, key)
<1> DEFINE n == Cardinality(S)
           T == {k \in Nat : \A s \in SUBSET S : Cardinality(s) = k => \E f : Lists(f, s, key)}
<1>1. n \in Nat /\ \A s \in SUBSET S : IsFiniteSet(s) /\ Cardinality(s) \in Nat
                                       /\ (Cardinality(s) = 0 <=> s = {})
  <2>1. \A s \in SUBSET S : IsFiniteSet(s)
    BY FS_Subset
  <2> QED  BY <2>1, FS_CardinalityType, FS_EmptySet
<1>2. 0 \in T
  <2>1. ASSUME NEW s \in SUBSET S, Cardinality(s) = 0 PROVE \E f : Lists(f, s, key)
    <3>1. s = {} /\ 1..Cardinality(s) = {}
      BY <1>1, <2>1
    <3>2. [i \in {} |-> i] \in [{} -> {}]
      OBVIOUS
    <3>3. Lists([i \in {} |-> i], s, key)
      BY <3>1, <3>2 DEF Lists
    <3> QED  BY <3>3
  <2> QED  BY <2>1
<1>3. ASSUME NEW k \in 1..n, k - 1 \in T PROVE k \in T
  <2>1. k \in Nat
    BY <1>1
  <2>2. ASSUME NEW s \in SUBSET S, Cardinality(s) = k PROVE \E f : Lists(f, s, key)
    <3>1. s # {} /\ IsFiniteSet(s) /\ \A x \in s : key[x] \in Int
      BY <1>1, <2>2
    <3>2. PICK x \in s : \A y \in s : key[y] <= key[x]
      BY <3>1, LargestKey
    <3> DEFINE t == s \ {x}
    <3>3. t \in SUBSET S /\ Cardinality(t) = k - 1
      BY <1>1, <2>2, <3>1, FS_RemoveElement
    <3>4. PICK f : Lists(f, t, key)
      <4> HIDE DEF t
      <4> QED  BY <1>3, <3>3
    <3> DEFINE g == [i \in 1..k |-> IF i = k THEN x ELSE f[i]]
    <3>5. \A i \in 1..k : i = k \/ i \in 1..(k - 1)
      OBVIOUS
    <3>6. /\ f \in [1..(k - 1) -> t] /\ (\A i, j \in 1..(k - 1) : i # j => f[i] # f[j])
          /\ (\A y \in t : \E i \in 1..(k - 1) : f[i] = y)
          /\ \A i, j \in 1..(k - 1) : i < j => key[f[i]] <= key[f[j]]
      <4> HIDE DEF t
      <4> QED  BY <3>3, <3>4 DEF Lists
    <3>7. g \in [1..k -> s]
      BY <3>5, <3>6
    <3>8. \A i, j \in 1..k : i # j => g[i] # g[j]
      BY <3>5, <3>6
    <3>9. ASSUME NEW y \in s PROVE \E i \in 1..k : g[i] = y
      <4>1. CASE y = x
        <5>1. k \in 1..k /\ g[k] = x
          OBVIOUS
        <5> QED  BY <4>1, <5>1
      <4>2. CASE y # x
        <5>1. PICK i \in 1..(k - 1) : f[i] = y
          BY <3>6, <4>2
        <5>2. i \in 1..k /\ g[i] = f[i]
          OBVIOUS
        <5> QED  BY <5>1, <5>2
      <4> QED  BY <4>1, <4>2
    <3>10. \A i, j \in 1..k : i < j => key[g[i]] <= key[g[j]]
      <4>1. SUFFICES ASSUME NEW i \in 1..k, NEW j \in 1..k, i < j PROVE key[g[i]] <= key[g[j]]
        OBVIOUS
      <4>2. CASE j = k
        BY <3>2, <3>7, <4>2
      <4>3. CASE j # k
        <5>1. i \in 1..(k - 1) /\ j \in 1..(k - 1)
          BY <4>1, <4>3
        <5>2. g[i] = f[i] /\ g[j] = f[j]
          BY <5>1
        <5> QED  BY <3>6, <4>1, <5>1, <5>2
      <4> QED  BY <4>2, <4>3
    <3> HIDE DEF g
    <3>11. Lists(g, s, key)
      BY <2>2, <3>7, <3>8, <3>9, <3>10 DEF Lists
    <3> QED  BY <3>11
  <2> QED  BY <2>1, <2>2
<1> HIDE DEF T
<1>4. n \in T
  BY <1>1, <1>2, <1>3, InductionUpTo
<1> QED
  BY <1>4 DEF T

\* Cardinality means the same in Bill.
LEMMA CountedAlike ==
  ASSUME NEW S
  PROVE  B!Cardinality(S) = Cardinality(S) /\ (B!IsFiniteSet(S) <=> IsFiniteSet(S))
BY DEF B!Cardinality, Cardinality, B!IsFiniteSet, IsFiniteSet

\* What SetToSeqs of a finite set holds.
LEMMA SeqsOf ==
  ASSUME NEW S, IsFiniteSet(S), NEW f
  PROVE  /\ Cardinality(S) \in Nat
         /\ f \in B!SetToSeqs(S) <=> /\ f \in [1..Cardinality(S) -> S]
                                     /\ \A i, j \in 1..Cardinality(S) : i # j => f[i] # f[j]
         /\ f \in B!SetToSeqs(S) => \A x \in S : \E i \in 1..Cardinality(S) : f[i] = x
<1> DEFINE n == Cardinality(S)
<1>1. n \in Nat
  BY FS_CardinalityType
<1>2. f \in B!SetToSeqs(S) <=> f \in [1..n -> S] /\ \A i, j \in 1..n : i # j => f[i] # f[j]
  <2> HIDE DEF n
  <2>1. B!Cardinality(S) = n
    BY CountedAlike DEF n
  <2> QED  BY <2>1 DEF B!SetToSeqs
<1>3. ASSUME f \in B!SetToSeqs(S) PROVE \A x \in S : \E i \in 1..n : f[i] = x
  <2>1. f \in Injection(1..n, S)
    BY <1>2, <1>3 DEF Injection, IsInjective
  <2>2. Cardinality(1..n) = n
    BY <1>1, UpTo
  <2> HIDE DEF n
  <2>3. f \in Surjection(1..n, S)
    BY <2>1, <2>2, FS_Injection DEF n
  <2> QED  BY <2>3 DEF Surjection
<1> QED
  BY <1>1, <1>2, <1>3

\* Windows by their first day.
ByStart(W) == B!ByDate(W, LAMBDA w : w.start)

\* Windows are listed by the day they begin, each of them.
LEMMA WindowsSorted ==
  ASSUME NEW W, IsFiniteSet(W), \A w \in W : w.start \in Int
  PROVE  LET s == ByStart(W)
             n == Cardinality(W)
         IN  /\ n \in Nat /\ s \in [1..n -> W]
             /\ \A w \in W : \E i \in 1..n : s[i] = w
             /\ \A i, j \in 1..n : i < j => s[i].start <= s[j].start
<1> DEFINE key == [w \in W |-> w.start]
           n == Cardinality(W)
           Good(t) == t \in B!SetToSeqs(W) /\ \A i, j \in DOMAIN t : i < j => t[i].start =< t[j].start
<1>1. \A w \in W : key[w] \in Int
  OBVIOUS
<1>2. PICK f : Lists(f, W, key)
  <2> HIDE DEF key
  <2> QED  BY <1>1, SortExists
<1>3. f \in [1..n -> W]
  BY <1>2 DEF Lists
<1>4. f \in B!SetToSeqs(W)
  BY <1>2, SeqsOf DEF Lists
<1>5. \A i, j \in 1..n : i < j => f[i].start =< f[j].start
  BY <1>2, <1>3 DEF Lists
<1>6. Good(f)
  BY <1>3, <1>4, <1>5
<1>7. ByStart(W) = CHOOSE t : Good(t)
  BY Zenon DEF ByStart, B!ByDate
<1>8. Good(ByStart(W))
  <2> HIDE DEF Good
  <2> QED  BY <1>6, <1>7
<1> HIDE DEF n
<1>9. n \in Nat /\ ByStart(W) \in [1..n -> W] /\ \A w \in W : \E i \in 1..n : ByStart(W)[i] = w
  BY <1>8, SeqsOf DEF n
<1> QED
  BY <1>8, <1>9 DEF n

-----------------------------------------------------------------------------
\* The episodes of a history.

Win == [start : Int, end : Int]
Open == [start : Int, done : Seq(Win)]

EpisodesOf(first, h) == B!FoldLeft(B!Episode, first, h)

\* What a list of changes makes of the episodes, one change after the other.
EpisodeLine(c, n, h, first) ==
  c \in [0..n -> Open] /\ c[0] = first /\ \A i \in 1..n : c[i] = B!Episode(c[i - 1], h[i])

\* Going through the changes of status one after the other.
LEMMA EpisodeFold ==
  ASSUME NEW n \in Nat, NEW h, DOMAIN h = 1..n, \A i \in 1..n : h[i].on \in Int, NEW first \in Open
  PROVE  \E c : EpisodeLine(c, n, h, first) /\ EpisodesOf(first, h) = c[n]
<1> DEFINE G == [i \in 1..n |-> [v \in Open |-> B!Episode(v, h[i])]]
           Folds(f) == f = [t \in SUBSET DOMAIN h |->
                             IF t = {} THEN first ELSE B!Episode(f[t \ {B!Max(t)}], h[B!Max(t)])]
           iter == CHOOSE iter : Folds(iter)
<1>1. EpisodesOf(first, h) = iter[1..n]
  BY Zenon DEF EpisodesOf, B!FoldLeft, B!MapThenFoldSet
<1>2. Acts(G, 1..n, Open)
  <2>1. ASSUME NEW i \in 1..n, NEW v \in Open PROVE B!Episode(v, h[i]) \in Open
    <3>1. v.start \in Int /\ v.done \in Seq(Win) /\ h[i].on \in Int
      BY DEF Open
    <3>2. B!Window(v.start, h[i].on) \in Win
      BY <3>1 DEF B!Window, Win
    <3>3. Append(v.done, B!Window(v.start, h[i].on)) \in Seq(Win)
      BY <3>1, <3>2
    <3>4. B!None \in Int
      BY DEF B!None
    <3>5. [v EXCEPT !.start = IF v.start = B!None THEN h[i].on ELSE v.start] \in Open
      BY <3>1 DEF Open
    <3>6. [start |-> B!None, done |-> Append(v.done, B!Window(v.start, h[i].on))] \in Open
      BY <3>3, <3>4 DEF Open
    <3> QED  BY <3>5, <3>6 DEF B!Episode
  <2> QED  BY <2>1 DEF Acts
<1>3. \A t \in SUBSET (1..n) : t # {} => B!Max(t) \in 1..n
  BY LargestChosen
<1>4. PICK F \in [SUBSET (1..n) -> Open] : FoldOf(F, 1..n, first, G, LastIndex(n))
  <2> HIDE DEF G
  <2> QED  BY <1>2, ListFoldExists
<1>5. Folds(F)
  BY <1>3, <1>4 DEF FoldOf, LastIndex
<1>6. Folds(iter)
  <2> HIDE DEF Folds
  <2> QED  BY <1>5
<1> HIDE DEF iter
<1>7. FoldsOn(iter, n, Open, first, G)
  BY <1>3, <1>6 DEF FoldsOn
<1>8. PICK c : LineOf(c, n, Open, first, G) /\ iter[1..n] = c[n]
  <2> HIDE DEF G
  <2> QED  BY <1>2, <1>7, ListFold
<1>9. c \in [0..n -> Open] /\ c[0] = first /\ \A i \in 1..n : c[i] = B!Episode(c[i - 1], h[i])
  <2>1. \A i \in 1..n : c[i - 1] \in Open
    BY <1>8 DEF LineOf
  <2> QED  BY <1>8, <2>1 DEF LineOf
<1> QED
  BY <1>1, <1>8, <1>9 DEF EpisodeLine

-----------------------------------------------------------------------------
\* The rows of a child.

Status == B!Enrolled \cup B!Leaving
Child == [enrollmentDate : B!Days \cup {B!None}, withdrawalDate : B!Days \cup {B!None}, status : Status]
Change == [old : Status, new : Status, on : B!Days]
Assigned == [from : B!Days, to : B!Days, kind : Kinds, price : Nat]
Discount == [kind : {"fixed", "percent"}, value : Nat, from : B!Days, to : B!Days, revoked : BOOLEAN]

ByEffectiveDate(h) == \A i, j \in 1..Len(h) : i < j => h[i].on <= h[j].on

\* The statuses of a child are listed by date.
HistoryOK == history \in Seq(Change) /\ ByEffectiveDate(history)

\* An assignment does not end before it begins.
AssignedOK ==
  /\ IsFiniteSet(assigned) /\ assigned \subseteq Assigned
  /\ \A a \in assigned : a.from <= a.to

DiscountsOK ==
  /\ discounts \in Seq(Discount)
  /\ \A i \in 1..Len(discounts) : discounts[i].kind = "percent" => discounts[i].value <= B!FullPercent

Rules == RuleSets \cup FirstRules

\* The versions of the rules follow each other without a gap.
VersionsOK ==
  /\ versions \in Seq([from : B!Days, to : B!Days, rules : Rules])
  /\ Len(versions) > 0 /\ versions[1].from = 0 /\ versions[Len(versions)].to = B!Forever
  /\ \A i \in 1..(Len(versions) - 1) :
       /\ versions[i].from < versions[i + 1].from
       /\ versions[i].to = versions[i + 1].from - 1

RowsOK ==
  /\ holidays \subseteq [on : 1..Month, isWorking : BOOLEAN]
  /\ attended \subseteq 1..Month
  /\ feeCharged \in BOOLEAN
  /\ edits \in 0..MaxEdits

BillInv == child \in Child /\ HistoryOK /\ AssignedOK /\ DiscountsOK /\ VersionsOK /\ RowsOK

\* Days are integers, and None is none of them.
LEMMA DaysAre ==
  /\ Month \in Nat /\ Month > 0 /\ B!Forever \in B!Days /\ B!Days \subseteq Int /\ B!None \in Int
  /\ \A d : d \in B!Days <=> d \in Int /\ 0 <= d /\ d <= Month + 1
  /\ B!None = -1 /\ B!Forever = Month + 1
BY BillAssumption DEF B!BillConstants, B!Days, B!Forever, B!None

\* Basis points are natural numbers.
LEMMA PercentIs ==
  /\ B!FullPercent \in Nat /\ B!FullPercent > 0
  /\ \A v : v \in 0..B!FullPercent <=> v \in Nat /\ v <= B!FullPercent
<1>1. B!FullPercent \in Nat /\ B!FullPercent > 0
  BY DEF B!FullPercent
<1> QED  BY <1>1

\* Prices and discounts are natural numbers.
LEMMA ValuesAre ==
  (\A v \in Prices : v \in Nat) /\ (\A v \in FixedValues : v \in Nat)
  /\ \A v \in PercentValues : v \in Nat /\ v <= B!FullPercent
<1>1. B!BillConstants
  BY BillAssumption
<1>2. ASSUME NEW v \in Prices PROVE v \in Nat
  <2>1. Prices \subseteq Nat
    BY <1>1 DEF B!BillConstants
  <2> QED  BY <2>1
<1>3. \A v \in FixedValues : v \in Nat
  BY <1>1 DEF B!BillConstants
<1>4. \A v \in PercentValues : v \in 0..B!FullPercent
  BY <1>1 DEF B!BillConstants
<1>5. \A v \in PercentValues : v \in Nat /\ v <= B!FullPercent
  BY <1>4, PercentIs
<1> QED  BY <1>2, <1>3, <1>5

\* What a sequence over a set is.
LEMMA SeqIs ==
  ASSUME NEW V, NEW s \in Seq(V)
  PROVE  Len(s) \in Nat /\ DOMAIN s = 1..Len(s) /\ \A i \in 1..Len(s) : s[i] \in V
OBVIOUS

\* The rows are in order at first.
LEMMA BillInit ==
  ASSUME B!Init
  PROVE  BillInv
<1>1. PICK e \in Enrollments, w \in {B!None, Month - 1} :
        child = [enrollmentDate |-> e, withdrawalDate |-> w,
                 status |-> IF w = B!None THEN "active" ELSE "withdrawn"]
  BY DEF B!Init
<1>2. child \in Child
  <2>1. e \in B!Days \cup {B!None}
    BY BillAssumption DEF B!BillConstants, B!Days
  <2>2. w \in B!Days \cup {B!None}
    BY DaysAre
  <2> QED  BY <1>1, <2>1, <2>2 DEF Child, Status, B!Enrolled, B!Leaving
<1>3. HistoryOK
  BY DEF B!Init, HistoryOK, ByEffectiveDate
<1>4. AssignedOK
  <2>1. PICK p \in Prices : assigned = {B!Assignment(0, B!Forever, k, p) : k \in Kinds}
    BY DEF B!Init
  <2>2. IsFiniteSet(Kinds) /\ p \in Nat
    <3>1. B!IsFiniteSet(Kinds) /\ p \in Nat
      BY BillAssumption DEF B!BillConstants
    <3> QED  BY <3>1, CountedAlike
  <2> DEFINE f == [k \in Kinds |-> B!Assignment(0, B!Forever, k, p)]
  <2>3. f \in Surjection(Kinds, assigned)
    BY <2>1 DEF Surjection
  <2>4. IsFiniteSet(assigned)
    BY <2>2, <2>3, FS_Surjection
  <2>5. ASSUME NEW k \in Kinds
        PROVE B!Assignment(0, B!Forever, k, p) \in Assigned /\ 0 <= B!Forever
    BY <2>2, DaysAre DEF B!Assignment, Assigned
  <2> QED  BY <2>1, <2>4, <2>5 DEF AssignedOK, B!Assignment
<1>5. DiscountsOK
  BY DEF B!Init, DiscountsOK
<1>6. VersionsOK
  <2>1. PICK r \in FirstRules : versions = <<[from |-> 0, to |-> B!Forever, rules |-> r]>>
    BY DEF B!Init
  <2> QED  BY <2>1, DaysAre DEF VersionsOK, Rules
<1>7. RowsOK
  <2>1. 0 \in 0..MaxEdits
    BY BillAssumption DEF B!BillConstants
  <2> QED  BY <2>1 DEF B!Init, RowsOK
<1> QED
  BY <1>2, <1>3, <1>4, <1>5, <1>6, <1>7 DEF BillInv

\* A version that begins later closes the last one.
LEMMA VersionAdded ==
  ASSUME VersionsOK, NEW r \in Rules, NEW d \in B!Days, B!createRules(r, d)
  PROVE  VersionsOK'
<1> DEFINE n == Len(versions)
           V == [from : B!Days, to : B!Days, rules : Rules]
           closed == [versions EXCEPT ![n].to = d - 1]
           new == [from |-> d, to |-> B!Forever, rules |-> r]
<1>1. n \in Nat /\ n > 0 /\ versions \in Seq(V) /\ versions[n].to = B!Forever /\ versions[n] \in V
  <2> HIDE DEF V
  <2>1. versions \in Seq(V) /\ n > 0 /\ versions[n].to = B!Forever
    BY DEF VersionsOK, V
  <2>2. n \in Nat /\ \A i \in 1..n : versions[i] \in V
    BY <2>1, SeqIs
  <2> QED  BY <2>1, <2>2
<1>2. B!Last(versions) = versions[n]
  BY DEF B!Last
<1>3. d > versions[n].from /\ versions' = Append(closed, new)
  BY <1>1, <1>2 DEF B!createRules
<1>4. d \in Int /\ d - 1 \in B!Days /\ new \in V
  BY <1>1, <1>3, DaysAre, SMTT(30)
<1>5. closed \in Seq(V) /\ Len(closed) = n /\ closed[n].to = d - 1 /\ closed[n].from = versions[n].from
      /\ \A i \in 1..(n - 1) : closed[i] = versions[i]
  BY <1>1, <1>4
<1> HIDE DEF closed, new, V
<1>6. /\ versions' \in Seq(V) /\ Len(versions') = n + 1 /\ versions'[n + 1] = new
      /\ \A i \in 1..n : versions'[i] = closed[i]
  BY <1>1, <1>3, <1>4, <1>5
<1>7. versions'[1].from = 0
  <2>1. CASE n = 1
    BY <2>1, <1>1, <1>5, <1>6 DEF VersionsOK
  <2>2. CASE n > 1
    <3>1. 1 \in 1..(n - 1) /\ 1 \in 1..n
      BY <1>1, <2>2
    <3>2. versions'[1] = versions[1]
      BY <3>1, <1>5, <1>6
    <3> QED  BY <3>2 DEF VersionsOK
  <2>3. n = 1 \/ n > 1
    <3>1. n \in Nat /\ n > 0
      BY <1>1
    <3> HIDE DEF n
    <3> QED  BY <3>1
  <2> HIDE DEF n
  <2> QED  BY <2>1, <2>2, <2>3
<1>8. ASSUME NEW i \in 1..n
      PROVE versions'[i].from < versions'[i + 1].from /\ versions'[i].to = versions'[i + 1].from - 1
  <2>1. CASE i = n
    BY <2>1, <1>1, <1>3, <1>5, <1>6 DEF new
  <2>2. CASE i # n
    <3>1. i \in 1..(n - 1) /\ i + 1 \in 1..n
      BY <1>1, <2>2
    <3>2. closed[i + 1].from = versions[i + 1].from
      BY <3>1, <1>1, <1>5
    <3>3. versions'[i] = versions[i] /\ versions'[i + 1].from = versions[i + 1].from
      BY <3>1, <3>2, <1>5, <1>6
    <3> QED  BY <3>1, <3>3 DEF VersionsOK
  <2> QED  BY <2>1, <2>2
<1> QED
  BY <1>1, <1>6, <1>7, <1>8 DEF VersionsOK, V, new

\* A change goes behind those of its date and before later ones.
LEMMA ChangeRecorded ==
  ASSUME HistoryOK, NEW c \in Change
  PROVE  LET h == B!Recorded(c) IN
         /\ h \in Seq(Change) /\ ByEffectiveDate(h) /\ Len(h) = Len(history) + 1
<1> DEFINE n == Len(history)
           notLater == {i \in 1..n : history[i].on <= c.on}
           k == B!Max(notLater \cup {0})
           h == B!Recorded(c)
<1>1. n \in Nat /\ DOMAIN history = 1..n /\ \A i \in 1..n : history[i] \in Change /\ history[i].on \in Int
  <2>1. n \in Nat /\ DOMAIN history = 1..n /\ \A i \in 1..n : history[i] \in Change
    BY SeqIs DEF HistoryOK
  <2> QED  BY <2>1, DaysAre DEF Change
<1>2. k \in 0..n /\ (\A i \in 1..k : history[i].on <= c.on) /\ \A i \in (k + 1)..n : history[i].on > c.on
  <2>1. CASE notLater = {}
    <3>1. k = 0
      <4>1. notLater \cup {0} = {0}
        BY <2>1
      <4>2. B!Max({0}) = 0
        BY DEF B!Max
      <4> QED  BY <4>1, <4>2
    <3>2. c.on \in Int /\ \A i \in 1..n : ~(history[i].on <= c.on)
      BY <2>1, DaysAre DEF Change
    <3>3. 0 \in 0..n /\ 1..0 = {} /\ (0 + 1)..n = 1..n
      BY <1>1
    <3>4. \A i \in 1..n : history[i].on > c.on
      BY <3>2, <1>1
    <3> HIDE DEF k
    <3> QED  BY <3>1, <3>3, <3>4
  <2>2. CASE notLater # {}
    <3>1. PICK x \in notLater : \A y \in notLater : y <= x
      BY <1>1, <2>2, Largest
    <3>2. x \in notLater \cup {0} /\ \A y \in notLater \cup {0} : x >= y
      BY <3>1
    <3>3. k \in notLater \cup {0} /\ \A y \in notLater \cup {0} : k >= y
      <4> HIDE DEF notLater
      <4> QED  BY <3>2 DEF B!Max
    <3>4. k = x
      <4>1. k \in notLater \cup {0} /\ x \in notLater \cup {0}
        BY <3>2, <3>3
      <4>2. \A y \in notLater \cup {0} : y \in Int
        BY <1>1
      <4>3. k >= x /\ x >= k
        <5> HIDE DEF notLater, k
        <5> QED  BY <3>2, <3>3, <4>1
      <4>4. x \in Int /\ k \in Int
        <5> HIDE DEF notLater, k
        <5> QED  BY <4>1, <4>2
      <4> HIDE DEF k
      <4> QED  BY <4>3, <4>4
    <3> HIDE DEF k
    <3>5. ASSUME NEW i \in 1..k PROVE history[i].on <= c.on
      <4>1. i \in 1..n /\ x \in 1..n /\ history[x].on <= c.on
        BY <3>1, <3>4
      <4>2. i = x \/ i < x
        BY <3>4
      <4>3. history[i].on <= history[x].on
        BY <4>1, <4>2, <1>1 DEF HistoryOK, ByEffectiveDate
      <4> QED  BY <4>1, <4>3, <1>1, DaysAre DEF Change
    <3>6. ASSUME NEW i \in (k + 1)..n PROVE history[i].on > c.on
      <4>1. i \in 1..n /\ ~(i <= x)
        BY <3>1, <3>4
      <4>2. i \notin notLater
        BY <3>1, <4>1
      <4> QED  BY <4>1, <4>2, <1>1, DaysAre DEF Change
    <3> QED  BY <3>1, <3>4, <3>5, <3>6
  <2> QED  BY <2>1, <2>2
<1>3. h = SubSeq(history, 1, k) \o <<c>> \o SubSeq(history, k + 1, n)
  <2>1. (k + 1) - 1 = k
    BY <1>2
  <2>2. h = B!InsertAt(history, k + 1, c)
    BY <1>1 DEF B!Recorded
  <2> HIDE DEF k, h
  <2>3. h = SubSeq(history, 1, (k + 1) - 1) \o <<c>> \o SubSeq(history, k + 1, Len(history))
    BY <2>2 DEF B!InsertAt
  <2> QED  BY <2>1, <2>3
<1> HIDE DEF k, h, notLater
<1>4. SubSeq(history, 1, k) \in Seq(Change) /\ SubSeq(history, k + 1, n) \in Seq(Change) /\ <<c>> \in Seq(Change)
      /\ Len(SubSeq(history, 1, k)) = k /\ Len(SubSeq(history, k + 1, n)) = n - k
      /\ (\A i \in 1..k : SubSeq(history, 1, k)[i] = history[i])
      /\ \A i \in 1..(n - k) : SubSeq(history, k + 1, n)[i] = history[k + i]
  <2> DEFINE V == Change
  <2>1. history \in Seq(V) /\ c \in V
    BY DEF HistoryOK
  <2> HIDE DEF V
  <2>2. Len(history) = n /\ n \in Nat /\ k \in Nat /\ k <= n
    BY <1>1, <1>2
  <2> HIDE DEF n
  <2>3. SubSeq(history, 1, k) \in Seq(V) /\ Len(SubSeq(history, 1, k)) = k
        /\ \A i \in 1..k : SubSeq(history, 1, k)[i] = history[i]
    BY <2>1, <2>2
  <2>4. SubSeq(history, k + 1, n) \in Seq(V) /\ Len(SubSeq(history, k + 1, n)) = n - k
        /\ \A i \in 1..(n - k) : SubSeq(history, k + 1, n)[i] = history[k + i]
    BY <2>1, <2>2
  <2>5. <<c>> \in Seq(V)
    BY <2>1
  <2> QED  BY <2>3, <2>4, <2>5 DEF V
<1>5. h \in Seq(Change) /\ Len(h) = n + 1
  <2> DEFINE V == Change
             a == SubSeq(history, 1, k)
             b == SubSeq(history, k + 1, n)
  <2>1. a \in Seq(V) /\ b \in Seq(V) /\ <<c>> \in Seq(V) /\ Len(a) = k /\ Len(b) = n - k
    BY <1>4
  <2>2. h = a \o <<c>> \o b
    BY <1>3
  <2> HIDE DEF V, a, b
  <2>3. a \o <<c>> \in Seq(V) /\ Len(a \o <<c>>) = k + 1
    BY <2>1, <1>2
  <2>4. (a \o <<c>>) \o b \in Seq(V) /\ Len((a \o <<c>>) \o b) = n + 1
    <3> DEFINE ac == a \o <<c>>
    <3>1. ac \in Seq(V) /\ Len(ac) = k + 1 /\ b \in Seq(V) /\ Len(b) = n - k
      BY <2>1, <2>3
    <3> HIDE DEF ac
    <3>2. ac \o b \in Seq(V) /\ Len(ac \o b) = (k + 1) + (n - k)
      BY <3>1
    <3>3. n \in Nat /\ k \in Nat
      BY <1>1, <1>2
    <3>4. (k + 1) + (n - k) = n + 1
      <4> HIDE DEF n
      <4> QED  BY <3>3
    <3> QED  BY <3>2, <3>4 DEF ac
  <2>5. h \in Seq(V) /\ Len(h) = n + 1
    BY <2>4,  <2>1, <2>2
  <2> QED  BY <2>5 DEF V
<1>6. (\A i \in 1..k : h[i] = history[i]) /\ h[k + 1] = c /\ \A i \in (k + 2)..(n + 1) : h[i] = history[i - 1]
  <2> DEFINE a == SubSeq(history, 1, k)
             b == SubSeq(history, k + 1, n)
  <2>1. \A i \in (k + 2)..(n + 1) : i - (k + 1) \in 1..(n - k) /\ k + (i - (k + 1)) = i - 1
    BY <1>1, <1>2
  <2> HIDE DEF a, b
  <2>2. h = a \o <<c>> \o b /\ a \in Seq(Change) /\ b \in Seq(Change) /\ Len(a) = k /\ Len(b) = n - k
    BY <1>3, <1>4 DEF a, b
  <2>3. \A i \in 1..k : h[i] = a[i]
    BY <2>2, <1>1, <1>2
  <2>4. h[k + 1] = c
    BY <2>2, <1>1, <1>2
  <2>5. \A i \in (k + 2)..(n + 1) : h[i] = b[i - (k + 1)]
    BY <2>2, <1>1, <1>2
  <2> QED  BY <2>1, <2>3, <2>4, <2>5, <1>4 DEF a, b
<1>7. ASSUME NEW i \in 1..(n + 1), NEW j \in 1..(n + 1), i < j PROVE h[i].on <= h[j].on
  <2>1. i \in 1..k \/ i = k + 1 \/ i \in (k + 2)..(n + 1)
    BY <1>1, <1>2
  <2>2. j \in 1..k \/ j = k + 1 \/ j \in (k + 2)..(n + 1)
    BY <1>1, <1>2
  <2>3. c.on \in Int
    BY DaysAre DEF Change
  <2>4. \A x, y \in 1..n : x <= y => history[x].on <= history[y].on
    BY <1>1 DEF HistoryOK, ByEffectiveDate
  <2>5. CASE i \in 1..k /\ j \in 1..k
    BY <2>5, <2>4, <1>1, <1>2, <1>6, <1>7
  <2>6. CASE i \in 1..k /\ j = k + 1
    BY <2>6, <1>2, <1>6
  <2>7. CASE i \in 1..k /\ j \in (k + 2)..(n + 1)
    <3>1. i \in 1..n /\ j - 1 \in 1..n /\ i <= j - 1
      BY <2>7, <1>1, <1>2
    <3> QED  BY <3>1, <2>4, <2>7, <1>6
  <2>8. CASE i = k + 1 /\ j \in (k + 2)..(n + 1)
    <3>1. j - 1 \in (k + 1)..n /\ j - 1 \in 1..n
      BY <2>8, <1>1, <1>2
    <3>2. history[j - 1].on > c.on /\ history[j - 1].on \in Int
      BY <3>1, <1>1, <1>2
    <3> QED  BY <3>2, <2>3, <2>8, <1>6
  <2>9. CASE i \in (k + 2)..(n + 1) /\ j \in (k + 2)..(n + 1)
    <3>1. i - 1 \in 1..n /\ j - 1 \in 1..n /\ i - 1 <= j - 1
      BY <2>9, <1>1, <1>2, <1>7
    <3> QED  BY <3>1, <2>4, <2>9, <1>6
  <2> QED  BY <2>1, <2>2, <2>5, <2>6, <2>7, <2>8, <2>9, <1>7, <1>1, <1>2
<1> QED
  BY <1>5, <1>7 DEF ByEffectiveDate, h

\* An assignment that begins later ends those of its kind that it meets.
LEMMA TariffAssigned ==
  ASSUME AssignedOK, NEW d \in B!Days, NEW k \in Kinds, NEW p \in Nat,
         B!assignToChild(B!Assignment(d, B!Forever, k, p))
  PROVE  AssignedOK'
<1> DEFINE a == B!Assignment(d, B!Forever, k, p)
           overlapping == {x \in assigned : x.kind = a.kind /\ x.from =< a.to /\ x.to >= a.from}
           ended == [x \in overlapping |-> [x EXCEPT !.to = a.from - 1]]
           cut == {[x EXCEPT !.to = a.from - 1] : x \in overlapping}
<1>1. a \in Assigned /\ a.from = d /\ a.to = B!Forever /\ a.from <= a.to
  BY DaysAre DEF B!Assignment, Assigned
<1>2. /\ \A x \in overlapping : x.from < a.from
      /\ assigned' = (assigned \ overlapping) \cup cut \cup {a}
  BY DEF B!assignToChild
<1>3. overlapping \subseteq assigned /\ IsFiniteSet(overlapping) /\ IsFiniteSet(assigned \ overlapping)
  <2>1. overlapping \subseteq assigned /\ assigned \ overlapping \subseteq assigned
    OBVIOUS
  <2> HIDE DEF overlapping
  <2> QED  BY <2>1, FS_Subset DEF AssignedOK
<1> HIDE DEF a
<1>4. IsFiniteSet(cut)
  <2>1. ended \in Surjection(overlapping, cut)
    BY DEF Surjection
  <2> HIDE DEF overlapping, ended, cut
  <2> QED  BY <2>1, <1>3, FS_Surjection
<1>5. ASSUME NEW x \in overlapping
      PROVE  [x EXCEPT !.to = a.from - 1] \in Assigned
             /\ [x EXCEPT !.to = a.from - 1].from <= [x EXCEPT !.to = a.from - 1].to
  <2>1. x \in Assigned /\ x.from < d
    BY <1>1, <1>2, <1>3 DEF AssignedOK
  <2>2. x.from \in B!Days /\ d - 1 \in B!Days /\ x.from <= d - 1
    BY <2>1, DaysAre DEF Assigned
  <2> QED  BY <2>1, <2>2, <1>1 DEF Assigned
<1> HIDE DEF overlapping
<1>6. \A x \in cut : x \in Assigned /\ x.from <= x.to
  BY <1>5
<1>7. IsFiniteSet(assigned')
  <2> HIDE DEF cut
  <2>1. IsFiniteSet((assigned \ overlapping) \cup cut)
    BY <1>3, <1>4, FS_Union
  <2> QED  BY <2>1, <1>2, FS_AddElement
<1> HIDE DEF cut
<1> QED
  BY <1>1, <1>2, <1>6, <1>7 DEF AssignedOK

\* An assignment that is ended keeps a day.
LEMMA AssignmentEnded ==
  ASSUME AssignedOK, NEW a \in assigned, NEW d \in B!Days, B!endAssignment(a, d)
  PROVE  AssignedOK'
<1> DEFINE b == [a EXCEPT !.to = d]
<1>1. assigned' = (assigned \ {a}) \cup {b} /\ d >= a.from
  BY DEF B!endAssignment
<1>2. b \in Assigned /\ b.from <= b.to
  <2>1. a \in Assigned
    BY DEF AssignedOK
  <2> QED  BY <2>1, <1>1, DaysAre DEF Assigned
<1>3. IsFiniteSet(assigned')
  <2>1. IsFiniteSet(assigned \ {a})
    BY FS_Subset DEF AssignedOK
  <2> QED  BY <2>1, <1>1, FS_AddElement
<1> HIDE DEF b
<1> QED
  BY <1>1, <1>2, <1>3 DEF AssignedOK

\* Who leaves has no assignment beyond the day.
LEMMA StatusSet ==
  ASSUME BillInv, NEW s \in {"active", "temporarily_absent", "withdrawn"}, NEW d \in B!Days,
         B!setStatus(s, d)
  PROVE  child' \in Child /\ HistoryOK' /\ AssignedOK'
<1>1. child \in Child /\ AssignedOK /\ HistoryOK
  BY DEF BillInv
<1>2. s \in Status
  BY DEF Status, B!Enrolled, B!Leaving
<1>3. child' \in Child
  <2>1. child.enrollmentDate \in B!Days \cup {B!None} /\ child.withdrawalDate \in B!Days \cup {B!None}
    BY <1>1 DEF Child
  <2> QED  BY <2>1, <1>2 DEF B!setStatus, Child
<1>4. HistoryOK'
  <2> DEFINE c == [old |-> child.status, new |-> s, on |-> d]
  <2>1. c \in Change
    BY <1>1, <1>2 DEF Child, Change
  <2>2. history' = B!Recorded(c)
    BY DEF B!setStatus
  <2> HIDE DEF c
  <2> QED  BY <2>1, <2>2, <1>1, ChangeRecorded DEF HistoryOK
<1>5. AssignedOK'
  <2> DEFINE begun == {x \in assigned : x.from =< d}
             cut == {[a EXCEPT !.to = B!Least(a.to, d)] : a \in begun}
             ended == [a \in begun |-> [a EXCEPT !.to = B!Least(a.to, d)]]
  <2>1. CASE s \notin B!Leaving
    <3>1. assigned' = assigned
      BY <2>1 DEF B!setStatus
    <3> QED  BY <3>1, <1>1 DEF AssignedOK
  <2>2. CASE s \in B!Leaving
    <3>1. assigned' = cut
      BY <2>2 DEF B!setStatus
    <3>2. IsFiniteSet(begun) /\ begun \subseteq assigned
      BY <1>1, FS_Subset DEF AssignedOK
    <3>3. ended \in Surjection(begun, cut)
      BY DEF Surjection
    <3>4. IsFiniteSet(cut)
      <4> HIDE DEF begun, cut, ended
      <4> QED  BY <3>2, <3>3, FS_Surjection
    <3>5. ASSUME NEW a \in begun
          PROVE  [a EXCEPT !.to = B!Least(a.to, d)] \in Assigned
                 /\ [a EXCEPT !.to = B!Least(a.to, d)].from <= [a EXCEPT !.to = B!Least(a.to, d)].to
      <4>1. a \in Assigned /\ a.from <= a.to /\ a.from <= d
        BY <1>1 DEF AssignedOK
      <4>2. B!Least(a.to, d) \in B!Days /\ a.from <= B!Least(a.to, d)
        BY <4>1 DEF Assigned, B!Least
      <4> QED  BY <4>1, <4>2 DEF Assigned
    <3> HIDE DEF begun
    <3>6. \A x \in cut : x \in Assigned /\ x.from <= x.to
      BY <3>5
    <3> HIDE DEF cut
    <3> QED  BY <3>1, <3>4, <3>6 DEF AssignedOK
  <2> QED  BY <2>1, <2>2
<1> QED  BY <1>3, <1>4, <1>5

\* A discount that is created is a row like the others.
LEMMA DiscountAdded ==
  ASSUME DiscountsOK, NEW k, NEW v \in Nat, NEW d \in B!Days,
         k = "fixed" \/ (k = "percent" /\ v <= B!FullPercent), B!createDiscount(k, v, d, B!Forever)
  PROVE  DiscountsOK'
<1> DEFINE x == [kind |-> k, value |-> v, from |-> d, to |-> B!Forever, revoked |-> FALSE]
           n == Len(discounts)
<1>1. x \in Discount /\ (x.kind = "percent" => x.value <= B!FullPercent)
  BY DaysAre DEF Discount
<1>2. discounts' = Append(discounts, x)
  BY DEF B!createDiscount
<1> HIDE DEF x
<1>3. n \in Nat /\ discounts' \in Seq(Discount) /\ Len(discounts') = n + 1 /\ discounts'[n + 1] = x
      /\ \A i \in 1..n : discounts'[i] = discounts[i]
  <2> DEFINE V == Discount
  <2>1. discounts \in Seq(V) /\ x \in V
    BY <1>1 DEF DiscountsOK
  <2> HIDE DEF V
  <2>2. n \in Nat /\ discounts' \in Seq(V) /\ Len(discounts') = n + 1 /\ discounts'[n + 1] = x
        /\ \A i \in 1..n : discounts'[i] = discounts[i]
    BY <2>1, <1>2
  <2> QED  BY <2>2 DEF V
<1>4. \A i \in 1..(n + 1) : i \in 1..n \/ i = n + 1
  BY <1>3
<1> QED
  BY <1>1, <1>3, <1>4 DEF DiscountsOK

\* A discount that is revoked is a row like the others.
LEMMA DiscountRevoked ==
  ASSUME DiscountsOK, NEW i \in DOMAIN discounts, B!revoke(i)
  PROVE  DiscountsOK'
<1> DEFINE n == Len(discounts)
<1>1. n \in Nat /\ DOMAIN discounts = 1..n /\ \A j \in 1..n : discounts[j] \in Discount
  BY SeqIs DEF DiscountsOK
<1>2. discounts' = [discounts EXCEPT ![i].revoked = TRUE]
  BY DEF B!revoke
<1>3. \A j \in 1..n : discounts'[j] \in Discount /\ discounts'[j].kind = discounts[j].kind
                      /\ discounts'[j].value = discounts[j].value
  BY <1>1, <1>2 DEF Discount
<1>4. discounts' \in Seq(Discount) /\ Len(discounts') = n
  <2> DEFINE V == Discount
  <2>1. discounts \in Seq(V) /\ \A j \in 1..n : discounts'[j] \in V
    BY <1>3 DEF DiscountsOK
  <2>2. DOMAIN discounts' = 1..n
    BY <1>1, <1>2
  <2>3. discounts' = [j \in 1..n |-> discounts'[j]]
    BY <2>2, <1>2
  <2> HIDE DEF V
  <2> QED  BY <2>1, <2>2, <2>3, <1>1 DEF V
<1> QED
  BY <1>3, <1>4 DEF DiscountsOK

\* Every edit and every run keeps the rows as the services write them.
LEMMA BillStep ==
  ASSUME BillInv, [B!Next]_B!vars
  PROVE  BillInv'
<1> USE DEF BillInv
<1>1. B!Edit => edits' \in 0..MaxEdits
  BY BillAssumption DEF B!Edit, B!BillConstants, RowsOK
<1>2. ASSUME B!EditRules PROVE BillInv'
  <2>1. PICK r \in RuleSets, d \in B!Days : B!createRules(r, d)
    BY <1>2 DEF B!EditRules
  <2>2. VersionsOK'
    BY <2>1, VersionAdded DEF Rules
  <2> QED  BY <1>1, <2>1, <2>2 DEF B!createRules, HistoryOK, AssignedOK, DiscountsOK, RowsOK
<1>3. ASSUME B!EditDiscounts PROVE BillInv'
  <2>1. (\A v \in FixedValues : v \in Nat) /\ \A v \in PercentValues : v \in Nat /\ v <= B!FullPercent
    BY ValuesAre
  <2>2. 1 \in B!Days /\ 2 \in B!Days
    BY DaysAre
  <2>3. DiscountsOK'
    BY <1>3, <2>1, <2>2, DiscountAdded, DiscountRevoked DEF B!EditDiscounts
  <2> QED  BY <1>1, <1>3, <2>3
       DEF B!EditDiscounts, B!createDiscount, B!revoke, HistoryOK, AssignedOK, VersionsOK, RowsOK
<1>4. ASSUME B!EditHolidays PROVE BillInv'
  <2>1. holidays' \subseteq [on : 1..Month, isWorking : BOOLEAN]
    <3>1. ASSUME NEW d \in 1..Month, B!createHoliday([on |-> d, isWorking |-> d \notin Week])
          PROVE  holidays' \subseteq [on : 1..Month, isWorking : BOOLEAN]
      <4>1. [on |-> d, isWorking |-> d \notin Week] \in [on : 1..Month, isWorking : BOOLEAN]
        OBVIOUS
      <4> QED  BY <4>1, <3>1 DEF B!createHoliday, RowsOK
    <3>2. ASSUME NEW h \in holidays, B!removeHoliday(h)
          PROVE  holidays' \subseteq [on : 1..Month, isWorking : BOOLEAN]
      BY <3>2 DEF B!removeHoliday, RowsOK
    <3> QED  BY <3>1, <3>2, <1>4 DEF B!EditHolidays
  <2>2. B!Edit /\ UNCHANGED <<child, history, assigned, discounts, attended, versions, feeCharged>>
    BY <1>4 DEF B!EditHolidays, B!createHoliday, B!removeHoliday
  <2> QED  BY <1>1, <2>1, <2>2 DEF HistoryOK, AssignedOK, DiscountsOK, VersionsOK, RowsOK
<1>5. ASSUME B!EditTariffs PROVE BillInv'
  <2>1. \A v \in Prices : v \in Nat
    BY ValuesAre
  <2>2. AssignedOK'
    BY <1>5, <2>1, TariffAssigned, AssignmentEnded DEF B!EditTariffs
  <2> QED  BY <1>1, <1>5, <2>2
       DEF B!EditTariffs, B!assignToChild, B!endAssignment, HistoryOK, DiscountsOK, VersionsOK, RowsOK
<1>6. ASSUME B!EditStatus PROVE BillInv'
  <2>1. PICK s \in {"active", "temporarily_absent", "withdrawn"}, d \in B!Days : B!setStatus(s, d)
    BY <1>6 DEF B!EditStatus
  <2>2. child' \in Child /\ HistoryOK' /\ AssignedOK'
    BY <2>1, StatusSet
  <2> QED  BY <1>1, <2>1, <2>2 DEF B!setStatus, DiscountsOK, VersionsOK, RowsOK
<1>7. ASSUME NEW d \in 1..Month, B!recordAttendance(d) PROVE BillInv'
  <2>1. attended' \subseteq 1..Month
    BY <1>7 DEF B!recordAttendance, RowsOK
  <2>2. B!Edit /\ UNCHANGED <<child, history, assigned, discounts, holidays, versions, feeCharged>>
    BY <1>7 DEF B!recordAttendance
  <2> QED  BY <1>1, <2>1, <2>2 DEF HistoryOK, AssignedOK, DiscountsOK, VersionsOK, RowsOK
<1>8. ASSUME B!commit PROVE BillInv'
  BY <1>8 DEF B!commit, HistoryOK, AssignedOK, DiscountsOK, VersionsOK, RowsOK
<1>9. ASSUME UNCHANGED B!vars PROVE BillInv'
  BY <1>9 DEF B!vars, HistoryOK, AssignedOK, DiscountsOK, VersionsOK, RowsOK
<1>10. ASSUME B!feeElsewhere PROVE BillInv'
  BY <1>1, <1>10 DEF B!feeElsewhere, HistoryOK, AssignedOK, DiscountsOK, VersionsOK, RowsOK
<1> QED
  BY <1>2, <1>3, <1>4, <1>5, <1>6, <1>7, <1>8, <1>9, <1>10 DEF B!Next

\* Whatever is edited, the statuses are listed by date, no assignment ends before it
\* begins, no percentage is more than all, and the versions of the rules follow each
\* other without a gap: what computeChildContext and activeOn rely on.
THEOREM BillInvariance == B!Spec => []BillInv
<1>1. B!Init => BillInv
  BY BillInit
<1>2. BillInv /\ [B!Next]_B!vars => BillInv'
  BY BillStep
<1> QED
  BY <1>1, <1>2, PTL DEF B!Spec

-----------------------------------------------------------------------------
\* The windows of the month.

\* A finite set of days has a first one.
LEMMA SmallestOf ==
  ASSUME NEW T, IsFiniteSet(T), T # {}, T \subseteq Int
  PROVE  B!Min(T) \in T /\ \A y \in T : B!Min(T) <= y
<1> DEFINE key == [x \in T |-> 0 - x]
<1>1. \A x \in T : key[x] \in Int
  OBVIOUS
<1>2. PICK x \in T : \A y \in T : key[y] <= key[x]
  <2> HIDE DEF key
  <2> QED  BY <1>1, LargestKey
<1>3. \A y \in T : x <= y
  BY <1>2
<1> QED  BY <1>3 DEF B!Min

\* A finite set of days has a last one.
LEMMA LargestOf ==
  ASSUME NEW T, IsFiniteSet(T), T # {}, T \subseteq Int
  PROVE  B!Max(T) \in T /\ \A y \in T : y <= B!Max(T)
<1> DEFINE key == [x \in T |-> x]
<1>1. \A x \in T : key[x] \in Int
  OBVIOUS
<1>2. PICK x \in T : \A y \in T : key[y] <= key[x]
  <2> HIDE DEF key
  <2> QED  BY <1>1, LargestKey
<1>3. \A y \in T : x >= y
  BY <1>2
<1> QED  BY <1>3 DEF B!Max

\* A list has finitely many members.
LEMMA ToSetFinite ==
  ASSUME NEW n \in Nat, NEW s, DOMAIN s = 1..n
  PROVE  IsFiniteSet(B!ToSet(s))
<1> DEFINE f == [i \in 1..n |-> s[i]]
           T == {s[i] : i \in 1..n}
<1>1. f \in Surjection(1..n, T)
  BY DEF Surjection
<1>2. IsFiniteSet(1..n)
  BY UpTo
<1>3. IsFiniteSet(T)
  <2> HIDE DEF f, T
  <2> QED  BY <1>1, <1>2, FS_Surjection
<1>4. B!ToSet(s) = T
  BY DEF B!ToSet
<1> QED  BY <1>3, <1>4

\* The first tariff begins on a day, or there is none.
LEMMA FirstTariffIs ==
  ASSUME AssignedOK
  PROVE  B!FirstTariff \in B!Days \cup {B!None}
<1>1. CASE assigned = {}
  BY <1>1 DEF B!FirstTariff
<1>2. CASE assigned # {}
  <2> DEFINE T == {a.from : a \in assigned}
             f == [a \in assigned |-> a.from]
  <2>1. f \in Surjection(assigned, T)
    BY DEF Surjection
  <2>2. IsFiniteSet(T)
    <3> HIDE DEF f, T
    <3> QED  BY <2>1, FS_Surjection DEF AssignedOK
  <2>3. T \subseteq B!Days /\ T # {}
    BY <1>2 DEF AssignedOK, Assigned
  <2>4. B!FirstTariff = B!Min(T)
    BY <1>2 DEF B!FirstTariff
  <2> HIDE DEF T
  <2>5. B!Min(T) \in T
    BY <2>2, <2>3, DaysAre, SmallestOf
  <2> QED  BY <2>3, <2>4, <2>5
<1> QED  BY <1>1, <1>2

\* The status with which a child comes out of its first k changes.
NowEnrolled(k) ==
  IF k = 0 THEN history[1].old \in B!Enrolled ELSE history[k].new \in B!Enrolled

\* The last of the first k changes that lies before the day, 0 for none.
LastBefore(k, d, i) ==
  i \in 0..k /\ (i = 0 \/ history[i].on < d) /\ \A m \in (i + 1)..k : d <= history[m].on

\* The first k changes have the child enrolled at the end or the beginning of a
\* day.
EnrolledBy(k, d, first) ==
  \/ \E i \in 1..k : history[i].on = d /\ history[i].new \in B!Enrolled
  \/ first <= d /\ \E i \in 0..k : LastBefore(k, d, i) /\ NowEnrolled(i)

\* A later change leaves the days before it and may enroll its own day.
LEMMA EarlierDay ==
  ASSUME NEW k \in Nat, k > 0, NEW d \in Int, NEW first, d <= history[k].on, history[k].on \in Int
  PROVE  EnrolledBy(k, d, first) <=> \/ EnrolledBy(k - 1, d, first)
                                     \/ history[k].on = d /\ history[k].new \in B!Enrolled
<1>1. \A i : LastBefore(k, d, i) <=> LastBefore(k - 1, d, i)
  <2>1. ASSUME NEW i, LastBefore(k, d, i) PROVE LastBefore(k - 1, d, i)
    <3>1. i # k /\ i \in 0..k
      BY <2>1 DEF LastBefore
    <3>2. i \in 0..(k - 1)
      BY <3>1
    <3>3. \A m \in (i + 1)..(k - 1) : m \in (i + 1)..k
      BY <3>2
    <3> QED  BY <2>1, <3>2, <3>3 DEF LastBefore
  <2>2. ASSUME NEW i, LastBefore(k - 1, d, i) PROVE LastBefore(k, d, i)
    <3>1. i \in 0..(k - 1)
      BY <2>2 DEF LastBefore
    <3>2. i \in 0..k /\ \A m \in (i + 1)..k : m = k \/ m \in (i + 1)..(k - 1)
      BY <3>1
    <3> QED  BY <2>2, <3>2 DEF LastBefore
  <2> QED  BY <2>1, <2>2
<1>2. \A i : LastBefore(k - 1, d, i) => i \in 0..(k - 1) /\ i \in 0..k
  <2>1. \A i \in 0..(k - 1) : i \in 0..k
    OBVIOUS
  <2> QED  BY <2>1 DEF LastBefore
<1>3. \A i : i \in 1..k <=> i \in 1..(k - 1) \/ i = k
  OBVIOUS
<1> QED  BY <1>1, <1>2, <1>3 DEF EnrolledBy

\* After the last change a day is as it left it.
LEMMA LaterDay ==
  ASSUME NEW k \in Nat, NEW d \in Int, NEW first, k > 0 => history[k].on < d,
         \A i \in 1..k : history[i].on \in Int /\ history[i].on < d, first <= d
  PROVE  EnrolledBy(k, d, first) <=> NowEnrolled(k)
<1>1. LastBefore(k, d, k)
  <2>1. k \in 0..k /\ (k + 1)..k = {} /\ (k = 0 \/ k \in 1..k)
    OBVIOUS
  <2> QED  BY <2>1 DEF LastBefore
<1>2. ASSUME NEW i, LastBefore(k, d, i) PROVE i = k
  <2>1. i \in 0..k /\ \A m \in (i + 1)..k : d <= history[m].on
    BY <1>2 DEF LastBefore
  <2>2. SUFFICES ASSUME i # k PROVE FALSE
    OBVIOUS
  <2>3. k \in (i + 1)..k /\ k \in 1..k
    BY <2>1, <2>2
  <2> QED  BY <2>1, <2>3
<1>3. ~\E i \in 1..k : history[i].on = d
  OBVIOUS
<1>4. k \in 0..k
  OBVIOUS
<1> QED  BY <1>1, <1>2, <1>3, <1>4 DEF EnrolledBy

InWin(w, d) == w.start <= d /\ d <= w.end

\* The episodes so far hold a day.
Holds(e, d) ==
  \/ \E j \in 1..Len(e.done) : InWin(e.done[j], d)
  \/ e.start # B!None /\ e.start <= d

\* The episodes of the first k changes: the open one began by the last change,
\* the closed ones ended by it, and they hold the days the child was enrolled.
EpisodesTo(e, k, first) ==
  LET last == IF k = 0 THEN first ELSE history[k].on IN
  /\ e \in Open
  /\ e.start # B!None <=> NowEnrolled(k)
  /\ e.start # B!None => e.start <= last
  /\ \A j \in 1..Len(e.done) : e.done[j].end <= last
  /\ \A d \in Int : Holds(e, d) <=> EnrolledBy(k, d, first)

\* Before any change of status there is at most the episode that is open.
LEMMA EpisodesStart ==
  ASSUME NEW first \in Int, first # B!None,
         NEW e, e = [start |-> IF NowEnrolled(0) THEN first ELSE B!None, done |-> << >>]
  PROVE  EpisodesTo(e, 0, first)
<1>1. e \in Open /\ e.done = << >> /\ Len(e.done) = 0
  BY DaysAre DEF Open
<1>2. (e.start # B!None <=> NowEnrolled(0)) /\ (e.start # B!None => e.start = first)
  OBVIOUS
<1>3. ASSUME NEW d \in Int PROVE Holds(e, d) <=> EnrolledBy(0, d, first)
  <2>1. Holds(e, d) <=> NowEnrolled(0) /\ first <= d
    BY <1>1, <1>2 DEF Holds
  <2>2. 1..0 = {} /\ 0..0 = {0} /\ (0 + 1)..0 = {}
    OBVIOUS
  <2>3. LastBefore(0, d, 0)
    BY <2>2 DEF LastBefore
  <2> QED  BY <2>1, <2>2, <2>3 DEF EnrolledBy
<1> QED  BY <1>1, <1>2, <1>3 DEF EpisodesTo

\* One change more.
LEMMA EpisodesStep ==
  ASSUME HistoryOK, NEW k \in 1..Len(history), NEW first \in Int, first <= history[1].on,
         NEW e, EpisodesTo(e, k - 1, first)
  PROVE  EpisodesTo(B!Episode(e, history[k]), k, first)
<1> DEFINE c == history[k]
           o == history[k].on
           f == B!Episode(e, c)
           last == IF k - 1 = 0 THEN first ELSE history[k - 1].on
<1>1. k \in Nat /\ k > 0 /\ k - 1 \in Nat /\ (k - 1 = 0 \/ k - 1 \in 1..Len(history)) /\ 1 \in 1..Len(history)
      /\ \A i \in 1..k : i \in 1..Len(history) /\ (i = k \/ i < k)
  BY SeqIs DEF HistoryOK
<1>2. \A i \in 1..Len(history) : history[i].on \in Int /\ history[i].on # B!None
  <2>1. \A i \in 1..Len(history) : history[i] \in Change
    BY SeqIs DEF HistoryOK
  <2> QED  BY <2>1, DaysAre DEF Change
<1>3. o \in Int /\ o # B!None /\ (\A i \in 1..k : history[i].on \in Int /\ history[i].on <= o) /\ last <= o /\ first <= o
      /\ last \in Int
  <2>1. \A i \in 1..k : history[i].on \in Int /\ history[i].on <= o
    BY <1>1, <1>2 DEF HistoryOK, ByEffectiveDate
  <2>2. first <= o
    <3>1. 1 \in 1..k
      BY <1>1
    <3> QED  BY <3>1, <2>1, <1>1, <1>2
  <2>3. last \in Int /\ last <= o
    <3>1. k - 1 = 0 \/ k - 1 \in 1..k
      BY <1>1
    <3> QED  BY <3>1, <2>1, <2>2
  <2> QED  BY <1>1, <1>2, <2>1, <2>2, <2>3
<1>4. /\ e \in Open /\ (e.start # B!None <=> NowEnrolled(k - 1)) /\ (e.start # B!None => e.start <= last)
      /\ (\A j \in 1..Len(e.done) : e.done[j].end <= last)
      /\ \A d \in Int : Holds(e, d) <=> EnrolledBy(k - 1, d, first)
  BY DEF EpisodesTo
<1>5. /\ e.start \in Int /\ e.done \in Seq(Win) /\ Len(e.done) \in Nat
      /\ \A j \in 1..Len(e.done) : e.done[j] \in Win /\ e.done[j].end \in Int
  <2>1. e.start \in Int /\ e.done \in Seq(Win)
    BY <1>4 DEF Open
  <2>2. Len(e.done) \in Nat /\ \A j \in 1..Len(e.done) : e.done[j] \in Win
    <3> DEFINE V == Win
    <3> HIDE DEF V
    <3>1. e.done \in Seq(V)
      BY <2>1 DEF V
    <3>2. Len(e.done) \in Nat /\ \A j \in 1..Len(e.done) : e.done[j] \in V
      BY <3>1, SeqIs
    <3> QED  BY <3>2 DEF V
  <2> QED  BY <2>1, <2>2 DEF Win
<1>5a. \A j \in 1..Len(e.done) : e.done[j].end <= o
  <2>1. ASSUME NEW j \in 1..Len(e.done) PROVE e.done[j].end <= o
    <3> DEFINE z == e.done[j].end
    <3>1. z \in Int /\ z <= last
      BY <1>4, <1>5
    <3> HIDE DEF last, o, z
    <3>2. z <= o
      BY <1>3, <3>1
    <3> QED  BY <3>2 DEF z
  <2> QED  BY <2>1
<1>6. NowEnrolled(k) <=> c.new \in B!Enrolled
  BY <1>1 DEF NowEnrolled
<1>7. ASSUME NEW d \in Int, d <= o
      PROVE  EnrolledBy(k, d, first) <=> Holds(e, d) \/ (o = d /\ c.new \in B!Enrolled)
  BY <1>1, <1>3, <1>4, <1>7, EarlierDay
<1>8. ASSUME NEW d \in Int, o < d PROVE EnrolledBy(k, d, first) <=> c.new \in B!Enrolled
  <2>1. \A i \in 1..k : history[i].on \in Int /\ history[i].on < d
    BY <1>3, <1>8
  <2>2. first <= d
    BY <1>3, <1>8
  <2> QED  BY <1>1, <1>6, <1>8, <2>1, <2>2, LaterDay
<1>9. ASSUME NEW d \in Int, o < d PROVE Holds(e, d) <=> e.start # B!None
  <2>1. ~\E j \in 1..Len(e.done) : InWin(e.done[j], d)
    <3>1. ASSUME NEW j \in 1..Len(e.done) PROVE e.done[j].end < d
      <4> DEFINE z == e.done[j].end
      <4>1. z \in Int /\ z <= o
        BY <1>5, <1>5a
      <4> HIDE DEF last, o, z
      <4>2. z < d
        BY <1>3, <1>9, <4>1
      <4> QED  BY <4>2 DEF z
    <3>2. \A j \in 1..Len(e.done) : e.done[j].end \in Int
      BY <1>5
    <3> QED  BY <3>1, <3>2, <1>9 DEF InWin
  <2> QED  BY <2>1, <1>3, <1>4, <1>5, <1>9, SMTT(30) DEF Holds
<1> HIDE DEF c, o, last
<1>10. CASE c.new \in B!Enrolled
  <2>1. f.start = (IF e.start = B!None THEN o ELSE e.start) /\ f.done = e.done /\ f \in Open
    BY <1>3, <1>4, <1>5, <1>10 DEF B!Episode, Open, c, o
  <2>2. f.start # B!None /\ f.start <= o
    BY <2>1, <1>3, <1>4, <1>5
  <2>3. \A j \in 1..Len(f.done) : f.done[j].end <= o
    BY <2>1, <1>3, <1>4, <1>5, SMTT(30)
  <2>4. ASSUME NEW d \in Int PROVE Holds(f, d) <=> EnrolledBy(k, d, first)
    <3>1. CASE d < o
      <4>1. Holds(f, d) <=> Holds(e, d)
        BY <2>1, <3>1, <1>3 DEF Holds
      <4> QED  BY <4>1, <3>1, <1>3, <1>7
    <3>2. CASE d = o
      <4>1. Holds(f, d)
        BY <2>2, <3>2 DEF Holds
      <4> QED  BY <4>1, <3>2, <1>3, <1>7, <1>10
    <3>3. CASE o < d
      <4>1. Holds(f, d)
        BY <2>1, <2>2, <3>3, <1>3, <1>5 DEF Holds
      <4> QED  BY <4>1, <3>3, <1>8, <1>10
    <3> QED  BY <3>1, <3>2, <3>3, <1>3
  <2> HIDE DEF f
  <2>5. EpisodesTo(f, k, first)
    BY <2>1, <2>2, <2>3, <2>4, <1>1, <1>6, <1>10 DEF EpisodesTo, o
  <2> QED  BY <2>5 DEF f, c
<1>11. CASE c.new \notin B!Enrolled /\ e.start = B!None
  <2>1. f = e
    BY <1>11 DEF B!Episode, c
  <2>2. \A j \in 1..Len(f.done) : f.done[j].end <= o
    BY <2>1, <1>5a
  <2>3. ASSUME NEW d \in Int PROVE Holds(f, d) <=> EnrolledBy(k, d, first)
    <3>1. CASE d <= o
      BY <2>1, <3>1, <1>7, <1>11
    <3>2. CASE o < d
      BY <2>1, <3>2, <1>8, <1>9, <1>11
    <3> QED  BY <3>1, <3>2, <1>3
  <2> HIDE DEF f
  <2>4. EpisodesTo(f, k, first)
    BY <2>1, <2>2, <2>3, <1>1, <1>4, <1>6, <1>11 DEF EpisodesTo, o
  <2> QED  BY <2>4 DEF f, c
<1>12. CASE c.new \notin B!Enrolled /\ e.start # B!None
  <2> DEFINE w == B!Window(e.start, o)
             n == Len(e.done)
  <2>1. f.start = B!None /\ f.done = Append(e.done, w)
    BY <1>12 DEF B!Episode, c, o
  <2>2. w \in Win /\ w.start = e.start /\ w.end = o
    BY <1>3, <1>5 DEF Win, B!Window
  <2> HIDE DEF w
  <2>3. f.done \in Seq(Win) /\ Len(f.done) = n + 1 /\ f.done[n + 1] = w /\ \A j \in 1..n : f.done[j] = e.done[j]
    <3> DEFINE V == Win
    <3>1. e.done \in Seq(V) /\ w \in V
      BY <1>5, <2>2
    <3> HIDE DEF V, f
    <3>2. f.done \in Seq(V) /\ Len(f.done) = n + 1 /\ f.done[n + 1] = w /\ \A j \in 1..n : f.done[j] = e.done[j]
      BY <2>1, <3>1
    <3> QED  BY <3>2 DEF V
  <2>4. n \in Nat /\ (\A j : j \in 1..(n + 1) <=> j \in 1..n \/ j = n + 1)
    BY <1>5
  <2>5. f \in Open
    <3>1. f = [start |-> B!None, done |-> Append(e.done, w)]
      BY <1>12 DEF B!Episode, c, o, w
    <3> HIDE DEF f
    <3> QED  BY <3>1, <2>1, <2>3, DaysAre DEF Open
  <2>6. \A j \in 1..Len(f.done) : f.done[j].end <= o
    <3> HIDE DEF f
    <3>1. \A j \in 1..n : f.done[j].end <= o
      BY <2>3, <1>5a
    <3>2. f.done[n + 1].end <= o
      BY <2>2, <2>3, <1>3
    <3> QED  BY <3>1, <3>2, <2>3, <2>4
  <2>7. ASSUME NEW d \in Int PROVE Holds(f, d) <=> (\E j \in 1..n : InWin(e.done[j], d)) \/ InWin(w, d)
    BY <2>1, <2>3, <2>4 DEF Holds
  <2>8. ASSUME NEW d \in Int PROVE Holds(f, d) <=> EnrolledBy(k, d, first)
    <3>1. CASE d <= o
      <4>1. Holds(f, d) <=> Holds(e, d)
        BY <3>1, <2>2, <2>7, <1>12 DEF Holds, InWin
      <4> QED  BY <4>1, <3>1, <1>7, <1>12
    <3>2. CASE o < d
      <4>1. ~Holds(f, d)
        BY <3>2, <2>2, <2>7, <1>3, <1>5, <1>5a, SMTT(30) DEF InWin
      <4> QED  BY <4>1, <3>2, <1>8, <1>12
    <3> QED  BY <3>1, <3>2, <1>3
  <2> HIDE DEF f
  <2>9. EpisodesTo(f, k, first)
    BY <2>1, <2>5, <2>6, <2>8, <1>1, <1>6, <1>12 DEF EpisodesTo, o
  <2> QED  BY <2>9 DEF f, c
<1> QED
  BY <1>10, <1>11, <1>12

\* After all changes the episodes hold the days the child was enrolled.
LEMMA HistoryEpisodes ==
  ASSUME HistoryOK, Len(history) > 0, NEW first \in Int, first # B!None, first <= history[1].on,
         NEW start, start = [start |-> IF NowEnrolled(0) THEN first ELSE B!None, done |-> << >>]
  PROVE  EpisodesTo(EpisodesOf(start, history), Len(history), first)
<1> DEFINE n == Len(history)
           T == {k \in 0..n : \A c : EpisodeLine(c, n, history, start) => EpisodesTo(c[k], k, first)}
<1>1. n \in Nat /\ DOMAIN history = 1..n /\ \A i \in 1..n : history[i].on \in Int
  <2>1. n \in Nat /\ DOMAIN history = 1..n /\ \A i \in 1..n : history[i] \in Change
    BY SeqIs DEF HistoryOK
  <2> QED  BY <2>1, DaysAre DEF Change
<1>2. EpisodesTo(start, 0, first)
  BY EpisodesStart
<1>3. start \in Open
  BY <1>2 DEF EpisodesTo
<1>4. PICK c : EpisodeLine(c, n, history, start) /\ EpisodesOf(start, history) = c[n]
  <2> HIDE DEF n, T
  <2>1. n \in Nat /\ DOMAIN history = 1..n /\ (\A i \in 1..n : history[i].on \in Int) /\ start \in Open
    BY <1>1, <1>3
  <2> QED  BY <2>1, EpisodeFold
<1>5. 0 \in T
  BY <1>1, <1>2 DEF EpisodeLine
<1>6. ASSUME NEW k \in 1..n, k - 1 \in T PROVE k \in T
  <2>1. k \in 0..n
    BY <1>1
  <2>2. ASSUME NEW c1, EpisodeLine(c1, n, history, start) PROVE EpisodesTo(c1[k], k, first)
    <3>1. EpisodesTo(c1[k - 1], k - 1, first)
      BY <1>6, <2>2
    <3>2. c1[k] = B!Episode(c1[k - 1], history[k])
      BY <2>2 DEF EpisodeLine
    <3> QED  BY <3>1, <3>2, EpisodesStep
  <2> QED  BY <2>1, <2>2
<1>7. n \in T
  <2>1. n \in 0..n
    BY <1>1
  <2> HIDE DEF T, n
  <2> QED  BY <1>1, <1>5, <1>6, <2>1, InductionUpTo
<1> QED
  BY <1>4, <1>7

\* The status with which a day begins is that of the last change before it.
LEMMA StatusOfDay ==
  ASSUME HistoryOK, NEW d \in Int, NEW i, LastBefore(Len(history), d, i)
  PROVE  B!StatusBefore(d) \in B!Enrolled <=> NowEnrolled(i)
<1> DEFINE n == Len(history)
           earlier == {j \in 1..n : history[j].on < d}
<1>1. n \in Nat /\ DOMAIN history = 1..n /\ \A j \in 1..n : history[j].on \in Int
  <2>1. n \in Nat /\ DOMAIN history = 1..n /\ \A j \in 1..n : history[j] \in Change
    BY SeqIs DEF HistoryOK
  <2> QED  BY <2>1, DaysAre DEF Change
<1>2. B!StatusBefore(d) = IF earlier = {} THEN history[1].old ELSE history[B!Max(earlier)].new
  BY <1>1 DEF B!StatusBefore
<1>3. i \in 0..n /\ (i = 0 \/ history[i].on < d) /\ \A m \in (i + 1)..n : d <= history[m].on
  BY DEF LastBefore
<1>4. \A j \in earlier : j <= i
  <2>1. SUFFICES ASSUME NEW j \in 1..n, history[j].on < d, ~(j <= i) PROVE FALSE
    BY <1>1, <1>3
  <2>2. j \in (i + 1)..n
    BY <1>1, <1>3, <2>1
  <2> QED  BY <2>1, <2>2, <1>1, <1>3
<1>5. CASE i = 0
  <2>1. earlier = {}
    BY <1>4, <1>5
  <2> QED  BY <2>1, <1>2, <1>5 DEF NowEnrolled
<1>6. CASE i # 0
  <2>1. i \in earlier
    BY <1>1, <1>3, <1>6
  <2>2. B!Max(earlier) \in earlier /\ \A y \in earlier : y <= B!Max(earlier)
    <3> HIDE DEF earlier
    <3>1. earlier \in SUBSET (1..n) /\ earlier # {}
      BY <2>1 DEF earlier
    <3> QED  BY <3>1, <1>1, LargestChosen
  <2>3. B!Max(earlier) = i
    BY <2>1, <2>2, <1>1, <1>3, <1>4
  <2> QED  BY <2>1, <2>3, <1>2, <1>6 DEF NowEnrolled
<1> QED  BY <1>5, <1>6

\* Each day has a last change before it, or none before it.
LEMMA ADayHasALast ==
  ASSUME HistoryOK, NEW d \in Int
  PROVE  \E i \in 0..Len(history) : LastBefore(Len(history), d, i)
<1> DEFINE n == Len(history)
           earlier == {j \in 1..n : history[j].on < d}
<1>1. n \in Nat /\ \A j \in 1..n : history[j].on \in Int
  <2>1. n \in Nat /\ \A j \in 1..n : history[j] \in Change
    BY SeqIs DEF HistoryOK
  <2> QED  BY <2>1, DaysAre DEF Change
<1>2. CASE earlier = {}
  <2>1. 0 \in 0..n /\ \A m \in (0 + 1)..n : d <= history[m].on
    BY <1>1, <1>2
  <2> QED  BY <2>1 DEF LastBefore
<1>3. CASE earlier # {}
  <2>1. PICK x \in earlier : \A y \in earlier : y <= x
    <3> HIDE DEF earlier
    <3>1. earlier \in SUBSET (1..n)
      BY DEF earlier
    <3> QED  BY <3>1, <1>1, <1>3, Largest
  <2>2. x \in 0..n /\ history[x].on < d
    BY <1>1, <2>1
  <2>3. ASSUME NEW m \in (x + 1)..n PROVE d <= history[m].on
    <3>1. m \in 1..n /\ ~(m <= x)
      BY <1>1, <2>1
    <3>2. m \notin earlier
      BY <3>1, <2>1
    <3> QED  BY <3>1, <3>2, <1>1
  <2> QED  BY <2>2, <2>3 DEF LastBefore
<1> QED  BY <1>2, <1>3

\* A day of the month lies in an episode when the child was enrolled on it.
LEMMA Intervals ==
  ASSUME BillInv
  PROVE  LET I == B!ToSet(B!Episodes(child, history, B!FirstTariff, Month)) IN
         /\ IsFiniteSet(I) /\ I \subseteq Win
         /\ \A d \in 1..Month : (\E w \in I : InWin(w, d)) <=> B!EnrolledOn(d)
<1> DEFINE I == B!ToSet(B!Episodes(child, history, B!FirstTariff, Month))
           n == Len(history)
<1>1. /\ child.enrollmentDate \in B!Days \cup {B!None} /\ child.withdrawalDate \in B!Days \cup {B!None}
      /\ HistoryOK /\ B!FirstTariff \in B!Days \cup {B!None}
  BY FirstTariffIs DEF BillInv, Child
<1>2. n \in Nat /\ DOMAIN history = 1..n /\ \A i \in 1..n : history[i] \in Change
  BY <1>1, SeqIs DEF HistoryOK
<1>3. CASE history = << >>
  <2> DEFINE w == B!Window(IF child.enrollmentDate = B!None THEN 1 ELSE child.enrollmentDate,
                           IF child.withdrawalDate = B!None THEN Month ELSE child.withdrawalDate)
  <2>1. B!Episodes(child, history, B!FirstTariff, Month) = <<w>>
    BY <1>3 DEF B!Episodes
  <2>2. I = {w}
    BY <2>1 DEF B!ToSet
  <2>3. w \in Win
    BY <1>1, DaysAre DEF B!Window, Win
  <2>4. ASSUME NEW d \in 1..Month PROVE InWin(w, d) <=> B!EnrolledOn(d)
    BY <1>1, <1>3, DaysAre DEF InWin, B!EnrolledOn, B!Window
  <2> HIDE DEF w
  <2>5. IsFiniteSet({w})
    BY FS_Singleton
  <2> QED  BY <2>2, <2>3, <2>4, <2>5
<1>4. CASE history # << >>
  <2> DEFINE dates == {d \in {child.enrollmentDate, B!FirstTariff, history[1].on} : d # B!None}
             first == B!Min(dates)
             start == [start |-> IF NowEnrolled(0) THEN first ELSE B!None, done |-> << >>]
             e == EpisodesOf(start, history)
             last == B!Window(e.start, Month)
  <2>1. n > 0 /\ history[1].on \in B!Days
    <3>1. n > 0
      BY <1>1, <1>2, <1>4 DEF HistoryOK
    <3> QED  BY <3>1, <1>2 DEF Change
  <2>2. first \in dates /\ \A y \in dates : first <= y
    <3>1. IsFiniteSet({child.enrollmentDate, B!FirstTariff, history[1].on})
      <4>1. IsFiniteSet({child.enrollmentDate}) /\ IsFiniteSet({B!FirstTariff}) /\ IsFiniteSet({history[1].on})
        BY FS_Singleton
      <4>2. IsFiniteSet({child.enrollmentDate} \cup {B!FirstTariff})
        BY <4>1, FS_Union
      <4>3. IsFiniteSet(({child.enrollmentDate} \cup {B!FirstTariff}) \cup {history[1].on})
        BY <4>1, <4>2, FS_Union
      <4>4. {child.enrollmentDate, B!FirstTariff, history[1].on}
              = ({child.enrollmentDate} \cup {B!FirstTariff}) \cup {history[1].on}
        OBVIOUS
      <4> QED  BY <4>3, <4>4
    <3>2. IsFiniteSet(dates)
      BY <3>1, FS_Subset
    <3>3. dates \subseteq Int /\ history[1].on \in dates
      BY <1>1, <2>1, DaysAre
    <3> HIDE DEF dates
    <3> QED  BY <3>2, <3>3, SmallestOf
  <2>3. first \in Int /\ first # B!None /\ first <= history[1].on
    BY <1>1, <2>1, <2>2, DaysAre
  <2>4. B!Episodes(child, history, B!FirstTariff, Month) = IF e.start = B!None THEN e.done ELSE Append(e.done, last)
    <3>1. [start |-> B!FirstStart(child, history, B!FirstTariff), done |-> << >>] = start
      BY Zenon DEF B!FirstStart, NowEnrolled
    <3> HIDE DEF start
    <3> QED  BY <3>1, <1>4 DEF B!Episodes, EpisodesOf
  <2>5. EpisodesTo(e, n, first)
    <3> HIDE DEF first
    <3> QED  BY <1>1, <2>1, <2>3, HistoryEpisodes
  <2> HIDE DEF e, start, n
  <2>6. e.start \in Int /\ e.done \in Seq(Win)
    BY <2>5 DEF EpisodesTo, Open
  <2>7. last \in Win /\ last.start = e.start /\ last.end = Month
    BY <2>6, DaysAre DEF Win, B!Window
  <2> HIDE DEF last
  <2>8. Len(e.done) \in Nat /\ \A j \in 1..Len(e.done) : e.done[j] \in Win
    BY <2>6, SeqIs
  <2>9. \E s, m : /\ I = B!ToSet(s) /\ m \in Nat /\ DOMAIN s = 1..m /\ \A j \in 1..m : s[j] \in Win
                  /\ \A d \in 1..Month : (\E j \in 1..m : InWin(s[j], d)) <=> Holds(e, d)
    <3>1. CASE e.start = B!None
      <4>1. I = B!ToSet(e.done) /\ DOMAIN e.done = 1..Len(e.done)
        BY <2>4, <2>6, <3>1
      <4>2. \A d : (\E j \in 1..Len(e.done) : InWin(e.done[j], d)) <=> Holds(e, d)
        BY <3>1 DEF Holds
      <4> QED  BY <4>1, <4>2, <2>8
    <3>2. CASE e.start # B!None
      <4> DEFINE s == Append(e.done, last)
                 m == Len(e.done)
      <4>1. I = B!ToSet(s)
        BY <2>4, <3>2
      <4>2. DOMAIN s = 1..(m + 1) /\ s[m + 1] = last /\ \A j \in 1..m : s[j] = e.done[j]
        <5> DEFINE V == Win
        <5>1. e.done \in Seq(V) /\ last \in V
          BY <2>6, <2>7
        <5> HIDE DEF V
        <5> QED  BY <5>1
      <4>3. \A j : j \in 1..(m + 1) <=> j \in 1..m \/ j = m + 1
        BY <2>8
      <4> HIDE DEF s, m
      <4>4. \A j \in 1..(m + 1) : s[j] \in Win
        BY <4>2, <4>3, <2>7, <2>8 DEF m
      <4>5. ASSUME NEW d \in 1..Month PROVE (\E j \in 1..(m + 1) : InWin(s[j], d)) <=> Holds(e, d)
        <5>1. InWin(last, d) <=> e.start <= d
          BY <2>7, DaysAre DEF InWin
        <5> QED  BY <5>1, <4>2, <4>3, <3>2 DEF Holds, m
      <4>6. m + 1 \in Nat
        BY <2>8 DEF m
      <4> QED  BY <4>1, <4>2, <4>4, <4>5, <4>6
    <3> QED  BY <3>1, <3>2
  <2>10. PICK s, m : /\ I = B!ToSet(s) /\ m \in Nat /\ DOMAIN s = 1..m /\ \A j \in 1..m : s[j] \in Win
                     /\ \A d \in 1..Month : (\E j \in 1..m : InWin(s[j], d)) <=> Holds(e, d)
    BY <2>9
  <2>11. IsFiniteSet(I) /\ I \subseteq Win /\ \A d : (\E w \in I : InWin(w, d)) <=> \E j \in 1..m : InWin(s[j], d)
    <3>1. IsFiniteSet(I)
      BY <2>10, ToSetFinite
    <3> QED  BY <3>1, <2>10 DEF B!ToSet
  <2>12. ASSUME NEW d \in 1..Month PROVE EnrolledBy(n, d, first) <=> B!EnrolledOn(d)
    <3>1. PICK i \in 0..n : LastBefore(n, d, i)
      BY <1>1, ADayHasALast DEF n
    <3>2. B!StatusBefore(d) \in B!Enrolled <=> NowEnrolled(i)
      BY <1>1, <3>1, StatusOfDay DEF n
    <3>3. \A j : LastBefore(n, d, j) => (B!StatusBefore(d) \in B!Enrolled <=> NowEnrolled(j))
      BY <1>1, StatusOfDay DEF n
    <3>4. (\E j \in 0..n : LastBefore(n, d, j) /\ NowEnrolled(j)) <=> B!StatusBefore(d) \in B!Enrolled
      BY <3>1, <3>2, <3>3
    <3>5. first <= d <=> \/ d >= history[1].on
                         \/ child.enrollmentDate # B!None /\ d >= child.enrollmentDate
                         \/ B!FirstTariff # B!None /\ d >= B!FirstTariff
      <4>1. first <= d <=> \E y \in dates : y <= d
        <5>1. \A y \in dates : y \in Int
          BY <1>1, <2>1, DaysAre
        <5> HIDE DEF first, dates
        <5> QED  BY <5>1, <2>2, <2>3
      <4>2. history[1].on # B!None
        BY <2>1, DaysAre
      <4>3. (\E y \in dates : y <= d)
              <=> \/ history[1].on <= d
                  \/ child.enrollmentDate # B!None /\ child.enrollmentDate <= d
                  \/ B!FirstTariff # B!None /\ B!FirstTariff <= d
        <5> DEFINE a == child.enrollmentDate
                   b == B!FirstTariff
                   c == history[1].on
        <5>1. dates = {x \in {a, b, c} : x # B!None} /\ c # B!None
          BY <4>2
        <5> HIDE DEF a, b, c, dates
        <5>2. \A y : y \in dates <=> (y = a \/ y = b \/ y = c) /\ y # B!None
          BY <5>1
        <5>3. (\E y \in dates : y <= d) <=> c <= d \/ (a # B!None /\ a <= d) \/ (b # B!None /\ b <= d)
          BY <5>1, <5>2
        <5> QED  BY <5>3 DEF a, b, c
      <4>4. /\ child.enrollmentDate <= d <=> d >= child.enrollmentDate
            /\ B!FirstTariff <= d <=> d >= B!FirstTariff
            /\ history[1].on <= d <=> d >= history[1].on
        <5>1. \A x : x \in B!Days \cup {B!None} => (x <= d <=> d >= x)
          BY DaysAre
        <5> HIDE DEF first, dates
        <5> QED  BY <5>1, <1>1, <2>1
      <4> HIDE DEF first, dates
      <4> QED  BY <4>1, <4>3, <4>4, Zenon
    <3> HIDE DEF first, dates
    <3>6. EnrolledBy(n, d, first) <=> \/ \E j \in 1..n : history[j].on = d /\ history[j].new \in B!Enrolled
                                      \/ first <= d /\ B!StatusBefore(d) \in B!Enrolled
      BY <3>4 DEF EnrolledBy
    <3> QED  BY <3>5, <3>6, <1>2, <1>4 DEF B!EnrolledOn
  <2>13. ASSUME NEW d \in 1..Month PROVE Holds(e, d) <=> EnrolledBy(n, d, first)
    BY <2>5 DEF EpisodesTo
  <2> HIDE DEF first, dates
  <2> QED  BY <2>10, <2>11, <2>12, <2>13
<1> QED  BY <1>3, <1>4

\* A window that lies in the month.
MonthWin == {w \in Win : 1 <= w.start /\ w.start <= w.end /\ w.end <= Month}

\* Cutting windows keeps the days between the two it cuts at.
LEMMA ClippedDays ==
  ASSUME NEW I, IsFiniteSet(I), I \subseteq Win, NEW from \in Int, NEW to \in Int
  PROVE  LET W == B!Clipped(I, from, to) IN
         /\ IsFiniteSet(W) /\ W \subseteq Win
         /\ \A w \in W : from <= w.start /\ w.start <= w.end /\ w.end <= to
         /\ \A d \in Int : (\E w \in W : InWin(w, d)) <=> /\ from <= d /\ d <= to
                                                         /\ \E w \in I : InWin(w, d)
<1> DEFINE Cut == {B!Clip(x, from, to) : x \in I}
           f == [x \in I |-> B!Clip(x, from, to)]
           W == {w \in Cut : w.start =< w.end}
<1>1. IsFiniteSet(Cut)
  <2>1. f \in Surjection(I, Cut)
    BY DEF Surjection
  <2> HIDE DEF f, Cut
  <2> QED  BY <2>1, FS_Surjection
<1>2. ASSUME NEW x \in I
      PROVE  /\ B!Clip(x, from, to) \in Win
             /\ B!Clip(x, from, to).start = B!Greatest(x.start, from)
             /\ B!Clip(x, from, to).end = B!Least(x.end, to)
             /\ x.start \in Int /\ x.end \in Int
  BY DEF B!Clip, B!Window, B!Greatest, B!Least, Win
<1>3. IsFiniteSet(W) /\ W \subseteq Cut
  <2> HIDE DEF Cut
  <2> QED  BY <1>1, FS_Subset
<1>4. W \subseteq Win /\ \A w \in W : from <= w.start /\ w.start <= w.end /\ w.end <= to
  BY <1>2 DEF B!Greatest, B!Least
<1>5. ASSUME NEW d \in Int
      PROVE  (\E w \in W : InWin(w, d)) <=> from <= d /\ d <= to /\ \E w \in I : InWin(w, d)
  <2>1. ASSUME NEW w \in W, InWin(w, d) PROVE from <= d /\ d <= to /\ \E x \in I : InWin(x, d)
    <3>1. PICK x \in I : w = B!Clip(x, from, to)
      OBVIOUS
    <3> QED  BY <2>1, <3>1, <1>2 DEF InWin, B!Greatest, B!Least
  <2>2. ASSUME NEW x \in I, InWin(x, d), from <= d, d <= to PROVE \E w \in W : InWin(w, d)
    <3> DEFINE w == B!Clip(x, from, to)
    <3>1. InWin(w, d) /\ w.start <= w.end
      BY <2>2, <1>2 DEF InWin, B!Greatest, B!Least
    <3>2. w \in W
      BY <3>1
    <3> QED  BY <3>1, <3>2
  <2> QED  BY <2>1, <2>2
<1>6. W = B!Clipped(I, from, to)
  BY DEF B!Clipped
<1> HIDE DEF W
<1> QED  BY <1>3, <1>1, <1>4, <1>5, <1>6

\* What a list of windows is merged to.
MergedOf(s) == B!FoldLeft(B!Merge, << >>, s)

MergeLine(c, n, s) ==
  c \in [0..n -> Seq(Win)] /\ c[0] = << >> /\ \A i \in 1..n : c[i] = B!Merge(c[i - 1], s[i])

\* Merging windows one after the other.
LEMMA MergeFold ==
  ASSUME NEW n \in Nat, NEW s, DOMAIN s = 1..n, \A i \in 1..n : s[i] \in Win
  PROVE  \E c : MergeLine(c, n, s) /\ MergedOf(s) = c[n]
<1> DEFINE V == Seq(Win)
           G == [i \in 1..n |-> [v \in V |-> B!Merge(v, s[i])]]
           Folds(f) == f = [t \in SUBSET DOMAIN s |->
                             IF t = {} THEN << >> ELSE B!Merge(f[t \ {B!Max(t)}], s[B!Max(t)])]
           iter == CHOOSE iter : Folds(iter)
<1>1. MergedOf(s) = iter[1..n]
  BY Zenon DEF MergedOf, B!FoldLeft, B!MapThenFoldSet
<1>2. Acts(G, 1..n, V)
  <2>1. ASSUME NEW i \in 1..n, NEW v \in V PROVE B!Merge(v, s[i]) \in V
    <3> DEFINE w == s[i]
               U == Win
               big == [v EXCEPT ![Len(v)].end = B!Greatest(@, w.end)]
    <3>1. w \in U /\ v \in Seq(U) /\ w.end \in Int
      BY DEF Win
    <3>2. Append(v, w) \in Seq(U)
      <4> HIDE DEF U, w
      <4> QED  BY <3>1
    <3>3. ASSUME v # << >> PROVE big \in Seq(U)
      <4>1. Len(v) \in Nat /\ Len(v) # 0 /\ DOMAIN v = 1..Len(v) /\ \A j \in 1..Len(v) : v[j] \in U
        <5> HIDE DEF U
        <5> QED  BY <3>1, <3>3
      <4>2. Len(v) \in 1..Len(v)
        BY <4>1
      <4> DEFINE x == [v[Len(v)] EXCEPT !.end = B!Greatest(v[Len(v)].end, w.end)]
      <4>3. x \in U
        BY <3>1, <4>1, <4>2 DEF Win, B!Greatest
      <4>4. big = [v EXCEPT ![Len(v)] = x]
        BY <4>1
      <4> HIDE DEF U, x, big, w
      <4> QED  BY <3>1, <4>1, <4>2, <4>3, <4>4
    <3>4. B!Last(v) = v[Len(v)]
      BY DEF B!Last
    <3>5. B!Merge(v, w) = IF v # << >> /\ w.start =< B!Last(v).end + 1 THEN big ELSE Append(v, w)
      BY DEF B!Merge
    <3> HIDE DEF big, w
    <3> QED  BY <3>2, <3>3, <3>5 DEF w
  <2> QED  BY <2>1 DEF Acts
<1>3. \A t \in SUBSET (1..n) : t # {} => B!Max(t) \in 1..n
  BY LargestChosen
<1>4. << >> \in V
  OBVIOUS
<1>5. PICK F \in [SUBSET (1..n) -> V] : FoldOf(F, 1..n, << >>, G, LastIndex(n))
  <2> HIDE DEF G, V
  <2> QED  BY <1>2, <1>4, ListFoldExists
<1> HIDE DEF V
<1>6. Folds(F)
  BY <1>3, <1>5 DEF FoldOf, LastIndex
<1>7. Folds(iter)
  <2> HIDE DEF Folds
  <2> QED  BY <1>6
<1> HIDE DEF iter
<1>8. FoldsOn(iter, n, V, << >>, G)
  BY <1>3, <1>7 DEF FoldsOn
<1>9. PICK c : LineOf(c, n, V, << >>, G) /\ iter[1..n] = c[n]
  <2> HIDE DEF G
  <2> QED  BY <1>2, <1>4, <1>8, ListFold
<1>10. MergeLine(c, n, s)
  <2>1. \A i \in 1..n : c[i - 1] \in V
    BY <1>9 DEF LineOf
  <2> QED  BY <1>9, <2>1 DEF LineOf, MergeLine, V
<1> QED
  BY <1>1, <1>9, <1>10

\* The first k windows merged: in order, none touches the next, and the days are
\* those of the k.
MergedTo(v, k, s) ==
  /\ v \in Seq(Win)
  /\ k = 0 => Len(v) = 0
  /\ \A j \in 1..Len(v) : v[j] \in MonthWin /\ v[j].start <= s[k].start
  /\ \A i, j \in 1..Len(v) : i < j => v[i].end + 1 < v[j].start
  /\ \A d \in Int : (\E j \in 1..Len(v) : InWin(v[j], d)) <=> \E i \in 1..k : InWin(s[i], d)

\* Merging the next window keeps the merged ones apart, and their days.
LEMMA MergeStep ==
  ASSUME NEW k \in Nat, k > 0, NEW s, s[k] \in MonthWin,
         k > 1 => s[k - 1].start <= s[k].start /\ s[k - 1].start \in Int,
         NEW v, MergedTo(v, k - 1, s)
  PROVE  MergedTo(B!Merge(v, s[k]), k, s)
<1> DEFINE w == s[k]
           n == Len(v)
           m == B!Merge(v, w)
<1>1. /\ n \in Nat /\ v \in Seq(Win) /\ \A j \in 1..n : v[j] \in MonthWin /\ v[j].start <= w.start
                                                      /\ v[j].start \in Int /\ v[j].end \in Int
  <2>1. v \in Seq(Win) /\ (k - 1 = 0 => n = 0) /\ \A j \in 1..n : v[j] \in MonthWin /\ v[j].start <= s[k - 1].start
    BY DEF MergedTo
  <2>2. n \in Nat
    BY <2>1, SeqIs
  <2>3. ASSUME NEW j \in 1..n PROVE v[j] \in MonthWin /\ v[j].start <= w.start /\ v[j].start \in Int /\ v[j].end \in Int
    <3>1. k > 1
      <4>1. n # 0
        BY <2>2
      <4> HIDE DEF n
      <4> QED  BY <2>1, <4>1
    <3>2. v[j].start \in Int /\ v[j].end \in Int /\ w.start \in Int
      BY <2>1 DEF MonthWin, Win
    <3> QED  BY <2>1, <3>1, <3>2
  <2> QED  BY <2>1, <2>2, <2>3
<1>2. \A i, j \in 1..n : i < j => v[i].end + 1 < v[j].start
  BY DEF MergedTo
<1>3. \A d \in Int : (\E i \in 1..k : InWin(s[i], d)) <=> (\E j \in 1..n : InWin(v[j], d)) \/ InWin(w, d)
  <2>1. \A i : i \in 1..k <=> i \in 1..(k - 1) \/ i = k
    OBVIOUS
  <2> QED  BY <2>1 DEF MergedTo
<1>4. w \in Win /\ w \in MonthWin /\ w.start \in Int /\ w.end \in Int /\ 1 <= w.start /\ w.start <= w.end
      /\ w.end <= Month /\ Month \in Int
  BY DaysAre DEF MonthWin, Win
<1>5. B!Last(v) = v[n]
  BY DEF B!Last
<1> HIDE DEF w
<1>6. CASE v # << >> /\ w.start <= v[n].end + 1
  <2> DEFINE e == B!Greatest(v[n].end, w.end)
             x == [v[n] EXCEPT !.end = e]
  <2>1. n # 0 /\ n \in 1..n
    <3> DEFINE U == Win
    <3>1. v \in Seq(U) /\ v # << >>
      BY <1>1, <1>6
    <3> HIDE DEF U
    <3>2. n # 0
      BY <3>1
    <3> HIDE DEF n
    <3> QED  BY <3>2, <1>1
  <2>2. m = [v EXCEPT ![n].end = e]
    BY <1>5, <1>6 DEF B!Merge
  <2>3. v[n] \in Win /\ v[n].start \in Int /\ v[n].end \in Int /\ 1 <= v[n].start /\ v[n].start <= v[n].end
        /\ v[n].end <= Month /\ v[n].start <= w.start
    BY <2>1, <1>1 DEF MonthWin
  <2>4. e \in Int /\ v[n].end <= e /\ w.end <= e /\ (e = v[n].end \/ e = w.end) /\ e <= Month
    BY <2>3, <1>4 DEF B!Greatest
  <2> HIDE DEF e
  <2>5. x \in Win /\ x.start = v[n].start /\ x.end = e
    BY <2>3, <2>4 DEF Win
  <2>6. x \in MonthWin
    <3> HIDE DEF x
    <3>1. x.start \in Int /\ x.end \in Int /\ 1 <= x.start /\ x.start <= x.end /\ x.end <= Month
      BY <2>3, <2>4, <2>5, <1>4
    <3> QED  BY <2>5, <3>1 DEF MonthWin
  <2>7. m \in Seq(Win) /\ Len(m) = n /\ m[n] = x /\ \A j \in 1..n : j # n => m[j] = v[j]
    <3> DEFINE U == Win
    <3>1. v \in Seq(U) /\ x \in U /\ DOMAIN v = 1..n
      BY <1>1, <2>5
    <3>2. m = [v EXCEPT ![n] = x]
      BY <2>2
    <3> HIDE DEF U, x, m
    <3>3. Len(v) = n /\ n \in Nat
      BY <1>1
    <3> HIDE DEF n
    <3>4. m \in Seq(U)
      BY <2>1, <3>1, <3>2
    <3>5. Len(m) = n /\ m[n] = x /\ \A j \in 1..n : j # n => m[j] = v[j]
      BY <2>1, <3>1, <3>2, <3>3
    <3> QED  BY <3>4, <3>5 DEF U
  <2> HIDE DEF m, x
  <2>8. ASSUME NEW j \in 1..n PROVE m[j] \in MonthWin /\ m[j].start <= w.start
    BY <2>3, <2>5, <2>6, <2>7, <1>1
  <2>9. ASSUME NEW i \in 1..n, NEW j \in 1..n, i < j PROVE m[i].end + 1 < m[j].start
    <3>1. i # n
      BY <1>1, <2>9
    <3>2. m[i] = v[i] /\ m[j].start = v[j].start
      BY <3>1, <2>5, <2>7
    <3> QED  BY <3>2, <1>2, <2>9
  <2>10. ASSUME NEW d \in Int
         PROVE  (\E j \in 1..n : InWin(m[j], d)) <=> (\E j \in 1..n : InWin(v[j], d)) \/ InWin(w, d)
    <3>1. InWin(x, d) <=> InWin(v[n], d) \/ InWin(w, d)
      BY <2>3, <2>4, <2>5, <1>4, <1>6 DEF InWin
    <3>2. \A j \in 1..n : j # n => (InWin(m[j], d) <=> InWin(v[j], d))
      BY <2>7
    <3> QED  BY <3>1, <3>2, <2>1, <2>7
  <2> HIDE DEF n
  <2>11. MergedTo(m, k, s)
    BY <2>7, <2>8, <2>9, <2>10, <1>3, SMTT(30) DEF MergedTo, w
  <2> QED  BY <2>11 DEF m, w
<1>7. CASE v = << >> \/ ~(w.start <= v[n].end + 1)
  <2>1. m = Append(v, w)
    BY <1>5, <1>7 DEF B!Merge
  <2>2. m \in Seq(Win) /\ Len(m) = n + 1 /\ m[n + 1] = w /\ \A j \in 1..n : m[j] = v[j]
    <3> DEFINE U == Win
    <3>1. v \in Seq(U) /\ w \in U
      BY <1>1, <1>4
    <3> HIDE DEF U, m
    <3>2. m \in Seq(U) /\ Len(m) = n + 1 /\ m[n + 1] = w /\ \A j \in 1..n : m[j] = v[j]
      BY <2>1, <3>1
    <3> QED  BY <3>2 DEF U
  <2>3. \A j \in 1..n : v[j].end + 1 < w.start
    <3>1. SUFFICES ASSUME NEW j \in 1..n PROVE v[j].end + 1 < w.start
      OBVIOUS
    <3>2. n # 0 /\ n \in 1..n
      BY <1>1
    <3>3. v # << >>
      BY <3>2
    <3>4. v[n].end + 1 < w.start /\ v[n].start <= v[n].end /\ v[n].end \in Int /\ v[n].start \in Int
      BY <3>2, <3>3, <1>1, <1>4, <1>7 DEF MonthWin
    <3>5. CASE j = n
      BY <3>4, <3>5
    <3>6. CASE j # n
      <4>1. v[j].end + 1 < v[n].start /\ v[j].end \in Int
        BY <3>2, <3>6, <1>1, <1>2
      <4> QED  BY <4>1, <3>4, <1>4
    <3> QED  BY <3>5, <3>6
  <2>4. \A j : j \in 1..(n + 1) <=> j \in 1..n \/ j = n + 1
    BY <1>1
  <2> HIDE DEF m
  <2>5. ASSUME NEW j \in 1..(n + 1) PROVE m[j] \in MonthWin /\ m[j].start <= w.start
    BY <2>2, <2>4, <1>1, <1>4, SMTT(30)
  <2>6. ASSUME NEW i \in 1..(n + 1), NEW j \in 1..(n + 1), i < j PROVE m[i].end + 1 < m[j].start
    <3>1. i \in 1..n
      BY <1>1, <2>6
    <3> QED  BY <3>1, <2>2, <2>3, <2>4, <2>6, <1>2
  <2>7. ASSUME NEW d \in Int
        PROVE  (\E j \in 1..(n + 1) : InWin(m[j], d)) <=> (\E j \in 1..n : InWin(v[j], d)) \/ InWin(w, d)
    BY <2>2, <2>4
  <2> HIDE DEF n
  <2>8. MergedTo(m, k, s)
    BY <2>2, <2>5, <2>6, <2>7, <1>3, SMTT(30) DEF MergedTo, w
  <2> QED  BY <2>8 DEF m, w
<1> QED
  BY <1>6, <1>7

\* Sorted windows of the month are merged to windows that do not touch.
LEMMA Merged ==
  ASSUME NEW n \in Nat, NEW s, DOMAIN s = 1..n, \A i \in 1..n : s[i] \in MonthWin,
         \A i, j \in 1..n : i < j => s[i].start <= s[j].start
  PROVE  MergedTo(MergedOf(s), n, s)
<1> DEFINE T == {k \in 0..n : \A c : MergeLine(c, n, s) => MergedTo(c[k], k, s)}
<1>1. \A i \in 1..n : s[i] \in Win /\ s[i].start \in Int
  BY DEF MonthWin, Win
<1>2. PICK c : MergeLine(c, n, s) /\ MergedOf(s) = c[n]
  <2> HIDE DEF T
  <2> QED  BY <1>1, MergeFold
<1>3. 0 \in T
  <2>1. MergedTo(<< >>, 0, s)
    <3>1. << >> \in Seq(Win) /\ Len(<< >>) = 0 /\ 1..0 = {}
      OBVIOUS
    <3> QED  BY <3>1 DEF MergedTo
  <2> QED  BY <2>1 DEF MergeLine
<1>4. ASSUME NEW k \in 1..n, k - 1 \in T PROVE k \in T
  <2>1. k \in 0..n /\ k \in Nat /\ k > 0
    OBVIOUS
  <2>2. k > 1 => s[k - 1].start <= s[k].start /\ s[k - 1].start \in Int
    <3>1. k > 1 => k - 1 \in 1..n
      OBVIOUS
    <3> QED  BY <3>1, <1>1
  <2>3. ASSUME NEW d, MergeLine(d, n, s) PROVE MergedTo(d[k], k, s)
    <3>1. MergedTo(d[k - 1], k - 1, s)
      BY <1>4, <2>3
    <3>2. d[k] = B!Merge(d[k - 1], s[k])
      BY <2>3 DEF MergeLine
    <3> QED  BY <3>1, <3>2, <2>1, <2>2, MergeStep
  <2> QED  BY <2>1, <2>3
<1>5. n \in T
  <2>1. n \in 0..n
    OBVIOUS
  <2> HIDE DEF T
  <2> QED  BY <1>3, <1>4, <2>1, InductionUpTo
<1> QED  BY <1>2, <1>5

\* The windows are in the month, none touches another, and they hold the days on
\* which the child was enrolled.
LEMMA WindowsAre ==
  ASSUME BillInv
  PROVE  /\ IsFiniteSet(B!Windows) /\ B!Windows \subseteq MonthWin
         /\ \A v, w \in B!Windows : v.start < w.start \/ v.end < w.end => v.end + 1 < w.start
         /\ \A v, w \in B!Windows : v.start = w.start => v = w
         /\ \A d \in Int : (\E w \in B!Windows : InWin(w, d)) <=> d \in 1..Month /\ B!EnrolledOn(d)
<1> DEFINE I == B!ToSet(B!Episodes(child, history, B!FirstTariff, Month))
           Cut == B!Clipped(I, 1, Month)
           s == ByStart(Cut)
           n == Cardinality(Cut)
           v == MergedOf(s)
<1>1. /\ IsFiniteSet(I) /\ I \subseteq Win
      /\ \A d \in 1..Month : (\E w \in I : InWin(w, d)) <=> B!EnrolledOn(d)
  BY Intervals
<1>2. B!Windows = B!ToSet(v)
  BY Zenon DEF B!Windows, B!enrollmentWindows, MergedOf, ByStart
<1> HIDE DEF I
<1>3. /\ IsFiniteSet(Cut) /\ Cut \subseteq Win
      /\ \A w \in Cut : 1 <= w.start /\ w.start <= w.end /\ w.end <= Month
      /\ \A d \in Int : (\E w \in Cut : InWin(w, d)) <=> 1 <= d /\ d <= Month /\ \E w \in I : InWin(w, d)
  BY <1>1, DaysAre, ClippedDays
<1> HIDE DEF Cut
<1>4. Cut \subseteq MonthWin /\ \A w \in Cut : w.start \in Int
  BY <1>3 DEF MonthWin, Win
<1>5. /\ n \in Nat /\ s \in [1..n -> Cut] /\ (\A w \in Cut : \E i \in 1..n : s[i] = w)
      /\ \A i, j \in 1..n : i < j => s[i].start <= s[j].start
  BY <1>3, <1>4, WindowsSorted
<1> HIDE DEF s, n
<1>6. MergedTo(v, n, s)
  <2>1. DOMAIN s = 1..n /\ \A i \in 1..n : s[i] \in MonthWin
    BY <1>4, <1>5
  <2> QED  BY <1>5, <2>1, Merged
<1> HIDE DEF v
<1> DEFINE m == Len(v)
<1>7. m \in Nat /\ DOMAIN v = 1..m
  BY <1>6, SeqIs DEF MergedTo
<1>8. ASSUME NEW j \in 1..m
      PROVE  /\ v[j] \in MonthWin /\ v[j].start \in Int /\ v[j].end \in Int /\ v[j].start <= v[j].end
             /\ 1 <= v[j].start /\ v[j].end <= Month
  BY <1>6 DEF MergedTo, MonthWin, Win
<1>9. \A i, j \in 1..m : i < j => v[i].end + 1 < v[j].start
  BY <1>6 DEF MergedTo
<1>10. \A w : w \in B!Windows <=> \E j \in 1..m : w = v[j]
  BY <1>2, <1>7 DEF B!ToSet
<1>11. IsFiniteSet(B!Windows) /\ B!Windows \subseteq MonthWin
  <2>1. IsFiniteSet(B!Windows)
    BY <1>2, <1>7, ToSetFinite
  <2> QED  BY <2>1, <1>8, <1>10
<1>12. ASSUME NEW x \in B!Windows, NEW w \in B!Windows, x.start < w.start \/ x.end < w.end
       PROVE  x.end + 1 < w.start
  <2>1. PICK i \in 1..m : x = v[i]
    BY <1>10
  <2>2. PICK j \in 1..m : w = v[j]
    BY <1>10
  <2>3. CASE i < j
    BY <2>1, <2>2, <2>3, <1>9
  <2>4. CASE i = j
    BY <2>1, <2>2, <2>4, <1>8, <1>12
  <2>5. CASE j < i
    <3>1. w.end + 1 < x.start
      BY <2>1, <2>2, <2>5, <1>9
    <3> QED  BY <3>1, <2>1, <2>2, <1>8, <1>12, SMTT(30)
  <2> QED  BY <2>3, <2>4, <2>5, <1>7
<1>13. ASSUME NEW x \in B!Windows, NEW w \in B!Windows, x.start = w.start PROVE x = w
  <2>1. PICK i \in 1..m : x = v[i]
    BY <1>10
  <2>2. PICK j \in 1..m : w = v[j]
    BY <1>10
  <2>3. ~(i < j) /\ ~(j < i)
    <3>1. x.start \in Int /\ x.end \in Int /\ x.start <= x.end /\ w.end \in Int /\ w.start <= w.end
      BY <2>1, <2>2, <1>8
    <3> QED  BY <3>1, <2>1, <2>2, <1>9, <1>13
  <2> QED  BY <2>1, <2>2, <2>3, <1>7
<1>14. ASSUME NEW d \in Int
       PROVE  (\E w \in B!Windows : InWin(w, d)) <=> d \in 1..Month /\ B!EnrolledOn(d)
  <2>1. (\E w \in B!Windows : InWin(w, d)) <=> \E j \in 1..m : InWin(v[j], d)
    BY <1>10
  <2>2. (\E j \in 1..m : InWin(v[j], d)) <=> \E i \in 1..n : InWin(s[i], d)
    BY <1>6 DEF MergedTo
  <2>3. (\E i \in 1..n : InWin(s[i], d)) <=> \E w \in Cut : InWin(w, d)
    BY <1>5
  <2>4. (\E w \in Cut : InWin(w, d)) <=> 1 <= d /\ d <= Month /\ \E w \in I : InWin(w, d)
    BY <1>3
  <2>5. d \in 1..Month <=> 1 <= d /\ d <= Month
    BY DaysAre
  <2> QED  BY <2>1, <2>2, <2>3, <2>4, <2>5, <1>1
<1> QED  BY <1>11, <1>12, <1>13, <1>14

\* The windows a month is billed by are the days on which the status history
\* has the child enrolled, and no two of them touch.
LEMMA WindowsRight ==
  ASSUME BillInv
  PROVE  B!WindowsAreEnrolledDays /\ WindowsAreEnrolledDays
<1>1. B!TypeOK
  <2>1. child.status \in Status /\ {child.enrollmentDate, child.withdrawalDate} \subseteq B!Days \cup {B!None}
    BY DEF BillInv, Child
  <2>2. ASSUME NEW a \in assigned PROVE {a.from, a.to} \subseteq -1..B!Forever /\ a.kind \in Kinds
    <3>1. a \in Assigned
      BY DEF BillInv, AssignedOK
    <3>2. B!Days \subseteq -1..B!Forever
      BY DaysAre
    <3> QED  BY <3>1, <3>2 DEF Assigned
  <2> QED  BY <2>1, <2>2 DEF B!TypeOK, BillInv, RowsOK, Status
<1>2. /\ B!Windows \subseteq MonthWin
      /\ \A d \in Int : (\E w \in B!Windows : InWin(w, d)) <=> d \in 1..Month /\ B!EnrolledOn(d)
  BY WindowsAre
<1>3. B!Covered = {d \in 1..Month : B!EnrolledOn(d)}
  <2>1. ASSUME NEW d PROVE d \in B!Covered <=> d \in Int /\ \E w \in B!Windows : InWin(w, d)
    <3>1. \A w \in B!Windows : w.start \in Int /\ w.end \in Int
      BY <1>2 DEF MonthWin, Win
    <3>2. \A w \in B!Windows : d \in w.start..w.end <=> d \in Int /\ InWin(w, d)
      BY <3>1 DEF InWin
    <3> QED  BY <3>2 DEF B!Covered
  <2>2. \A d \in 1..Month : d \in Int
    OBVIOUS
  <2> QED  BY <2>1, <2>2, <1>2
<1>4. \A v, w \in B!Windows : v.start < w.start \/ v.end < w.end => v.end + 1 < w.start
  BY WindowsAre
<1> QED
  BY <1>1, <1>3, <1>4 DEF WindowsAreEnrolledDays, B!WindowsAreEnrolledDays

\* enrollmentWindows yields, for any history of statuses and any dates of the child,
\* windows that hold each enrolled day of the month, no other day and none twice.
THEOREM WindowsRightAlways == B!Spec => [](B!WindowsAreEnrolledDays /\ WindowsAreEnrolledDays)
<1>1. BillInv => B!WindowsAreEnrolledDays /\ WindowsAreEnrolledDays
  BY WindowsRight
<1> QED
  BY <1>1, BillInvariance, PTL

-----------------------------------------------------------------------------
\* Rules and amounts.

Modes == {"flat_monthly", "per_attended_day", "per_working_day"}
Roundings == {"half_up", "floor", "ceil", "bankers"}

\* What a charge is computed by.
Lawful(r) ==
  /\ r.mode \in Modes /\ r.byKind = [x \in DOMAIN r.byKind |-> r.byKind[x]]
  /\ Kinds \subseteq DOMAIN r.byKind /\ \A k \in Kinds : r.byKind[k] \in Modes \cup {"default"}
  /\ r.fixedDivisor \in 1..366 /\ r.minCharge \in Nat /\ r.floor \in Nat
  /\ r.noAttendance \in {"zero", "min_charge", "full_tariff"}
  /\ r.unit \in {"tiyin", "som", "1000_som"} /\ r.rounding \in Roundings
  /\ r.divisor \in {"actual_working_days", "fixed", "calendar_days"}
  /\ r.order[1] \in {"fixed", "percent"}

\* The rules that versions hold have the values the validation of the code allows.
LEMMA RulesAreLawful ==
  ASSUME NEW r \in Rules
  PROVE  Lawful(r) /\ r \in B!BillingRules(DOMAIN r.byKind)
<1>1. B!RulesOfKinds(r)
  <2>1. B!BillConstants
    BY BillAssumption
  <2> QED  BY <2>1 DEF B!BillConstants, Rules
<1>2. r \in B!BillingRules(DOMAIN r.byKind) /\ Kinds \subseteq DOMAIN r.byKind
  BY <1>1 DEF B!RulesOfKinds
<1> DEFINE D == DOMAIN r.byKind
<1>3. Lawful(r)
  <2> HIDE DEF D
  <2>1. r \in B!BillingRules(D) /\ Kinds \subseteq D
    BY <1>2 DEF D
  <2>2. /\ r.mode \in Modes /\ r.byKind \in [D -> Modes \cup {"default"}]
        /\ r.fixedDivisor \in 1..366 /\ r.minCharge \in Nat /\ r.floor \in Nat
        /\ r.noAttendance \in {"zero", "min_charge", "full_tariff"}
        /\ r.unit \in {"tiyin", "som", "1000_som"} /\ r.rounding \in Roundings
        /\ r.divisor \in {"actual_working_days", "fixed", "calendar_days"}
        /\ r.order \in {<<"fixed", "percent">>, <<"percent", "fixed">>}
    BY <2>1 DEF B!BillingRules, B!AttendanceMode, B!RoundingMode, Modes, Roundings
  <2> QED  BY <2>1, <2>2 DEF Lawful
<1> QED  BY <1>2, <1>3

\* Some version of the rules is in force on every day of the month.
LEMMA RulesInForce ==
  ASSUME VersionsOK
  PROVE  B!activeOn(1) \in Rules
<1> DEFINE n == Len(versions)
           V == [from : B!Days, to : B!Days, rules : Rules]
           begun == {i \in 1..n : versions[i].from <= 1}
           inForce == {i \in 1..n : versions[i].from =< 1 /\ 1 =< versions[i].to}
<1>1. n \in Nat /\ n > 0 /\ DOMAIN versions = 1..n /\ \A i \in 1..n : versions[i] \in V
  <2> HIDE DEF V
  <2>1. versions \in Seq(V) /\ n > 0
    BY DEF VersionsOK, V
  <2> QED  BY <2>1, SeqIs
<1>2. \A i \in 1..n : versions[i].from \in Int /\ versions[i].to \in Int /\ versions[i].rules \in Rules
  BY <1>1, DaysAre
<1> HIDE DEF V
<1>3. PICK m \in begun : \A i \in begun : i <= m
  <2>1. 1 \in begun
    BY <1>1 DEF VersionsOK
  <2> QED  BY <2>1, <1>1, Largest
<1>4. m \in inForce
  <2>1. CASE m = n
    BY <2>1, <1>1, <1>3, DaysAre DEF VersionsOK
  <2>2. CASE m # n
    <3>1. m \in 1..(n - 1) /\ m + 1 \in 1..n /\ ~(m + 1 <= m)
      <4>1. m \in 1..n /\ n \in Nat
        BY <1>1, <1>3
      <4> HIDE DEF n
      <4> QED  BY <4>1, <2>2
    <3>2. ~(versions[m + 1].from <= 1)
      BY <3>1, <1>3
    <3>3. versions[m].to = versions[m + 1].from - 1
      BY <3>1 DEF VersionsOK
    <3> QED  BY <3>1, <3>2, <3>3, <1>2, <1>3
  <2> QED  BY <2>1, <2>2
<1>5. B!Max(inForce) \in inForce
  <2>1. inForce \in SUBSET (1..n) /\ inForce # {}
    BY <1>4
  <2> HIDE DEF inForce, n
  <2> QED  BY <2>1, <1>1, LargestChosen
<1>6. B!activeOn(1) = versions[B!Max(inForce)].rules
  BY <1>1 DEF B!activeOn
<1> HIDE DEF inForce
<1>7. B!Max(inForce) \in 1..n
  BY <1>5 DEF inForce
<1> QED  BY <1>2, <1>6, <1>7

\* Tariffs by the day they begin.
ByFrom(S) == B!ByDate(S, LAMBDA a : a.from)

\* activeTariffsFor lists each assignment once, by the day it begins.
LEMMA TariffsSorted ==
  ASSUME NEW W, IsFiniteSet(W), \A w \in W : w.from \in Int
  PROVE  LET s == ByFrom(W)
             n == Cardinality(W)
         IN  /\ n \in Nat /\ s \in [1..n -> W]
             /\ \A i, j \in 1..n : i # j => s[i] # s[j]
             /\ \A i, j \in 1..n : i < j => s[i].from <= s[j].from
<1> DEFINE key == [w \in W |-> w.from]
           n == Cardinality(W)
           Good(t) == t \in B!SetToSeqs(W) /\ \A i, j \in DOMAIN t : i < j => t[i].from =< t[j].from
<1>1. \A w \in W : key[w] \in Int
  OBVIOUS
<1>2. PICK f : Lists(f, W, key)
  <2> HIDE DEF key
  <2> QED  BY <1>1, SortExists
<1>3. f \in [1..n -> W]
  BY <1>2 DEF Lists
<1>4. f \in B!SetToSeqs(W)
  BY <1>2, SeqsOf DEF Lists
<1>5. \A i, j \in 1..n : i < j => f[i].from =< f[j].from
  BY <1>2, <1>3 DEF Lists
<1>6. Good(f)
  BY <1>3, <1>4, <1>5
<1>7. ByFrom(W) = CHOOSE t : Good(t)
  BY Zenon DEF ByFrom, B!ByDate
<1>8. Good(ByFrom(W))
  <2> HIDE DEF Good
  <2> QED  BY <1>6, <1>7
<1> HIDE DEF n
<1>9. n \in Nat /\ ByFrom(W) \in [1..n -> W] /\ \A i, j \in 1..n : i # j => ByFrom(W)[i] # ByFrom(W)[j]
  BY <1>8, SeqsOf DEF n
<1> QED
  BY <1>8, <1>9 DEF n

\* The tariffs of a kind that touch the month, oldest first.
LEMMA TariffsOfMonth ==
  ASSUME AssignedOK, NEW k
  PROVE  LET list == B!activeTariffsFor(k) IN
         /\ list \in Seq(Assigned) /\ Len(list) \in Nat /\ DOMAIN list = 1..Len(list)
         /\ \A i \in 1..Len(list) : list[i] \in assigned /\ list[i].from <= list[i].to
<1> DEFINE S == {a \in assigned : a.kind = k /\ a.from =< Month /\ a.to >= 1}
           list == B!activeTariffsFor(k)
           n == Cardinality(S)
<1>1. IsFiniteSet(S) /\ S \subseteq assigned /\ S \subseteq Assigned
  BY FS_Subset DEF AssignedOK
<1>2. list = ByFrom(S)
  BY Zenon DEF B!activeTariffsFor, ByFrom
<1> HIDE DEF S
<1>3. \A a \in S : a.from \in Int
  BY <1>1, DaysAre DEF Assigned
<1>4. n \in Nat /\ list \in [1..n -> S]
  BY <1>1, <1>2, <1>3, TariffsSorted
<1> HIDE DEF list
<1>5. list \in Seq(S) /\ Len(list) = n
  <2> HIDE DEF n
  <2> QED  BY <1>4
<1> HIDE DEF n
<1>6. list \in Seq(Assigned) /\ Len(list) \in Nat /\ DOMAIN list = 1..Len(list)
      /\ \A i \in 1..Len(list) : list[i] \in S
  <2> DEFINE V == Assigned
  <2>1. S \subseteq V
    BY <1>1
  <2> HIDE DEF V
  <2>2. list \in Seq(V) /\ Len(list) \in Nat /\ DOMAIN list = 1..Len(list)
        /\ \A i \in 1..Len(list) : list[i] \in S
    BY <2>1, <1>4, <1>5
  <2> QED  BY <2>2 DEF V
<1> QED
  BY <1>1, <1>6 DEF list, AssignedOK

-----------------------------------------------------------------------------
\* Discounts.

\* The largest of some natural numbers is one.
LEMMA GreatestFold ==
  ASSUME NEW n \in Nat, NEW s, DOMAIN s = 1..n, \A i \in 1..n : s[i] \in Nat
  PROVE  B!FoldLeft(B!Greatest, 0, s) \in Nat
<1> DEFINE V == Nat
           G == [i \in 1..n |-> [v \in V |-> B!Greatest(v, s[i])]]
           Folds(f) == f = [t \in SUBSET DOMAIN s |->
                             IF t = {} THEN 0 ELSE B!Greatest(f[t \ {B!Max(t)}], s[B!Max(t)])]
           iter == CHOOSE iter : Folds(iter)
<1>1. B!FoldLeft(B!Greatest, 0, s) = iter[1..n]
  BY Zenon DEF B!FoldLeft, B!MapThenFoldSet
<1>2. Acts(G, 1..n, V)
  BY DEF Acts, B!Greatest
<1>3. \A t \in SUBSET (1..n) : t # {} => B!Max(t) \in 1..n
  BY LargestChosen
<1>4. 0 \in V
  OBVIOUS
<1>5. PICK F \in [SUBSET (1..n) -> V] : FoldOf(F, 1..n, 0, G, LastIndex(n))
  <2> HIDE DEF G, V
  <2> QED  BY <1>2, <1>4, ListFoldExists
<1> HIDE DEF V
<1>6. Folds(F)
  BY <1>3, <1>5 DEF FoldOf, LastIndex
<1>7. Folds(iter)
  <2> HIDE DEF Folds
  <2> QED  BY <1>6
<1> HIDE DEF iter
<1>8. FoldsOn(iter, n, V, 0, G)
  BY <1>3, <1>7 DEF FoldsOn
<1>9. PICK c : LineOf(c, n, V, 0, G) /\ iter[1..n] = c[n]
  <2> HIDE DEF G
  <2> QED  BY <1>2, <1>4, <1>8, ListFold
<1>10. n \in 0..n
  OBVIOUS
<1> QED
  BY <1>1, <1>9, <1>10 DEF LineOf, V

\* A percentage off, for each of a list, one after the other.
Compounded(amount, s, r) == B!FoldLeft(LAMBDA a, bp : B!Percent(a, bp, r), amount, s)

PercentLine(c, n, amount, s, r) ==
  c \in [0..n -> Nat] /\ c[0] = amount /\ \A i \in 1..n : c[i] = B!Percent(c[i - 1], s[i], r)

Lessens(s, n, r) == \A i \in 1..n, a \in Nat : B!Percent(a, s[i], r) \in Nat

\* Percentages that compound are taken off one after the other.
LEMMA PercentFold ==
  ASSUME NEW n \in Nat, NEW s, DOMAIN s = 1..n, NEW r, Lessens(s, n, r), NEW amount \in Nat
  PROVE  \E c : PercentLine(c, n, amount, s, r) /\ Compounded(amount, s, r) = c[n]
<1> DEFINE V == Nat
           G == [i \in 1..n |-> [v \in V |-> B!Percent(v, s[i], r)]]
           Folds(f) == f = [t \in SUBSET DOMAIN s |->
                             IF t = {} THEN amount ELSE B!Percent(f[t \ {B!Max(t)}], s[B!Max(t)], r)]
           iter == CHOOSE iter : Folds(iter)
<1>1. Compounded(amount, s, r) = iter[1..n]
  BY Zenon DEF Compounded, B!FoldLeft, B!MapThenFoldSet
<1>2. Acts(G, 1..n, V)
  BY DEF Acts, Lessens
<1>3. \A t \in SUBSET (1..n) : t # {} => B!Max(t) \in 1..n
  BY LargestChosen
<1>4. amount \in V
  OBVIOUS
<1> HIDE DEF V
<1>5. PICK F \in [SUBSET (1..n) -> V] : FoldOf(F, 1..n, amount, G, LastIndex(n))
  <2> HIDE DEF G
  <2> QED  BY <1>2, <1>4, ListFoldExists
<1>6. Folds(F)
  BY <1>3, <1>5 DEF FoldOf, LastIndex
<1>7. Folds(iter)
  <2> HIDE DEF Folds
  <2> QED  BY <1>6
<1> HIDE DEF iter
<1>8. FoldsOn(iter, n, V, amount, G)
  BY <1>3, <1>7 DEF FoldsOn
<1>9. PICK c : LineOf(c, n, V, amount, G) /\ iter[1..n] = c[n]
  <2> HIDE DEF G
  <2> QED  BY <1>2, <1>4, <1>8, ListFold
<1>10. PercentLine(c, n, amount, s, r)
  <2>1. ASSUME NEW i \in 1..n PROVE c[i - 1] \in V
    <3>1. i - 1 \in 0..n
      OBVIOUS
    <3> QED  BY <3>1, <1>9 DEF LineOf
  <2> QED  BY <1>9, <2>1 DEF LineOf, PercentLine, V
<1> QED
  BY <1>1, <1>9, <1>10


\* The values of the discounts of a kind.
LEMMA ValuesFold ==
  ASSUME DiscountsOK, NEW kind, NEW day, NEW U,
         \A i \in 1..Len(discounts) : discounts[i].kind = kind => discounts[i].value \in U
  PROVE  B!Values(kind, day) \in Seq(U)
<1> DEFINE n == Len(discounts)
           V == Seq(U)
           Add(v, d) == IF d.kind = kind /\ ~d.revoked /\ d.from =< day /\ day =< d.to
                        THEN Append(v, d.value) ELSE v
           G == [i \in 1..n |-> [v \in V |-> Add(v, discounts[i])]]
           Folds(f) == f = [t \in SUBSET DOMAIN discounts |->
                             IF t = {} THEN << >> ELSE Add(f[t \ {B!Max(t)}], discounts[B!Max(t)])]
           iter == CHOOSE iter : Folds(iter)
<1>0. n \in Nat /\ DOMAIN discounts = 1..n
  BY SeqIs DEF DiscountsOK
<1>1. B!Values(kind, day) = iter[1..n]
  <2>1. B!Values(kind, day) = iter[DOMAIN discounts]
    BY Zenon DEF B!Values, B!FoldLeft, B!MapThenFoldSet
  <2> HIDE DEF iter
  <2> QED  BY <2>1, <1>0
<1>2. Acts(G, 1..n, V)
  <2>1. ASSUME NEW i \in 1..n, NEW v \in V PROVE Add(v, discounts[i]) \in V
    <3>1. CASE discounts[i].kind = kind
      <4>1. Append(v, discounts[i].value) \in V
        BY <3>1
      <4> HIDE DEF V
      <4> QED  BY <4>1
    <3>2. CASE discounts[i].kind # kind
      BY <3>2
    <3> QED  BY <3>1, <3>2
  <2> HIDE DEF V, Add
  <2> QED  BY <2>1 DEF Acts
<1>3. \A t \in SUBSET (1..n) : t # {} => B!Max(t) \in 1..n
  BY <1>0, LargestChosen
<1>4. << >> \in V
  OBVIOUS
<1> HIDE DEF V, n, Add
<1>5. PICK F \in [SUBSET (1..n) -> V] : FoldOf(F, 1..n, << >>, G, LastIndex(n))
  <2> HIDE DEF G
  <2> QED  BY <1>0, <1>2, <1>4, ListFoldExists
<1>6. Folds(F)
  BY <1>0, <1>3, <1>5 DEF FoldOf, LastIndex
<1>7. Folds(iter)
  <2> HIDE DEF Folds
  <2> QED  BY <1>6
<1> HIDE DEF iter
<1>8. FoldsOn(iter, n, V, << >>, G)
  BY <1>0, <1>3, <1>7 DEF FoldsOn
<1>9. PICK c : LineOf(c, n, V, << >>, G) /\ iter[1..n] = c[n]
  <2> HIDE DEF G
  <2> QED  BY <1>0, <1>2, <1>4, <1>8, ListFold
<1>10. n \in 0..n
  BY <1>0
<1> QED
  BY <1>1, <1>9, <1>10 DEF LineOf, V


\* The discounts in force are natural numbers, the percentages no more than all.
LEMMA ValuesAreNumbers ==
  ASSUME DiscountsOK, NEW day
  PROVE  B!Values("fixed", day) \in Seq(Nat) /\ B!Values("percent", day) \in Seq(0..B!FullPercent)
<1>1. ASSUME NEW i \in 1..Len(discounts) PROVE discounts[i].value \in Nat
  <2>1. discounts[i] \in Discount
    BY SeqIs DEF DiscountsOK
  <2> QED  BY <2>1 DEF Discount
<1>2. ASSUME NEW i \in 1..Len(discounts), discounts[i].kind = "percent" PROVE discounts[i].value \in 0..B!FullPercent
  <2>1. discounts[i].value <= B!FullPercent
    BY <1>2 DEF DiscountsOK
  <2> QED  BY <2>1, <1>1, PercentIs
<1>3. B!Values("fixed", day) \in Seq(Nat)
  <2> DEFINE U == Nat
  <2>1. \A i \in 1..Len(discounts) : discounts[i].kind = "fixed" => discounts[i].value \in U
    BY <1>1
  <2> HIDE DEF U
  <2>2. B!Values("fixed", day) \in Seq(U)
    BY <2>1, ValuesFold
  <2> QED  BY <2>2 DEF U
<1>4. B!Values("percent", day) \in Seq(0..B!FullPercent)
  <2>1. \A i \in 1..Len(discounts) : discounts[i].kind = "percent" => discounts[i].value \in 0..B!FullPercent
    BY <1>2
  <2> QED  BY <2>1, ValuesFold
<1> QED  BY <1>3, <1>4

-----------------------------------------------------------------------------
\* Rounding.

\* Products are ordered as their factors are.
LEMMA TimesOrder ==
  ASSUME NEW a \in Int, NEW b \in Int, NEW d \in Nat, a <= b
  PROVE  d * a <= d * b
OBVIOUS

\* What the solver does not find of products.
LEMMA TimesIs ==
  ASSUME NEW a \in Int, NEW b \in Int, NEW d \in Int
  PROVE  /\ d * a \in Int /\ d * (a + b) = d * a + d * b /\ d * (a - b) = d * a - d * b /\ d * a = a * d
         /\ d * 1 = d /\ d * 0 = 0
OBVIOUS

\* Quotient and remainder.
LEMMA QuotientRest ==
  ASSUME NEW n \in Nat, NEW d \in Nat, d > 0
  PROVE  n \div d \in Nat /\ n % d \in Nat /\ n % d < d /\ n = d * (n \div d) + (n % d)
<1>1. n \div d \in Int
  BY SMT
<1>2. n \div d >= 0
  BY SMT
<1>3. n % d \in Nat
  BY SMT
<1>4. n % d < d
  BY SMT
<1>5. n = (n \div d) * d + (n % d)
  BY SMTT(30)
<1> DEFINE q == n \div d
           r == n % d
<1>6. q \in Int /\ q >= 0 /\ r \in Nat /\ r < d /\ n = q * d + r
  BY <1>1, <1>2, <1>3, <1>4, <1>5
<1> HIDE DEF q, r
<1>7. q \in Nat /\ q * d = d * q
  BY <1>6
<1>8. q \in Nat /\ r \in Nat /\ r < d /\ n = d * q + r
  BY <1>6, <1>7
<1>9. n \div d \in Nat /\ n % d \in Nat /\ n % d < d
  BY <1>1, <1>2, <1>3, <1>4
<1>10. n = d * (n \div d) + (n % d)
  BY <1>8, Zenon DEF q, r
<1> QED  BY <1>9, <1>10, Zenon

\* Of two numbers the one with the smaller quotient is the smaller.
LEMMA QuotientUnique ==
  ASSUME NEW d \in Nat, d > 0, NEW q \in Int, NEW p \in Int, NEW r \in Nat, NEW s \in Nat,
         r < d, s < d, d * q + r <= d * p + s
  PROVE  q <= p
<1>1. SUFFICES ASSUME p + 1 <= q PROVE FALSE
  OBVIOUS
<1>2. d * (p + 1) <= d * q
  BY <1>1, TimesOrder
<1>3. d * (p + 1) = d * p + d
  OBVIOUS
<1>4. d * p \in Int /\ d * q \in Int
  OBVIOUS
<1> QED  BY <1>2, <1>3, <1>4

\* A larger dividend has no smaller quotient.
LEMMA QuotientOrder ==
  ASSUME NEW n \in Nat, NEW m \in Nat, n <= m, NEW d \in Nat, d > 0
  PROVE  n \div d <= m \div d
<1>1. /\ n \div d \in Nat /\ n % d \in Nat /\ n % d < d /\ n = d * (n \div d) + (n % d)
      /\ m \div d \in Nat /\ m % d \in Nat /\ m % d < d /\ m = d * (m \div d) + (m % d)
  BY QuotientRest
<1>2. d * (n \div d) + (n % d) <= d * (m \div d) + (m % d)
  BY <1>1
<1> DEFINE q == n \div d
           p == m \div d
           r == n % d
           s == m % d
<1>3. q \in Int /\ p \in Int /\ r \in Nat /\ s \in Nat /\ r < d /\ s < d /\ d * q + r <= d * p + s
  BY <1>1, <1>2
<1> HIDE DEF q, p, r, s
<1>4. q <= p
  BY <1>3, QuotientUnique
<1> QED  BY <1>4 DEF q, p

\* The quotient is the only number with a remainder below the divisor.
LEMMA QuotientIs ==
  ASSUME NEW n \in Nat, NEW d \in Nat, d > 0, NEW q \in Int, NEW r \in Nat, r < d, n = d * q + r
  PROVE  n \div d = q
<1> DEFINE p == n \div d
           s == n % d
<1>1. p \in Int /\ s \in Nat /\ s < d /\ n = d * p + s
  BY QuotientRest
<1> HIDE DEF p, s
<1>2. d * q + r <= d * p + s /\ d * p + s <= d * q + r
  <2>1. n <= n
    OBVIOUS
  <2> QED  BY <2>1, <1>1
<1>3. q <= p /\ p <= q
  BY <1>1, <1>2, QuotientUnique
<1> QED  BY <1>1, <1>3 DEF p

\* How each mode rounds.
LEMMA RoundForms ==
  ASSUME NEW n \in Nat, NEW d \in Nat, d > 0
  PROVE  /\ B!divRound(n, d, "floor") = n \div d
         /\ B!divRound(n, d, "ceil") = (n + d - 1) \div d
         /\ B!divRound(n, d, "half_up") = (n + d \div 2) \div d
         /\ B!divRound(n, d, "bankers") =
              IF 2 * (n % d) < d \/ (2 * (n % d) = d /\ (n \div d) % 2 = 0)
              THEN n \div d ELSE n \div d + 1
<1>1. d # 0
  OBVIOUS
<1> QED  BY <1>1, Zenon DEF B!divRound

\* Half of the divisor is below it.
LEMMA HalfIs ==
  ASSUME NEW d \in Nat, d > 0
  PROVE  d \div 2 \in Nat /\ d \div 2 < d
<1> DEFINE h == d \div 2
           s == d % 2
<1>1. h \in Nat /\ s \in Nat /\ d = 2 * h + s
  BY QuotientRest
<1> HIDE DEF h, s
<1>2. h \in Nat /\ h < d
  BY <1>1
<1> QED  BY <1>2 DEF h

\* A quotient is rounded to a neighbour of it.
LEMMA RoundNear ==
  ASSUME NEW n \in Nat, NEW d \in Nat, d > 0, NEW m \in Roundings
  PROVE  LET q == B!divRound(n, d, m) IN q \in Nat /\ d * q < n + d /\ n < d * q + d
<1>1. CASE m = "floor"
  <2> DEFINE q == n \div d
             s == n % d
  <2>1. q \in Nat /\ s \in Nat /\ s < d /\ n = d * q + s
    BY QuotientRest
  <2> HIDE DEF q, s
  <2>2. d * q \in Nat
    BY <2>1
  <2>3. d * q < n + d /\ n < d * q + d
    BY <2>1, <2>2
  <2> QED  BY <1>1, <2>1, <2>3, RoundForms DEF q
<1>2. CASE m = "ceil"
  <2> DEFINE k == n + d - 1
             q == k \div d
             s == k % d
  <2>1. k \in Nat /\ k = n + d - 1
    OBVIOUS
  <2>2. q \in Nat /\ s \in Nat /\ s < d /\ k = d * q + s
    BY <2>1, QuotientRest
  <2> HIDE DEF q, s, k
  <2>3. d * q \in Nat
    BY <2>2
  <2>4. d * q < n + d /\ n < d * q + d
    BY <2>1, <2>2, <2>3
  <2> QED  BY <1>2, <2>2, <2>4, RoundForms DEF q, k
<1>3. CASE m = "half_up"
  <2> DEFINE h == d \div 2
             k == n + h
             q == k \div d
             s == k % d
  <2>1. h \in Nat /\ h < d
    BY HalfIs
  <2> HIDE DEF h
  <2>2. k \in Nat /\ k = n + h
    BY <2>1
  <2> HIDE DEF k
  <2>3. q \in Nat /\ s \in Nat /\ s < d /\ k = d * q + s
    BY <2>2, QuotientRest, Zenon
  <2> HIDE DEF q, s
  <2>4. d * q \in Nat
    BY <2>3
  <2>5. d * q < n + d /\ n < d * q + d
    BY <2>1, <2>2, <2>3, <2>4
  <2> QED  BY <1>3, <2>3, <2>5, RoundForms DEF q, k, h
<1>4. CASE m = "bankers"
  <2> DEFINE p == n \div d
             s == n % d
             even == p % 2 = 0
             q == IF 2 * s < d \/ (2 * s = d /\ even) THEN p ELSE p + 1
  <2>1. p \in Nat /\ s \in Nat /\ s < d /\ n = d * p + s
    BY QuotientRest
  <2>2. B!divRound(n, d, m) = q
    BY <1>4, RoundForms
  <2> HIDE DEF p, s, even
  <2>3. d * p \in Nat /\ d * (p + 1) = d * p + d
    BY <2>1
  <2>4. q = p \/ (q = p + 1 /\ ~(2 * s < d))
    OBVIOUS
  <2> HIDE DEF q
  <2>5. CASE q = p
    BY <2>1, <2>2, <2>3, <2>5
  <2>6. CASE q = p + 1 /\ ~(2 * s < d)
    <3>1. s > 0
      BY <2>1, <2>6
    <3>2. d * q = d * p + d /\ q \in Nat
      BY <2>1, <2>3, <2>6
    <3>3. d * q < n + d /\ n < d * q + d
      BY <2>1, <2>3, <3>1, <3>2
    <3> QED  BY <2>2, <3>2, <3>3
  <2> QED  BY <2>4, <2>5, <2>6
<1> QED  BY <1>1, <1>2, <1>3, <1>4 DEF Roundings

\* Multiples that are less than the divisor apart.
LEMMA TimesLess ==
  ASSUME NEW d \in Nat, d > 0, NEW a \in Int, NEW b \in Int, d * a < d * b + d
  PROVE  a <= b
<1>1. SUFFICES ASSUME b + 1 <= a PROVE FALSE
  OBVIOUS
<1>2. d * (b + 1) <= d * a
  BY <1>1, TimesOrder
<1>3. d * (b + 1) = d * b + d /\ d * b \in Int /\ d * a \in Int
  OBVIOUS
<1> QED  BY <1>2, <1>3

\* A multiple is not rounded.
LEMMA RoundExact ==
  ASSUME NEW x \in Nat, NEW d \in Nat, d > 0, NEW m \in Roundings
  PROVE  B!divRound(d * x, d, m) = x /\ B!divRound(x * d, d, m) = x
<1> DEFINE n == d * x
           q == B!divRound(n, d, m)
<1>1. n \in Nat /\ n = x * d
  OBVIOUS
<1>2. q \in Nat /\ d * q < n + d /\ n < d * q + d
  <2> HIDE DEF n
  <2> QED  BY <1>1, RoundNear
<1> HIDE DEF q
<1>3. q <= x
  BY <1>2, TimesLess
<1>4. x <= q
  BY <1>2, TimesLess
<1>5. q = x
  BY <1>2, <1>3, <1>4
<1> QED  BY <1>1, <1>5 DEF q

\* Rounding keeps the order.
LEMMA RoundOrder ==
  ASSUME NEW n \in Nat, NEW k \in Nat, n <= k, NEW d \in Nat, d > 0, NEW m \in Roundings
  PROVE  B!divRound(n, d, m) <= B!divRound(k, d, m)
<1>1. CASE m = "floor"
  BY <1>1, RoundForms, QuotientOrder, ZenonT(60)
<1>2. CASE m = "ceil"
  <2>1. n + d - 1 \in Nat /\ k + d - 1 \in Nat /\ n + d - 1 <= k + d - 1
    OBVIOUS
  <2>2. (n + d - 1) \div d <= (k + d - 1) \div d
    BY <2>1, QuotientOrder
  <2> QED  BY <1>2, <2>2, RoundForms
<1>3. CASE m = "half_up"
  <2> DEFINE h == d \div 2
  <2>1. h \in Nat
    BY HalfIs
  <2> HIDE DEF h
  <2>2. n + h \in Nat /\ k + h \in Nat /\ n + h <= k + h
    BY <2>1
  <2>3. (n + h) \div d <= (k + h) \div d
    BY <2>2, QuotientOrder
  <2> QED  BY <1>3, <2>3, RoundForms DEF h
<1>4. CASE m = "bankers"
  <2> DEFINE p == n \div d
             s == n % d
             p2 == k \div d
             s2 == k % d
             q == IF 2 * s < d \/ (2 * s = d /\ p % 2 = 0) THEN p ELSE p + 1
             q2 == IF 2 * s2 < d \/ (2 * s2 = d /\ p2 % 2 = 0) THEN p2 ELSE p2 + 1
  <2>1. p \in Nat /\ s \in Nat /\ s < d /\ n = d * p + s
    BY QuotientRest
  <2>2. p2 \in Nat /\ s2 \in Nat /\ s2 < d /\ k = d * p2 + s2
    BY QuotientRest
  <2>3. B!divRound(n, d, m) = q /\ B!divRound(k, d, m) = q2
    BY <1>4, RoundForms
  <2>4. p <= p2
    BY QuotientOrder
  <2>5. q = p \/ q = p + 1
    OBVIOUS
  <2>6. q2 = p2 \/ q2 = p2 + 1
    OBVIOUS
  <2>7. CASE p # p2
    <3> HIDE DEF p, p2, q, q2
    <3> QED  BY <2>1, <2>2, <2>3, <2>4, <2>5, <2>6, <2>7
  <2>8. CASE p = p2
    <3>1. s <= s2
      <4> HIDE DEF p, p2, s, s2
      <4>1. d * p \in Nat
        BY <2>1
      <4> QED  BY <4>1, <2>1, <2>2, <2>8
    <3> DEFINE even == p % 2 = 0
    <3>2. q = (IF 2 * s < d \/ (2 * s = d /\ even) THEN p ELSE p + 1)
          /\ q2 = (IF 2 * s2 < d \/ (2 * s2 = d /\ even) THEN p ELSE p + 1)
      BY <2>8
    <3> HIDE DEF p, p2, s, s2, q, q2, even
    <3>3. q <= q2
      BY <2>1, <2>2, <3>1, <3>2
    <3> QED  BY <2>3, <3>3
  <2> QED  BY <2>7, <2>8
<1> QED  BY <1>1, <1>2, <1>3, <1>4 DEF Roundings

\* Two quotients are no further apart than their dividends, and one.
LEMMA RoundStep ==
  ASSUME NEW n \in Nat, NEW k \in Nat, NEW d \in Nat, d > 0, NEW m \in Roundings
  PROVE  d * B!divRound(k, d, m) - d * B!divRound(n, d, m) <= k - n + d
<1>1. CASE m = "floor"
  <2> DEFINE p == n \div d
             s == n % d
             p2 == k \div d
             s2 == k % d
  <2>1. p \in Nat /\ s \in Nat /\ s < d /\ n = d * p + s
    BY QuotientRest
  <2>2. p2 \in Nat /\ s2 \in Nat /\ s2 < d /\ k = d * p2 + s2
    BY QuotientRest
  <2>3. B!divRound(n, d, m) = p /\ B!divRound(k, d, m) = p2
    BY <1>1, RoundForms
  <2> HIDE DEF p, s, p2, s2
  <2>4. d * p \in Nat /\ d * p2 \in Nat
    BY <2>1, <2>2
  <2>5. d * p2 - d * p <= k - n + d
    BY <2>1, <2>2, <2>4
  <2> QED  BY <2>3, <2>5
<1>2. CASE m = "ceil"
  <2> DEFINE n1 == n + d - 1
             k1 == k + d - 1
             p == n1 \div d
             s == n1 % d
             p2 == k1 \div d
             s2 == k1 % d
  <2>0. n1 \in Nat /\ k1 \in Nat /\ n1 = n + d - 1 /\ k1 = k + d - 1
    OBVIOUS
  <2>3. B!divRound(n, d, m) = p /\ B!divRound(k, d, m) = p2
    BY <1>2, RoundForms
  <2> HIDE DEF n1, k1
  <2>1. p \in Nat /\ s \in Nat /\ s < d /\ n1 = d * p + s
    BY <2>0, QuotientRest
  <2>2. p2 \in Nat /\ s2 \in Nat /\ s2 < d /\ k1 = d * p2 + s2
    BY <2>0, QuotientRest
  <2> HIDE DEF p, s, p2, s2
  <2>4. d * p \in Nat /\ d * p2 \in Nat
    BY <2>1, <2>2
  <2>5. d * p2 - d * p <= k - n + d
    BY <2>0, <2>1, <2>2, <2>4
  <2> QED  BY <2>3, <2>5
<1>3. CASE m = "half_up"
  <2> DEFINE h == d \div 2
             n1 == n + h
             k1 == k + h
             p == n1 \div d
             s == n1 % d
             p2 == k1 \div d
             s2 == k1 % d
  <2>3. B!divRound(n, d, m) = p /\ B!divRound(k, d, m) = p2
    BY <1>3, RoundForms
  <2>h. h \in Nat
    BY HalfIs
  <2> HIDE DEF h
  <2>0. n1 \in Nat /\ k1 \in Nat /\ n1 = n + h /\ k1 = k + h
    BY <2>h
  <2> HIDE DEF n1, k1
  <2>1. p \in Nat /\ s \in Nat /\ s < d /\ n1 = d * p + s
    BY <2>0, QuotientRest
  <2>2. p2 \in Nat /\ s2 \in Nat /\ s2 < d /\ k1 = d * p2 + s2
    BY <2>0, QuotientRest
  <2> HIDE DEF p, s, p2, s2
  <2>4. d * p \in Nat /\ d * p2 \in Nat
    BY <2>1, <2>2
  <2>5. d * p2 - d * p <= k - n + d
    BY <2>h, <2>0, <2>1, <2>2, <2>4
  <2> QED  BY <2>3, <2>5
<1>4. CASE m = "bankers"
  <2>1. ASSUME NEW i \in Nat
        PROVE  LET q == B!divRound(i, d, m) IN
               /\ q \in Nat /\ d * q \in Nat
               /\ 2 * (d * q) <= 2 * i + d /\ 2 * i <= 2 * (d * q) + d
    <3> DEFINE p == i \div d
               s == i % d
               even == p % 2 = 0
               q == IF 2 * s < d \/ (2 * s = d /\ even) THEN p ELSE p + 1
    <3>1. p \in Nat /\ s \in Nat /\ s < d /\ i = d * p + s
      BY QuotientRest
    <3>2. B!divRound(i, d, m) = q
      BY <1>4, RoundForms
    <3> HIDE DEF p, s, even
    <3>3. d * p \in Nat /\ d * (p + 1) = d * p + d
      BY <3>1
    <3>4. (q = p /\ 2 * s <= d) \/ (q = p + 1 /\ 2 * s >= d)
      BY <3>1
    <3> HIDE DEF q
    <3>5. q \in Nat /\ ((d * q = d * p /\ 2 * s <= d) \/ (d * q = d * p + d /\ 2 * s >= d))
      <4>1. CASE q = p /\ 2 * s <= d
        BY <3>1, <4>1
      <4>2. CASE q = p + 1 /\ 2 * s >= d
        BY <3>1, <3>3, <4>2
      <4> QED  BY <3>4, <4>1, <4>2
    <3>6. d * q \in Nat /\ 2 * (d * q) <= 2 * i + d /\ 2 * i <= 2 * (d * q) + d
      <4> DEFINE a == d * p
                 b == d * q
      <4>1. a \in Nat /\ i = a + s /\ ((b = a /\ 2 * s <= d) \/ (b = a + d /\ 2 * s >= d))
        BY <3>1, <3>3, <3>5
      <4> HIDE DEF a, b
      <4>2. b \in Nat /\ 2 * b <= 2 * i + d /\ 2 * i <= 2 * b + d
        BY <4>1, <3>1
      <4> QED  BY <4>2 DEF b
    <3> QED  BY <3>2, <3>5, <3>6
  <2> DEFINE a == d * B!divRound(n, d, m)
             b == d * B!divRound(k, d, m)
  <2>2. a \in Nat /\ 2 * a <= 2 * n + d /\ 2 * n <= 2 * a + d
    BY <2>1
  <2>3. b \in Nat /\ 2 * b <= 2 * k + d /\ 2 * k <= 2 * b + d
    BY <2>1
  <2> HIDE DEF a, b
  <2>4. b - a <= k - n + d
    BY <2>2, <2>3
  <2> QED  BY <2>4 DEF a, b
<1> QED  BY <1>1, <1>2, <1>3, <1>4 DEF Roundings

\* The part bp / d of a larger amount is larger, by no more than the amount is.
LEMMA PartStep ==
  ASSUME NEW d \in Nat, d > 0, NEW bp \in Nat, bp <= d, NEW m \in Roundings,
         NEW x \in Nat, NEW y \in Nat, x <= y
  PROVE  LET q == B!divRound(x * bp, d, m)
             p == B!divRound(y * bp, d, m)
         IN  q \in Nat /\ p \in Nat /\ q <= x /\ p <= y /\ q <= p /\ p - q <= y - x
<1> DEFINE q == B!divRound(x * bp, d, m)
           p == B!divRound(y * bp, d, m)
           n == x * bp
           k == y * bp
<1>1. n \in Nat /\ k \in Nat /\ n = bp * x /\ k = bp * y
  OBVIOUS
<1>2. n <= k /\ n <= d * x /\ k <= d * y /\ d * x \in Nat /\ d * y \in Nat
  <2>1. bp * x <= bp * y
    BY TimesOrder
  <2>2. x * bp <= x * d /\ y * bp <= y * d /\ x * d = d * x /\ y * d = d * y
    BY TimesOrder, TimesIs
  <2>3. d * x \in Nat /\ d * y \in Nat
    OBVIOUS
  <2> QED  BY <1>1, <2>1, <2>2, <2>3
<1>3. q \in Nat /\ d * q < n + d /\ p \in Nat /\ d * p < k + d
  <2> HIDE DEF n, k
  <2> QED  BY <1>1, RoundNear DEF n, k
<1>4. q <= p
  <2> HIDE DEF n, k
  <2>1. B!divRound(n, d, m) <= B!divRound(k, d, m)
    BY <1>1, <1>2, RoundOrder
  <2> QED  BY <2>1 DEF n, k
<1>5. d * p - d * q <= k - n + d
  <2> HIDE DEF n, k
  <2>1. d * B!divRound(k, d, m) - d * B!divRound(n, d, m) <= k - n + d
    BY <1>1, RoundStep
  <2> QED  BY <2>1 DEF n, k
<1>6. bp = d => q = x /\ p = y
  BY RoundExact
<1> HIDE DEF q, p, n, k
<1>7. q <= x /\ p <= y
  <2>1. d * q \in Nat /\ d * p \in Nat
    BY <1>3
  <2>2. d * q < d * x + d /\ d * p < d * y + d
    BY <1>1, <1>2, <1>3, <2>1
  <2> QED  BY <1>3, <2>2, TimesLess
<1>8. CASE bp # d /\ x = y
  BY <1>8, <1>7, <1>3, <1>4 DEF q, p
<1>9. CASE bp # d /\ x # y
  <2> DEFINE e == y - x
  <2>1. e \in Nat /\ e > 0
    BY <1>9
  <2> HIDE DEF e
  <2>2. e * bp \in Nat /\ e * bp = k - n
    <3>1. e * bp = bp * e /\ bp * (y - x) = bp * y - bp * x
      BY <2>1, TimesIs
    <3> QED  BY <3>1, <1>1, <2>1 DEF e
  <2>3. e * bp < d * e
    <3>1. e * (bp + 1) <= e * d
      BY <1>9, <2>1, TimesOrder
    <3>2. e * (bp + 1) = e * bp + e * 1 /\ e * 1 = e /\ e * d = d * e
      BY <2>1, TimesIs
    <3>3. e * d \in Nat
      BY <2>1
    <3> QED  BY <3>1, <3>2, <3>3, <2>1, <2>2
  <2>4. d * (p - q) = d * p - d * q
    BY <1>3, TimesIs
  <2>5. d * (p - q) < d * e + d
    <3>1. d * p \in Nat /\ d * q \in Nat /\ d * e \in Nat
      BY <1>3, <2>1
    <3> QED  BY <3>1, <1>1, <1>5, <2>2, <2>3, <2>4
  <2>6. p - q <= e
    <3> DEFINE z == p - q
    <3>1. z \in Int /\ d * z < d * e + d
      BY <1>3, <2>5
    <3> HIDE DEF z
    <3>2. z <= e
      BY <3>1, <2>1, TimesLess
    <3> QED  BY <3>2 DEF z
  <2>7. q \in Nat /\ p \in Nat /\ q <= x /\ p <= y /\ q <= p /\ p - q <= y - x
    BY <2>6, <1>3, <1>4, <1>7 DEF e
  <2> QED  BY <2>7 DEF q, p
<1>10. CASE bp = d
  <2>1. q \in Nat /\ p \in Nat /\ q <= x /\ p <= y /\ q <= p /\ p - q <= y - x
    BY <1>6, <1>10
  <2> QED  BY <2>1 DEF q, p
<1> QED  BY <1>8, <1>9, <1>10 DEF q, p

\* From u to v is a step forward, no larger than the one from x to y.
Step(x, y, u, v) == x \in Nat /\ y \in Nat /\ x <= y /\ u \in Nat /\ v \in Nat /\ u <= v /\ v - u <= y - x

\* Step is transitive.
LEMMA StepTwice ==
  ASSUME NEW x, NEW y, NEW u, NEW v, NEW a, NEW b, Step(x, y, u, v), Step(u, v, a, b)
  PROVE  Step(x, y, a, b)
BY DEF Step

\* A percentage off keeps two amounts as close, whatever the rounding.
LEMMA PercentStep ==
  ASSUME NEW r, r.rounding \in Roundings, NEW bp \in Nat, bp <= B!FullPercent,
         NEW x \in Nat, NEW y \in Nat, x <= y
  PROVE  Step(x, y, B!Percent(x, bp, r), B!Percent(y, bp, r))
<1> DEFINE q == B!divRound(x * bp, B!FullPercent, r.rounding)
           p == B!divRound(y * bp, B!FullPercent, r.rounding)
<1>1. q \in Nat /\ p \in Nat /\ q <= x /\ p <= y /\ q <= p /\ p - q <= y - x
  BY PercentIs, PartStep
<1>2. B!Percent(x, bp, r) = x - q /\ B!Percent(y, bp, r) = y - p
  BY DEF B!Percent
<1> HIDE DEF q, p
<1>3. x - q \in Nat /\ y - p \in Nat /\ (y - p) - (x - q) <= y - x
  BY <1>1
<1>4. x - q <= y - p
  BY <1>1
<1> QED  BY <1>2, <1>3, <1>4 DEF Step

\* The sum of natural numbers is one.
LEMMA SumIs ==
  ASSUME NEW s \in Seq(Nat)
  PROVE  B!Sum(s) \in Nat
<1> DEFINE n == Len(s)
<1>1. n \in Nat /\ DOMAIN s = 1..n /\ \A i \in 1..n : s[i] \in Nat
  BY SeqIs
<1>2. PICK c \in [0..n -> Nat] : B!Sum(s) = c[n]
  BY <1>1, SumFold
<1> QED  BY <1>1, <1>2

\* So do the fixed discounts.
LEMMA LessFixedStep ==
  ASSUME NEW r, NEW s \in Seq(Nat), NEW x \in Nat, NEW y \in Nat, x <= y
  PROVE  Step(x, y, B!LessFixed(x, s, r), B!LessFixed(y, s, r))
<1> DEFINE off == IF r.multipleFixed = "largest_only" THEN B!FoldLeft(B!Greatest, 0, s) ELSE B!Sum(s)
           n == Len(s)
<1>1. n \in Nat /\ DOMAIN s = 1..n /\ \A i \in 1..n : s[i] \in Nat
  BY SeqIs
<1>2. off \in Nat
  <2>1. B!FoldLeft(B!Greatest, 0, s) \in Nat
    BY <1>1, GreatestFold
  <2>2. B!Sum(s) \in Nat
    BY SumIs
  <2> QED  BY <2>1, <2>2
<1>3. B!LessFixed(x, s, r) = B!Greatest(0, x - off) /\ B!LessFixed(y, s, r) = B!Greatest(0, y - off)
  BY DEF B!LessFixed
<1> HIDE DEF off
<1> QED  BY <1>2, <1>3 DEF Step, B!Greatest

\* So do the percentages, summed or compounded.
LEMMA LessPercentStep ==
  ASSUME NEW r, r.rounding \in Roundings, NEW s \in Seq(0..B!FullPercent),
         NEW x \in Nat, NEW y \in Nat, x <= y
  PROVE  Step(x, y, B!LessPercent(x, s, r), B!LessPercent(y, s, r))
<1> DEFINE n == Len(s)
<1>1. n \in Nat /\ DOMAIN s = 1..n /\ \A i \in 1..n : s[i] \in Nat /\ s[i] <= B!FullPercent
  <2> DEFINE U == 0..B!FullPercent
  <2>1. n \in Nat /\ DOMAIN s = 1..n /\ \A i \in 1..n : s[i] \in U
    <3> HIDE DEF U
    <3>1. s \in Seq(U)
      BY DEF U
    <3> QED  BY <3>1, SeqIs
  <2> QED  BY <2>1, PercentIs
<1>2. CASE r.multiplePercent = "compound"
  <2>1. Lessens(s, n, r)
    <3>1. ASSUME NEW i \in 1..n, NEW a \in Nat PROVE B!Percent(a, s[i], r) \in Nat
      <4>1. a <= a
        OBVIOUS
      <4>2. Step(a, a, B!Percent(a, s[i], r), B!Percent(a, s[i], r))
        BY <1>1, <4>1, PercentStep
      <4> QED  BY <4>2 DEF Step
    <3> QED  BY <3>1 DEF Lessens
  <2>2. PICK c : PercentLine(c, n, x, s, r) /\ Compounded(x, s, r) = c[n]
    BY <1>1, <2>1, PercentFold
  <2>3. PICK d : PercentLine(d, n, y, s, r) /\ Compounded(y, s, r) = d[n]
    BY <1>1, <2>1, PercentFold
  <2> DEFINE T == {i \in 0..n : Step(x, y, c[i], d[i])}
  <2>4. 0 \in T
    BY <2>2, <2>3, <1>1 DEF PercentLine, Step
  <2>5. ASSUME NEW i \in 1..n, i - 1 \in T PROVE i \in T
    <3>1. Step(x, y, c[i - 1], d[i - 1]) /\ i \in 0..n
      BY <2>5
    <3>2. c[i] = B!Percent(c[i - 1], s[i], r) /\ d[i] = B!Percent(d[i - 1], s[i], r)
      BY <2>2, <2>3 DEF PercentLine
    <3>3. c[i - 1] \in Nat /\ d[i - 1] \in Nat /\ c[i - 1] <= d[i - 1]
      BY <3>1 DEF Step
    <3>4. Step(c[i - 1], d[i - 1], c[i], d[i])
      BY <1>1, <3>2, <3>3, PercentStep
    <3>5. Step(x, y, c[i], d[i])
      BY <3>1, <3>4, StepTwice
    <3> QED  BY <3>1, <3>5
  <2>6. n \in T
    <3>1. n \in 0..n
      BY <1>1
    <3> HIDE DEF T, n
    <3> QED  BY <3>1, <1>1, <2>4, <2>5, InductionUpTo
  <2>7. Step(x, y, c[n], d[n])
    BY <2>6
  <2>8. B!LessPercent(x, s, r) = Compounded(x, s, r) /\ B!LessPercent(y, s, r) = Compounded(y, s, r)
    BY <1>2, Zenon DEF B!LessPercent, Compounded
  <2> QED  BY <2>2, <2>3, <2>7, <2>8
<1>3. CASE r.multiplePercent # "compound"
  <2> DEFINE bp == B!Least(B!Sum(s), B!FullPercent)
  <2>1. B!Sum(s) \in Nat
    <3>1. s \in Seq(Nat)
      <4> HIDE DEF n
      <4> QED  BY <1>1
    <3> QED  BY <3>1, SumIs
  <2>2. bp \in Nat /\ bp <= B!FullPercent
    BY <2>1, PercentIs DEF B!Least
  <2>3. B!LessPercent(x, s, r) = B!Percent(x, bp, r) /\ B!LessPercent(y, s, r) = B!Percent(y, bp, r)
    BY <1>3, Zenon DEF B!LessPercent
  <2> HIDE DEF bp
  <2> QED  BY <2>2, <2>3, PercentStep
<1> QED  BY <1>2, <1>3

\* Less its discounts, a larger amount stays larger, by no more than it was.
LEMMA DiscountedStep ==
  ASSUME NEW r, r.rounding \in Roundings, NEW in, in.fixed \in Seq(Nat),
         in.percent \in Seq(0..B!FullPercent), NEW x \in Nat, NEW y \in Nat, x <= y
  PROVE  Step(x, y, B!applyDiscounts(x, in, r), B!applyDiscounts(y, in, r))
<1>1. Step(x, y, x, y)
  BY DEF Step
<1>2. ASSUME NEW a \in Nat, NEW b \in Nat, a <= b
      PROVE  /\ Step(a, b, B!LessFixed(a, in.fixed, r), B!LessFixed(b, in.fixed, r))
             /\ Step(a, b, B!LessPercent(a, in.percent, r), B!LessPercent(b, in.percent, r))
  BY <1>2, LessFixedStep, LessPercentStep
<1>3. CASE in.kind \notin r.appliesTo
  <2>1. B!applyDiscounts(x, in, r) = x /\ B!applyDiscounts(y, in, r) = y
    BY <1>3, Zenon DEF B!applyDiscounts
  <2> QED  BY <1>1, <2>1
<1>4. CASE in.kind \in r.appliesTo /\ r.order[1] = "fixed"
  <2> DEFINE a == B!LessFixed(x, in.fixed, r)
             b == B!LessFixed(y, in.fixed, r)
  <2>1. /\ B!applyDiscounts(x, in, r) = B!LessPercent(a, in.percent, r)
        /\ B!applyDiscounts(y, in, r) = B!LessPercent(b, in.percent, r)
    BY <1>4, Zenon DEF B!applyDiscounts
  <2>2. Step(x, y, a, b)
    BY <1>2
  <2> HIDE DEF a, b
  <2>3. a \in Nat /\ b \in Nat /\ a <= b
    BY <2>2 DEF Step
  <2> QED  BY <1>2, <2>1, <2>2, <2>3, StepTwice
<1>5. CASE in.kind \in r.appliesTo /\ r.order[1] # "fixed"
  <2> DEFINE a == B!LessPercent(x, in.percent, r)
             b == B!LessPercent(y, in.percent, r)
  <2>1. /\ B!applyDiscounts(x, in, r) = B!LessFixed(a, in.fixed, r)
        /\ B!applyDiscounts(y, in, r) = B!LessFixed(b, in.fixed, r)
    BY <1>5, Zenon DEF B!applyDiscounts
  <2>2. Step(x, y, a, b)
    BY <1>2
  <2> HIDE DEF a, b
  <2>3. a \in Nat /\ b \in Nat /\ a <= b
    BY <2>2 DEF Step
  <2> QED  BY <1>2, <2>1, <2>2, <2>3, StepTwice
<1> QED  BY <1>3, <1>4, <1>5

-----------------------------------------------------------------------------
\* Counting days.

\* Induction on the parts of a set that choosing its elements leaves.
LEMMA PartInduction ==
  ASSUME NEW S, IsFiniteSet(S), NEW ch, Chooses(ch, S), NEW T, {} \in T,
         \A s \in SUBSET S : s # {} /\ s \ {ch[s]} \in T => s \in T
  PROVE  S \in T
<1> DEFINE n == Cardinality(S)
           K == {k \in Nat : \A s \in SUBSET S : Cardinality(s) = k => s \in T}
<1>1. n \in Nat /\ \A s \in SUBSET S : IsFiniteSet(s) /\ Cardinality(s) \in Nat
                                       /\ (Cardinality(s) = 0 <=> s = {})
  <2>1. \A s \in SUBSET S : IsFiniteSet(s)
    BY FS_Subset
  <2> QED  BY <2>1, FS_CardinalityType, FS_EmptySet
<1>2. 0 \in K
  BY <1>1
<1>3. ASSUME NEW k \in 1..n, k - 1 \in K PROVE k \in K
  <2>1. k \in Nat
    BY <1>1
  <2>2. ASSUME NEW s \in SUBSET S, Cardinality(s) = k PROVE s \in T
    <3>1. s # {}
      BY <1>1, <2>2
    <3>2. ch[s] \in s
      BY <3>1 DEF Chooses
    <3>3. Cardinality(s \ {ch[s]}) = k - 1
      BY <1>1, <2>2, <3>2, FS_RemoveElement
    <3>4. s \ {ch[s]} \in T
      BY <1>3, <3>3
    <3> QED  BY <3>1, <3>4
  <2> QED  BY <2>1, <2>2
<1> HIDE DEF K
<1>4. n \in K
  <2>1. n \in 0..n
    BY <1>1
  <2> QED  BY <1>1, <1>2, <1>3, <2>1, InductionUpTo
<1> QED
  BY <1>4 DEF K

\* The days of the month on which the kindergarten works.
WorkDays == (Week \ {h.on : h \in {x \in holidays : ~x.isWorking}})
              \cup {h.on : h \in {x \in holidays : x.isWorking}}

\* The days of D that windows hold.
HeldBy(D, W) == {d \in D : \E w \in W : InWin(w, d)}

\* No two windows hold the same day.
Apart(W) == \A v, w \in W, d \in Int : InWin(v, d) /\ InWin(w, d) => v = w

\* Days of the month can be counted.
LEMMA DaysCounted ==
  ASSUME NEW D \in SUBSET (1..Month), NEW W
  PROVE  /\ IsFiniteSet(HeldBy(D, W)) /\ HeldBy(D, W) \subseteq D
         /\ Cardinality(HeldBy(D, W)) \in Nat
<1>1. IsFiniteSet(1..Month)
  BY UpTo, DaysAre
<1>2. IsFiniteSet(D)
  BY <1>1, FS_Subset
<1>3. HeldBy(D, W) \subseteq D
  BY DEF HeldBy
<1>4. IsFiniteSet(HeldBy(D, W))
  BY <1>2, <1>3, FS_Subset
<1> QED  BY <1>3, <1>4, FS_CardinalityType

\* Working days are days of the month.
LEMMA WorkDaysInMonth ==
  ASSUME RowsOK
  PROVE  WorkDays \in SUBSET (1..Month)
<1>1. Week \subseteq 1..Month
  BY BillAssumption DEF B!BillConstants
<1>2. \A h \in holidays : h.on \in 1..Month
  BY DEF RowsOK
<1> QED  BY <1>1, <1>2 DEF WorkDays

\* billableDaysInWindow counts the working days a window holds.
LEMMA CountIs ==
  ASSUME RowsOK, NEW w \in Win
  PROVE  B!Count(w) = Cardinality(HeldBy(WorkDays, {w}))
<1>1. B!Count(w) = B!Cardinality(WorkDays \cap (w.start..w.end))
  BY Zenon DEF B!Count, B!billableDaysInWindow, WorkDays
<1>2. w.start \in Int /\ w.end \in Int
  BY DEF Win
<1>3. \A d \in WorkDays : d \in Int
  BY WorkDaysInMonth
<1>4. \A d \in Int : d \in w.start..w.end <=> InWin(w, d)
  BY <1>2 DEF InWin
<1>5. WorkDays \cap (w.start..w.end) = HeldBy(WorkDays, {w})
  BY <1>3, <1>4 DEF HeldBy
<1> QED  BY <1>1, <1>5, CountedAlike

\* Windows that are apart hold as many working days as the sum of theirs.
LEMMA WorkingDaysAre ==
  ASSUME RowsOK, NEW W, IsFiniteSet(W), W \subseteq Win, Apart(W)
  PROVE  B!WorkingDays(W) = Cardinality(HeldBy(WorkDays, W))
<1> DEFINE V == Nat
           G == [w \in W |-> [v \in V |-> B!Count(w) + v]]
           ch == [s \in SUBSET W |-> CHOOSE x \in s : TRUE]
           Folds(f) == f = [s \in SUBSET W |->
                             IF s = {} THEN 0
                             ELSE B!Count(CHOOSE x \in s : TRUE) + f[s \ {CHOOSE x \in s : TRUE}]]
           iter == CHOOSE iter : Folds(iter)
           n(s) == Cardinality(HeldBy(WorkDays, s))
<1>1. B!WorkingDays(W) = iter[W]
  BY Zenon DEF B!WorkingDays, B!DaysIn, B!MapThenSumSet, B!MapThenFoldSet
<1>2. \A w \in W : B!Count(w) = n({w}) /\ n({w}) \in Nat
  BY CountIs, WorkDaysInMonth, DaysCounted
<1>3. Acts(G, W, V)
  <2>1. ASSUME NEW w \in W, NEW v \in V PROVE B!Count(w) + v \in V
    <3>1. B!Count(w) \in Nat
      BY <1>2
    <3> QED  BY <3>1
  <2> QED  BY <2>1 DEF Acts
<1>4. Chooses(ch, W)
  BY DEF Chooses
<1>5. \A s \in SUBSET W : s # {} => (CHOOSE x \in s : TRUE) \in s
  OBVIOUS
<1>6. PICK F \in [SUBSET W -> V] : FoldOf(F, W, 0, G, ch)
  <2>1. 0 \in V
    OBVIOUS
  <2> HIDE DEF G, V, ch
  <2> QED  BY <1>3, <1>4, <2>1, FoldExists
<1>7. Folds(F)
  <2>1. ASSUME NEW s \in SUBSET W, s # {}
        PROVE  F[s] = B!Count(CHOOSE x \in s : TRUE) + F[s \ {CHOOSE x \in s : TRUE}]
    <3> DEFINE x == CHOOSE x \in s : TRUE
    <3>1. F[s] = G[ch[s]][F[s \ {ch[s]}]] /\ ch[s] = x
      <4> HIDE DEF G
      <4> QED  BY <2>1, <1>6 DEF FoldOf
    <3>2. x \in W /\ F[s \ {x}] \in V
      BY <2>1, <1>5
    <3> HIDE DEF x
    <3> QED  BY <3>1, <3>2 DEF x
  <2>2. F[{}] = 0
    BY <1>6 DEF FoldOf
  <2>3. F \in [SUBSET W -> V]
    OBVIOUS
  <2> QED  BY <2>1, <2>2, <2>3
<1>8. Folds(iter)
  <2> HIDE DEF Folds
  <2> QED  BY <1>7
<1> HIDE DEF iter
<1>9. iter[{}] = 0 /\ \A s \in SUBSET W : s # {} => iter[s] = B!Count(ch[s]) + iter[s \ {ch[s]}]
  BY <1>8, <1>5
<1> DEFINE T == {s \in SUBSET W : iter[s] = n(s)}
<1>10. {} \in T
  <2>1. HeldBy(WorkDays, {}) = {}
    BY DEF HeldBy
  <2> QED  BY <2>1, <1>9, FS_EmptySet
<1>11. ASSUME NEW s \in SUBSET W, s # {}, s \ {ch[s]} \in T PROVE s \in T
  <2> DEFINE x == ch[s]
             t == s \ {x}
             A == HeldBy(WorkDays, {x})
             Held == HeldBy(WorkDays, t)
  <2>1. x \in s /\ x \in W
    BY <1>4, <1>11 DEF Chooses
  <2>2. iter[s] = B!Count(x) + iter[t] /\ iter[t] = n(t) /\ B!Count(x) = n({x})
    BY <1>2, <1>9, <1>11, <2>1
  <2> HIDE DEF x
  <2>3. HeldBy(WorkDays, s) = A \cup Held
    BY <2>1 DEF HeldBy
  <2>4. A \cap Held = {}
    <3>1. \A d \in WorkDays : d \in Int
      BY WorkDaysInMonth
    <3> QED  BY <2>1, <3>1 DEF HeldBy, Apart
  <2>5. IsFiniteSet(A) /\ IsFiniteSet(Held) /\ n({x}) \in Nat /\ n(t) \in Nat
    BY WorkDaysInMonth, DaysCounted
  <2>6. n(s) = n({x}) + n(t)
    <3> HIDE DEF A, Held
    <3>1. Cardinality(A \cup Held) = Cardinality(A) + Cardinality(Held) - Cardinality(A \cap Held)
      BY <2>5, FS_Union
    <3>2. Cardinality(A \cap Held) = 0
      BY <2>4, FS_EmptySet
    <3>3. Cardinality(A \cup Held) = Cardinality(A) + Cardinality(Held)
      BY <3>1, <3>2, <2>5 DEF A, Held
    <3> QED  BY <3>3, <2>3 DEF A, Held
  <2> QED  BY <2>2, <2>6
<1> HIDE DEF ch
<1>12. W \in T
  <2> HIDE DEF T
  <2> QED  BY <1>4, <1>10, <1>11, PartInduction
<1> QED  BY <1>1, <1>12

-----------------------------------------------------------------------------
\* Contexts.

\* Windows that are cut stay apart.
LEMMA ClippedApart ==
  ASSUME NEW W, W \subseteq Win, Apart(W), NEW from \in Int, NEW to \in Int
  PROVE  Apart(B!Clipped(W, from, to))
<1>1. ASSUME NEW x \in W, NEW d \in Int, InWin(B!Clip(x, from, to), d)
      PROVE  InWin(x, d)
  BY <1>1 DEF B!Clip, B!Window, B!Greatest, B!Least, Win, InWin
<1>2. \A w \in B!Clipped(W, from, to) : \E x \in W : w = B!Clip(x, from, to)
  BY DEF B!Clipped
<1>3. ASSUME NEW v \in B!Clipped(W, from, to), NEW w \in B!Clipped(W, from, to), NEW d \in Int,
             InWin(v, d), InWin(w, d)
      PROVE  v = w
  <2>1. PICK x \in W : v = B!Clip(x, from, to)
    BY <1>2
  <2>2. PICK y \in W : w = B!Clip(y, from, to)
    BY <1>2
  <2>3. InWin(x, d) /\ InWin(y, d)
    BY <1>1, <1>3, <2>1, <2>2
  <2> QED  BY <2>1, <2>2, <2>3 DEF Apart
<1> QED  BY <1>3 DEF Apart

\* Windows that lie between the two days are cut to themselves.
LEMMA ClippedSame ==
  ASSUME NEW W, W \subseteq Win, NEW from \in Int, NEW to \in Int,
         \A w \in W : from <= w.start /\ w.start <= w.end /\ w.end <= to
  PROVE  B!Clipped(W, from, to) = W
<1>1. ASSUME NEW w \in W PROVE B!Clip(w, from, to) = w /\ w.start <= w.end
  <2>1. w \in Win /\ w.start \in Int /\ w.end \in Int
    BY DEF Win
  <2>2. B!Greatest(w.start, from) = w.start /\ B!Least(w.end, to) = w.end
    BY <2>1 DEF B!Greatest, B!Least
  <2>3. w = [start |-> w.start, end |-> w.end]
    BY <2>1 DEF Win
  <2> QED  BY <2>2, <2>3 DEF B!Clip, B!Window
<1> QED  BY <1>1 DEF B!Clipped

\* The windows of a child are apart and lie in the month.
LEMMA WindowsBasic ==
  ASSUME BillInv
  PROVE  /\ IsFiniteSet(B!Windows) /\ B!Windows \subseteq Win /\ Apart(B!Windows)
         /\ \A w \in B!Windows : w.start \in Int /\ w.end \in Int /\ 1 <= w.start
                                 /\ w.start <= w.end /\ w.end <= Month
<1>1. IsFiniteSet(B!Windows) /\ B!Windows \subseteq MonthWin
      /\ (\A v, w \in B!Windows : v.start < w.start \/ v.end < w.end => v.end + 1 < w.start)
      /\ (\A v, w \in B!Windows : v.start = w.start => v = w)
  BY WindowsAre
<1>2. \A w \in B!Windows : w \in Win /\ w.start \in Int /\ w.end \in Int /\ 1 <= w.start
                           /\ w.start <= w.end /\ w.end <= Month
  BY <1>1 DEF MonthWin, Win
<1>3. ASSUME NEW v \in B!Windows, NEW w \in B!Windows, NEW d \in Int, InWin(v, d), InWin(w, d)
      PROVE  v = w
  <2>1. v.start <= d /\ d <= v.end /\ w.start <= d /\ d <= w.end
    BY <1>3 DEF InWin
  <2>2. ~(v.start < w.start)
    <3>1. v.start < w.start => v.end + 1 < w.start
      BY <1>1
    <3> QED  BY <3>1, <2>1, <1>2
  <2>3. ~(w.start < v.start)
    <3>1. w.start < v.start => w.end + 1 < v.start
      BY <1>1
    <3> QED  BY <3>1, <2>1, <1>2
  <2>4. v.start = w.start
    BY <2>2, <2>3, <1>2
  <2> QED  BY <2>4, <1>1
<1> QED  BY <1>1, <1>2, <1>3 DEF Apart

\* AttendedIn counts the attended days the windows hold.
LEMMA AttendedIs ==
  ASSUME RowsOK, NEW W, W \subseteq Win
  PROVE  B!AttendedIn(W) = Cardinality(HeldBy(attended, W))
<1>1. \A w \in W : w.start \in Int /\ w.end \in Int
  BY DEF Win
<1>2. \A d \in attended : d \in Int
  BY DEF RowsOK
<1>3. \A w \in W, d \in Int : d \in w.start..w.end <=> InWin(w, d)
  BY <1>1 DEF InWin
<1>4. attended \cap UNION {w.start..w.end : w \in W} = HeldBy(attended, W)
  BY <1>2, <1>3 DEF HeldBy
<1> QED  BY <1>4, CountedAlike DEF B!AttendedIn

\* The covered days are those a window holds.
LEMMA CovIs ==
  ASSUME BillInv
  PROVE  \A d : d \in B!Covered <=> d \in Int /\ \E w \in B!Windows : InWin(w, d)
<1>1. \A w \in B!Windows : w.start \in Int /\ w.end \in Int
  BY WindowsBasic
<1>2. \A w \in B!Windows : \A d : d \in w.start..w.end <=> d \in Int /\ InWin(w, d)
  BY <1>1 DEF InWin
<1> QED  BY <1>2 DEF B!Covered

\* What the context of a stretch of the month holds.
LEMMA ContextIs ==
  ASSUME BillInv, NEW r, NEW w \in Win
  PROVE  LET c == B!Context(r, w)
             W == B!Clipped(B!Windows, w.start, w.end)
         IN  /\ c = [windows |-> W, billableDays |-> B!Divisor(r, B!Windows),
                     attendedDays |-> Cardinality(HeldBy(attended, W)),
                     fixed |-> B!Values("fixed", B!StartOf(W)),
                     percent |-> B!Values("percent", B!StartOf(W)),
                     workingDays |-> Cardinality(HeldBy(WorkDays, W)),
                     forceFullTariff |-> B!ForcesFullTariff(r, B!Windows)]
             /\ c.attendedDays \in Nat /\ c.workingDays \in Nat
             /\ c.fixed \in Seq(Nat) /\ c.percent \in Seq(0..B!FullPercent)
<1> DEFINE c == B!Context(r, w)
           W == B!Clipped(B!Windows, w.start, w.end)
<1>1. RowsOK /\ DiscountsOK
  BY DEF BillInv
<1>2. w.start \in Int /\ w.end \in Int
  BY DEF Win
<1>3. IsFiniteSet(W) /\ W \subseteq Win /\ Apart(W)
  <2>1. IsFiniteSet(B!Windows) /\ B!Windows \subseteq Win /\ Apart(B!Windows)
    BY WindowsBasic
  <2> QED  BY <1>2, <2>1, ClippedDays, ClippedApart
<1>4. c = [windows |-> W, billableDays |-> B!Divisor(r, B!Windows),
           attendedDays |-> B!AttendedIn(W),
           fixed |-> B!Values("fixed", B!StartOf(W)),
           percent |-> B!Values("percent", B!StartOf(W)),
           workingDays |-> B!WorkingDays(W),
           forceFullTariff |-> B!ForcesFullTariff(r, B!Windows)]
  BY Zenon DEF B!Context, B!Windows
<1> HIDE DEF W
<1>5. B!AttendedIn(W) = Cardinality(HeldBy(attended, W))
  BY <1>1, <1>3, AttendedIs
<1>6. B!WorkingDays(W) = Cardinality(HeldBy(WorkDays, W))
  BY <1>1, <1>3, WorkingDaysAre
<1>7. attended \in SUBSET (1..Month)
  BY <1>1 DEF RowsOK
<1>8. Cardinality(HeldBy(attended, W)) \in Nat /\ Cardinality(HeldBy(WorkDays, W)) \in Nat
  BY <1>1, <1>7, WorkDaysInMonth, DaysCounted
<1>9. B!Values("fixed", B!StartOf(W)) \in Seq(Nat) /\ B!Values("percent", B!StartOf(W)) \in Seq(0..B!FullPercent)
  BY <1>1, ValuesAreNumbers
<1>10. /\ c.attendedDays = B!AttendedIn(W) /\ c.workingDays = B!WorkingDays(W)
       /\ c.fixed = B!Values("fixed", B!StartOf(W)) /\ c.percent = B!Values("percent", B!StartOf(W))
  BY <1>4
<1>11. c = [windows |-> W, billableDays |-> B!Divisor(r, B!Windows),
           attendedDays |-> Cardinality(HeldBy(attended, W)),
           fixed |-> B!Values("fixed", B!StartOf(W)),
           percent |-> B!Values("percent", B!StartOf(W)),
           workingDays |-> Cardinality(HeldBy(WorkDays, W)),
           forceFullTariff |-> B!ForcesFullTariff(r, B!Windows)]
  BY <1>4, <1>5, <1>6
<1> HIDE DEF c
<1>12. c.attendedDays \in Nat /\ c.workingDays \in Nat
       /\ c.fixed \in Seq(Nat) /\ c.percent \in Seq(0..B!FullPercent)
  BY <1>5, <1>6, <1>8, <1>9, <1>10
<1> QED  BY <1>11, <1>12 DEF c, W

\* The days a month is divided by.
LEMMA DivisorIs ==
  ASSUME BillInv, NEW r \in Rules
  PROVE  B!Divisor(r, B!Windows) \in Nat
<1>1. B!WorkingDays(B!Windows) \in Nat
  <2>1. RowsOK
    BY DEF BillInv
  <2>2. IsFiniteSet(B!Windows) /\ B!Windows \subseteq Win /\ Apart(B!Windows)
    BY WindowsBasic
  <2> QED  BY <2>1, <2>2, WorkingDaysAre, WorkDaysInMonth, DaysCounted
<1>2. B!Count(B!Window(1, Month)) \in Nat
  <2>1. B!Window(1, Month) \in Win /\ RowsOK
    BY DaysAre DEF B!Window, Win, BillInv
  <2> QED  BY <2>1, CountIs, WorkDaysInMonth, DaysCounted
<1>3. r.fixedDivisor \in Nat /\ Month \in Nat /\ r.divisor \in {"actual_working_days", "fixed", "calendar_days"}
  <2>1. Lawful(r)
    BY RulesAreLawful
  <2> QED  BY <2>1, DaysAre DEF Lawful
<1>4. B!resolveBillableDays(r) \in Nat
  BY <1>2, <1>3 DEF B!resolveBillableDays
<1> QED  BY <1>1, <1>4 DEF B!Divisor

-----------------------------------------------------------------------------
\* Amounts.

\* Rules and an input that a charge can be computed from.
Charging(s) ==
  s.rounding \in Roundings /\ s.minCharge \in Nat /\ s.floor \in Nat
  /\ s.noAttendance \in {"zero", "min_charge", "full_tariff"}

Chargeable(in) ==
  /\ in.base \in Nat /\ in.attendedDays \in Nat /\ in.billableDays \in Nat /\ in.workingDays \in Nat
  /\ in.fixed \in Seq(Nat) /\ in.percent \in Seq(0..B!FullPercent)

\* Rounding to the tiyin changes nothing.
LEMMA RoundOne ==
  ASSUME NEW s, s.rounding \in Roundings, s.unit = "tiyin", NEW x \in Nat
  PROVE  B!Rounded(x, s) = x
<1>1. B!UnitOf(s) = 1
  BY DEF B!UnitOf
<1>2. B!divRound(1 * x, 1, s.rounding) = x
  BY RoundExact
<1>3. B!divRound(x, 1, s.rounding) = x
  <2>1. 1 * x = x
    OBVIOUS
  <2> QED  BY <1>2, <2>1
<1>4. B!Rounded(x, s) = B!divRound(x, 1, s.rounding) * 1
  BY <1>1 DEF B!Rounded
<1> QED  BY <1>3, <1>4

\* The factor of attendance makes a natural number of one.
LEMMA AttendedNumber ==
  ASSUME NEW s, Charging(s), NEW in, Chargeable(in), NEW x \in Nat
  PROVE  B!attendanceFactor(x, in, s) \in Nat
<1>1. B!Counted(in, s) \in Nat
  BY DEF B!Counted, Chargeable, B!Least
<1>2. B!NotAttended(x, s) \in Nat
  BY DEF B!NotAttended, Charging
<1> DEFINE n == x * B!Counted(in, s)
<1>3. n \in Nat
  BY <1>1
<1> HIDE DEF n
<1>4. in.billableDays # 0 => B!divRound(n, in.billableDays, s.rounding) \in Nat
  <2>1. in.billableDays \in Nat /\ s.rounding \in Roundings
    BY DEF Charging, Chargeable
  <2>2. in.billableDays # 0 => in.billableDays > 0
    BY <2>1
  <2> QED  BY <2>1, <2>2, <1>3, RoundNear
<1>5. B!attendanceFactor(x, in, s) \in {x, B!NotAttended(x, s), 0}
      \/ (in.billableDays # 0 /\ B!attendanceFactor(x, in, s) = B!divRound(n, in.billableDays, s.rounding))
  BY Zenon DEF B!attendanceFactor, n
<1> QED  BY <1>2, <1>4, <1>5

\* Discounts make a natural number of one.
LEMMA DiscountedNumber ==
  ASSUME NEW s, Charging(s), NEW in, Chargeable(in), NEW x \in Nat
  PROVE  B!applyDiscounts(x, in, s) \in Nat
<1>1. x <= x
  OBVIOUS
<1>2. Step(x, x, B!applyDiscounts(x, in, s), B!applyDiscounts(x, in, s))
  BY <1>1, DiscountedStep DEF Charging, Chargeable
<1> QED  BY <1>2 DEF Step

\* The amount of a segment, which is not rounded.
Base(in, s) == IF s.applyBeforeAttendance THEN B!applyDiscounts(in.base, in, s) ELSE in.base

\* What calculateCharge computes of a segment, before any rounding to the unit.
LEMMA SegmentIs ==
  ASSUME NEW s, Charging(s), NEW in, Chargeable(in), s.unit = "tiyin", s.floor = 0,
         s.applyBeforeAttendance \/ s.appliesTo = {}
  PROVE  /\ B!calculateCharge(in, s) = B!attendanceFactor(Base(in, s), in, s)
         /\ B!calculateCharge(in, s) \in Nat /\ Base(in, s) \in Nat
<1>1. Base(in, s) \in Nat
  BY DiscountedNumber DEF Base, Chargeable
<1> DEFINE x == B!attendanceFactor(Base(in, s), in, s)
<1>2. x \in Nat
  BY <1>1, AttendedNumber
<1>3. ~s.applyBeforeAttendance => B!applyDiscounts(x, in, s) = x
  <2>1. s.appliesTo = {} => B!applyDiscounts(x, in, s) = x
    BY DEF B!applyDiscounts
  <2> QED  BY <2>1
<1>4. B!calculateCharge(in, s) = B!Rounded(B!Greatest(IF s.applyBeforeAttendance THEN x
                                                ELSE B!applyDiscounts(x, in, s), s.floor), s)
  BY Zenon DEF B!calculateCharge, Base
<1> HIDE DEF x
<1>5. B!calculateCharge(in, s) = B!Rounded(B!Greatest(x, 0), s)
  BY <1>3, <1>4
<1>6. B!Greatest(x, 0) = x
  BY <1>2 DEF B!Greatest
<1>7. B!Rounded(x, s) = x
  BY <1>2, RoundOne DEF Charging
<1> QED  BY <1>1, <1>2, <1>5, <1>6, <1>7 DEF x

\* The amount of a line, of the total of its segments.
LEMMA FinalIs ==
  ASSUME NEW s, NEW in, B!ModeOf(s, in.kind) = "flat_monthly", ~s.applyBeforeAttendance
  PROVE  B!calculateCharge(in, s) = B!Rounded(B!Greatest(B!applyDiscounts(in.base, in, s), s.floor), s)
<1>1. B!attendanceFactor(in.base, in, s) = in.base
  BY Zenon DEF B!attendanceFactor
<1> QED  BY <1>1, Zenon DEF B!calculateCharge

\* What a segment's rules and the line's rules are.
LEMMA SegmentRulesAre ==
  ASSUME NEW r \in Rules, NEW k \in Kinds, NEW many \in BOOLEAN, NEW c,
         NEW s, s = B!SegmentRules(r, k, many, c)
  PROVE  /\ s.unit = "tiyin" /\ s.floor = 0 /\ s.rounding = r.rounding /\ s.minCharge = r.minCharge
         /\ s.applyBeforeAttendance = r.applyBeforeAttendance
         /\ s.appliesTo = (IF r.applyBeforeAttendance THEN r.appliesTo ELSE {})
         /\ s.noAttendance = (IF many THEN "zero" ELSE r.noAttendance)
         /\ s.capAtFullTariff = r.capAtFullTariff /\ s.mode = r.mode
         /\ s.multipleFixed = r.multipleFixed /\ s.multiplePercent = r.multiplePercent
         /\ s.order = r.order
         /\ B!ModeOf(s, k) = IF many /\ (B!ModeOf(r, k) = "flat_monthly" \/ B!FullTariffAnyway(r, c))
                             THEN "per_working_day" ELSE B!ModeOf(r, k)
         /\ Charging(s)
<1> DEFINE D == DOMAIN r.byKind
           byDays == many /\ (B!ModeOf(r, k) = "flat_monthly" \/ B!FullTariffAnyway(r, c))
           at == IF r.applyBeforeAttendance THEN r.appliesTo ELSE {}
           kinds == [r.byKind EXCEPT ![k] = IF byDays THEN "per_working_day" ELSE @]
           none == IF many THEN "zero" ELSE r.noAttendance
<1>1. Lawful(r) /\ r \in B!BillingRules(D)
  BY RulesAreLawful
<1>2. s = [r EXCEPT !.appliesTo = at, !.byKind = kinds, !.noAttendance = none, !.unit = "tiyin", !.floor = 0]
  BY DEF B!SegmentRules
<1>3. r = [mode |-> r.mode, byKind |-> r.byKind, divisor |-> r.divisor, fixedDivisor |-> r.fixedDivisor,
           capAtFullTariff |-> r.capAtFullTariff, minCharge |-> r.minCharge,
           noAttendance |-> r.noAttendance, order |-> r.order, multipleFixed |-> r.multipleFixed,
           multiplePercent |-> r.multiplePercent, appliesTo |-> r.appliesTo, floor |-> r.floor,
           applyBeforeAttendance |-> r.applyBeforeAttendance, unit |-> r.unit, rounding |-> r.rounding,
           enrollmentMidMonth |-> r.enrollmentMidMonth, withdrawalMidMonth |-> r.withdrawalMidMonth,
           respectsWindow |-> r.respectsWindow]
  <2> HIDE DEF D
  <2> QED  BY <1>1 DEF B!BillingRules
<1>4. s = [mode |-> r.mode, byKind |-> kinds, divisor |-> r.divisor, fixedDivisor |-> r.fixedDivisor,
           capAtFullTariff |-> r.capAtFullTariff, minCharge |-> r.minCharge,
           noAttendance |-> none, order |-> r.order, multipleFixed |-> r.multipleFixed,
           multiplePercent |-> r.multiplePercent, appliesTo |-> at, floor |-> 0,
           applyBeforeAttendance |-> r.applyBeforeAttendance, unit |-> "tiyin", rounding |-> r.rounding,
           enrollmentMidMonth |-> r.enrollmentMidMonth, withdrawalMidMonth |-> r.withdrawalMidMonth,
           respectsWindow |-> r.respectsWindow]
  <2> DEFINE p == [mode |-> r.mode, byKind |-> kinds, divisor |-> r.divisor, fixedDivisor |-> r.fixedDivisor,
                   capAtFullTariff |-> r.capAtFullTariff, minCharge |-> r.minCharge,
                   noAttendance |-> none, order |-> r.order, multipleFixed |-> r.multipleFixed,
                   multiplePercent |-> r.multiplePercent, appliesTo |-> at, floor |-> r.floor,
                   applyBeforeAttendance |-> r.applyBeforeAttendance, unit |-> r.unit, rounding |-> r.rounding,
                   enrollmentMidMonth |-> r.enrollmentMidMonth, withdrawalMidMonth |-> r.withdrawalMidMonth,
                   respectsWindow |-> r.respectsWindow]
  <2> HIDE DEF at, kinds, none
  <2> DEFINE q == [r EXCEPT !.appliesTo = at, !.byKind = kinds, !.noAttendance = none]
  <2>1. q = [r EXCEPT !.appliesTo = at, !.byKind = kinds, !.noAttendance = none]
    OBVIOUS
  <2>2. s = [q EXCEPT !.unit = "tiyin", !.floor = 0]
    BY <1>2
  <2> HIDE DEF q
  <2>3. q = p
    BY <1>3, <2>1
  <2> QED  BY <2>2, <2>3, ZenonT(60)
<1>5. kinds[k] = IF byDays THEN "per_working_day" ELSE r.byKind[k]
  <2> HIDE DEF byDays
  <2> QED  BY <1>1 DEF Lawful
<1>6. B!ModeOf(s, k) = IF byDays THEN "per_working_day" ELSE B!ModeOf(r, k)
  <2>1. s.byKind[k] = (IF byDays THEN "per_working_day" ELSE r.byKind[k]) /\ s.mode = r.mode
    <3> HIDE DEF byDays, kinds
    <3> QED  BY <1>4, <1>5
  <2> HIDE DEF byDays
  <2> QED  BY <2>1 DEF B!ModeOf
<1> HIDE DEF kinds, at, none, byDays
<1>7. /\ s.unit = "tiyin" /\ s.floor = 0 /\ s.rounding = r.rounding /\ s.minCharge = r.minCharge
      /\ s.applyBeforeAttendance = r.applyBeforeAttendance
      /\ s.appliesTo = at /\ s.noAttendance = none
      /\ s.capAtFullTariff = r.capAtFullTariff /\ s.mode = r.mode
      /\ s.multipleFixed = r.multipleFixed /\ s.multiplePercent = r.multiplePercent
      /\ s.order = r.order
  BY <1>4
<1>8. Charging(s)
  BY <1>1, <1>7 DEF Charging, Lawful, none
<1>9. s.appliesTo = (IF r.applyBeforeAttendance THEN r.appliesTo ELSE {})
      /\ s.noAttendance = (IF many THEN "zero" ELSE r.noAttendance)
  BY <1>7 DEF at, none
<1>10. B!ModeOf(s, k) = IF many /\ (B!ModeOf(r, k) = "flat_monthly" \/ B!FullTariffAnyway(r, c))
                        THEN "per_working_day" ELSE B!ModeOf(r, k)
  BY <1>6, Zenon DEF byDays
<1> QED  BY <1>7, <1>8, <1>9, <1>10

\* The rules that the total of the segments is charged with.
LEMMA FinalRulesAre ==
  ASSUME NEW r \in Rules, NEW k \in Kinds, NEW s, s = B!FinalRules(r, k)
  PROVE  /\ s.unit = r.unit /\ s.floor = r.floor /\ s.rounding = r.rounding
         /\ ~s.applyBeforeAttendance
         /\ s.appliesTo = (IF r.applyBeforeAttendance THEN {} ELSE r.appliesTo)
         /\ s.multipleFixed = r.multipleFixed /\ s.multiplePercent = r.multiplePercent
         /\ s.order = r.order
         /\ B!ModeOf(s, k) = "flat_monthly"
         /\ Charging(s)
<1> DEFINE D == DOMAIN r.byKind
           at == IF r.applyBeforeAttendance THEN {} ELSE r.appliesTo
           kinds == [r.byKind EXCEPT ![k] = "flat_monthly"]
<1>1. Lawful(r) /\ r \in B!BillingRules(D)
  BY RulesAreLawful
<1>2. s = [r EXCEPT !.byKind = kinds, !.applyBeforeAttendance = FALSE, !.appliesTo = at]
  BY DEF B!FinalRules
<1>3. r = [mode |-> r.mode, byKind |-> r.byKind, divisor |-> r.divisor, fixedDivisor |-> r.fixedDivisor,
           capAtFullTariff |-> r.capAtFullTariff, minCharge |-> r.minCharge,
           noAttendance |-> r.noAttendance, order |-> r.order, multipleFixed |-> r.multipleFixed,
           multiplePercent |-> r.multiplePercent, appliesTo |-> r.appliesTo, floor |-> r.floor,
           applyBeforeAttendance |-> r.applyBeforeAttendance, unit |-> r.unit, rounding |-> r.rounding,
           enrollmentMidMonth |-> r.enrollmentMidMonth, withdrawalMidMonth |-> r.withdrawalMidMonth,
           respectsWindow |-> r.respectsWindow]
  <2> HIDE DEF D
  <2> QED  BY <1>1 DEF B!BillingRules
<1>4. s = [mode |-> r.mode, byKind |-> kinds, divisor |-> r.divisor, fixedDivisor |-> r.fixedDivisor,
           capAtFullTariff |-> r.capAtFullTariff, minCharge |-> r.minCharge,
           noAttendance |-> r.noAttendance, order |-> r.order, multipleFixed |-> r.multipleFixed,
           multiplePercent |-> r.multiplePercent, appliesTo |-> at, floor |-> r.floor,
           applyBeforeAttendance |-> FALSE, unit |-> r.unit, rounding |-> r.rounding,
           enrollmentMidMonth |-> r.enrollmentMidMonth, withdrawalMidMonth |-> r.withdrawalMidMonth,
           respectsWindow |-> r.respectsWindow]
  <2> HIDE DEF at, kinds
  <2> QED  BY <1>2, <1>3, ZenonT(60)
<1>5. kinds[k] = "flat_monthly"
  BY <1>1 DEF Lawful
<1>6. B!ModeOf(s, k) = "flat_monthly"
  <2>1. s.byKind[k] = "flat_monthly"
    <3> HIDE DEF kinds
    <3> QED  BY <1>4, <1>5
  <2> QED  BY <2>1 DEF B!ModeOf
<1> HIDE DEF kinds, at
<1>7. /\ s.unit = r.unit /\ s.floor = r.floor /\ s.rounding = r.rounding /\ s.minCharge = r.minCharge
      /\ ~s.applyBeforeAttendance /\ s.noAttendance = r.noAttendance
      /\ s.appliesTo = at
      /\ s.multipleFixed = r.multipleFixed /\ s.multiplePercent = r.multiplePercent
      /\ s.order = r.order
  BY <1>4
<1>8. Charging(s)
  BY <1>1, <1>7 DEF Charging, Lawful
<1>9. s.appliesTo = (IF r.applyBeforeAttendance THEN {} ELSE r.appliesTo)
  BY <1>7 DEF at
<1> QED  BY <1>6, <1>7, <1>8, <1>9

-----------------------------------------------------------------------------
\* The dry run and the billing run.

\* Cutting windows at a stretch that holds the first day keeps the first day.
LEMMA SameStart ==
  ASSUME NEW W, IsFiniteSet(W), W \subseteq Win, \A w \in W : w.start <= w.end,
         NEW from \in Int, NEW to \in Int, from <= B!StartOf(W), B!StartOf(W) <= to
  PROVE  B!StartOf(B!Clipped(W, from, to)) = B!StartOf(W)
<1> DEFINE Cut == B!Clipped(W, from, to)
           S == {w.start : w \in W}
           T == {w.start : w \in Cut}
<1>1. \A w \in W : w.start \in Int /\ w.end \in Int
  BY DEF Win
<1>2. ASSUME NEW c \in Cut PROVE c.start \in Int /\ \E w \in W : w.start <= c.start
  <2>1. PICK w \in W : c = B!Clip(w, from, to)
    BY DEF B!Clipped
  <2>2. c.start = B!Greatest(w.start, from)
    BY <2>1 DEF B!Clip, B!Window
  <2> QED  BY <2>2, <1>1 DEF B!Greatest
<1>3. CASE W = {}
  <2>1. Cut = {}
    BY <1>3 DEF B!Clipped
  <2> QED  BY <1>3, <2>1
<1>4. CASE W # {}
  <2>1. B!StartOf(W) = B!Min(S)
    BY <1>4 DEF B!StartOf
  <2>2. IsFiniteSet(S) /\ S # {} /\ S \subseteq Int
    <3> DEFINE f == [w \in W |-> w.start]
    <3>1. f \in Surjection(W, S)
      BY DEF Surjection
    <3>2. IsFiniteSet(S)
      <4> HIDE DEF f, S
      <4> QED  BY <3>1, FS_Surjection
    <3> QED  BY <3>2, <1>1, <1>4
  <2>3. B!Min(S) \in S /\ \A x \in S : B!Min(S) <= x
    <3> HIDE DEF S
    <3> QED  BY <2>2, SmallestOf
  <2> DEFINE m == B!Min(S)
  <2>4. PICK w \in W : w.start = m
    BY <2>3
  <2>5. m \in Int /\ from <= m /\ m <= to /\ \A v \in W : m <= v.start
    BY <2>1, <2>3, <2>4, <1>1
  <2> HIDE DEF m
  <2> DEFINE c == B!Clip(w, from, to)
  <2>6. c.start = m /\ c.start <= c.end
    BY <2>4, <2>5, <1>1 DEF B!Clip, B!Window, B!Greatest, B!Least
  <2>7. c \in Cut
    BY <2>6 DEF B!Clipped
  <2>8. m \in T /\ Cut # {}
    BY <2>6, <2>7
  <2>9. \A x \in T : x \in Int /\ m <= x
    <3>1. ASSUME NEW d \in Cut PROVE d.start \in Int /\ m <= d.start
      <4>1. PICK v \in W : v.start <= d.start
        BY <1>2
      <4> QED  BY <4>1, <1>1, <1>2, <2>5
    <3> QED  BY <3>1
  <2>10. B!Min(T) = m
    <3> HIDE DEF T
    <3>1. \A x \in T : (\A y \in T : x =< y) => x = m
      BY <2>5, <2>8, <2>9
    <3>2. \A y \in T : m =< y
      BY <2>9
    <3> QED  BY <2>8, <3>1, <3>2 DEF B!Min
  <2> QED  BY <2>1, <2>8, <2>10 DEF B!StartOf, m
<1> QED  BY <1>3, <1>4

\* The windows of the whole month are cut nowhere.
LEMMA WholeMonthIs ==
  ASSUME BillInv
  PROVE  /\ B!WholeMonth \in Win
         /\ B!Clipped(B!Windows, B!WholeMonth.start, B!WholeMonth.end) = B!Windows
<1>1. B!WholeMonth.start = 0 /\ B!WholeMonth.end = B!Forever /\ B!WholeMonth \in Win
  BY DaysAre DEF B!WholeMonth, B!Window, Win
<1>2. B!Windows \subseteq Win /\ \A w \in B!Windows : 0 <= w.start /\ w.start <= w.end /\ w.end <= B!Forever
  BY WindowsBasic, DaysAre
<1>3. B!Clipped(B!Windows, 0, B!Forever) = B!Windows
  BY <1>2, DaysAre, ClippedSame
<1> QED  BY <1>1, <1>3

\* A price and a context make an input that can be charged.
LEMMA InputIs ==
  ASSUME BillInv, NEW r \in Rules, NEW w \in Win, NEW k, NEW p \in Nat
  PROVE  Chargeable(B!Input(k, p, B!Context(r, w)))
<1> DEFINE c == B!Context(r, w)
<1>1. c.attendedDays \in Nat /\ c.workingDays \in Nat
      /\ c.fixed \in Seq(Nat) /\ c.percent \in Seq(0..B!FullPercent)
  BY ContextIs
<1>2. c.billableDays = B!Divisor(r, B!Windows)
  <2>1. c = [windows |-> c.windows, billableDays |-> B!Divisor(r, B!Windows),
             attendedDays |-> c.attendedDays, fixed |-> c.fixed, percent |-> c.percent,
             workingDays |-> c.workingDays, forceFullTariff |-> c.forceFullTariff]
    BY Zenon DEF B!Context, B!Windows
  <2> HIDE DEF c
  <2> QED  BY <2>1
<1>3. c.billableDays \in Nat
  BY <1>2, DivisorIs
<1> HIDE DEF c
<1>4. Chargeable(B!Input(k, p, c))
  BY <1>1, <1>3 DEF B!Input, Chargeable
<1> QED  BY <1>4 DEF c

\* One segment is the total.
LEMMA OneSegment ==
  ASSUME NEW s, DOMAIN s = 1..1, s[1] \in Nat
  PROVE  B!Sum(s) = s[1]
<1>1. \A i \in 1..1 : s[i] \in Nat
  OBVIOUS
<1>2. PICK c \in [0..1 -> Nat] : c[0] = 0 /\ (\A i \in 1..1 : c[i] = c[i - 1] + s[i]) /\ B!Sum(s) = c[1]
  BY <1>1, SumFold
<1>3. c[1] = c[0] + s[1]
  <2>1. 1 \in 1..1 /\ 1 - 1 = 0
    OBVIOUS
  <2>2. c[1] = c[1 - 1] + s[1]
    BY <2>1, <1>2
  <2> QED  BY <2>1, <2>2
<1> QED  BY <1>2, <1>3

\* A list of percentages off, as one rounding mode has it.
CompoundedBy(x, v, mode) ==
  B!FoldLeft(LAMBDA a, bp : a - B!divRound(a * bp, B!FullPercent, mode), x, v)

PercentBy(x, bp, mode) == x - B!divRound(x * bp, B!FullPercent, mode)

\* LessPercent in terms of the rounding mode alone.
LEMMA LessPercentIs ==
  ASSUME NEW x, NEW v, NEW s
  PROVE  B!LessPercent(x, v, s) =
           IF s.multiplePercent = "compound" THEN CompoundedBy(x, v, s.rounding)
           ELSE PercentBy(x, B!Least(B!Sum(v), B!FullPercent), s.rounding)
BY Zenon DEF B!LessPercent, B!Percent, CompoundedBy, PercentBy

\* Rules that differ in no term of the discounts, and inputs of the same discounts.
LEMMA DiscountsAlike ==
  ASSUME NEW s, NEW r, NEW i, NEW j, NEW x,
         s.appliesTo = r.appliesTo, s.order = r.order, s.multipleFixed = r.multipleFixed,
         s.multiplePercent = r.multiplePercent, s.rounding = r.rounding,
         i.kind = j.kind, i.fixed = j.fixed, i.percent = j.percent
  PROVE  B!applyDiscounts(x, i, s) = B!applyDiscounts(x, j, r)
<1>1. \A y : B!LessPercent(y, i.percent, s) = B!LessPercent(y, j.percent, r)
  <2>1. ASSUME NEW y PROVE B!LessPercent(y, i.percent, s) = B!LessPercent(y, j.percent, r)
    BY LessPercentIs
  <2> QED  BY <2>1
<1>2. \A y : B!LessFixed(y, i.fixed, s) = B!LessFixed(y, j.fixed, r)
  BY DEF B!LessFixed
<1> QED  BY <1>1, <1>2 DEF B!applyDiscounts

\* Rules and inputs that differ in nothing attendance counts for.
LEMMA AttendanceAlike ==
  ASSUME NEW s, NEW r, NEW i, NEW j, NEW x,
         B!ModeOf(s, i.kind) = B!ModeOf(r, j.kind), s.capAtFullTariff = r.capAtFullTariff,
         s.noAttendance = r.noAttendance, s.minCharge = r.minCharge, s.rounding = r.rounding,
         i.attendedDays = j.attendedDays, i.billableDays = j.billableDays,
         i.workingDays = j.workingDays, i.forceFullTariff = j.forceFullTariff
  PROVE  B!attendanceFactor(x, i, s) = B!attendanceFactor(x, j, r)
<1>1. B!Counted(i, s) = B!Counted(j, r)
  BY DEF B!Counted
<1>2. B!NotAttended(x, s) = B!NotAttended(x, r)
  BY DEF B!NotAttended
<1> QED  BY <1>1, <1>2 DEF B!attendanceFactor

\* What the total of a line becomes.
Finally(T, in, r) ==
  B!Rounded(B!Greatest(IF r.applyBeforeAttendance THEN T ELSE B!applyDiscounts(T, in, r), r.floor), r)

\* What calculateCharge computes of a total.
LEMMA FinallyIs ==
  ASSUME NEW r \in Rules, NEW k \in Kinds, NEW T, NEW c
  PROVE  B!calculateCharge(B!Input(k, T, c), B!FinalRules(r, k)) = Finally(T, B!Input(k, 0, c), r)
<1> DEFINE s == B!FinalRules(r, k)
           in == B!Input(k, T, c)
           out == B!Input(k, 0, c)
<1>1. /\ s.unit = r.unit /\ s.floor = r.floor /\ s.rounding = r.rounding
      /\ ~s.applyBeforeAttendance
      /\ s.appliesTo = (IF r.applyBeforeAttendance THEN {} ELSE r.appliesTo)
      /\ s.multipleFixed = r.multipleFixed /\ s.multiplePercent = r.multiplePercent
      /\ s.order = r.order /\ B!ModeOf(s, k) = "flat_monthly"
  BY FinalRulesAre
<1>2. in.kind = k /\ in.base = T /\ out.kind = k /\ in.fixed = out.fixed /\ in.percent = out.percent
  BY DEF B!Input
<1> HIDE DEF s, in, out
<1>3. B!calculateCharge(in, s) = B!Rounded(B!Greatest(B!applyDiscounts(T, in, s), s.floor), s)
  BY <1>1, <1>2, FinalIs
<1>4. B!applyDiscounts(T, in, s) = IF r.applyBeforeAttendance THEN T ELSE B!applyDiscounts(T, out, r)
  <2>1. CASE r.applyBeforeAttendance
    <3>1. s.appliesTo = {}
      BY <1>1, <2>1
    <3>2. B!applyDiscounts(T, in, s) = T
      BY <3>1 DEF B!applyDiscounts
    <3> QED  BY <2>1, <3>2
  <2>2. CASE ~r.applyBeforeAttendance
    <3>1. s.appliesTo = r.appliesTo
      BY <1>1, <2>2
    <3>2. B!applyDiscounts(T, in, s) = B!applyDiscounts(T, out, r)
      BY <1>1, <1>2, <3>1, DiscountsAlike
    <3> QED  BY <2>2, <3>2
  <2> QED  BY <2>1, <2>2
<1>5. \A x : B!Rounded(x, s) = B!Rounded(x, r)
  BY <1>1 DEF B!Rounded, B!UnitOf
<1>6. B!calculateCharge(in, s) = Finally(T, out, r)
  BY <1>1, <1>3, <1>4, <1>5 DEF Finally
<1> QED  BY <1>6 DEF s, in, out

\* What one assignment costs before the rounding of the line.
Whole(r, k, a, c) ==
  B!calculateCharge(B!Input(k, a.price, B!Context(r, B!Window(a.from, a.to))), B!SegmentRules(r, k, FALSE, c))

\* A segment on its own costs a natural number.
LEMMA WholeNumber ==
  ASSUME BillInv, NEW r \in Rules, NEW k \in Kinds, NEW a \in Assigned, NEW c
  PROVE  /\ Whole(r, k, a, c) \in Nat
         /\ LET in == B!Input(k, a.price, B!Context(r, B!Window(a.from, a.to)))
                s == B!SegmentRules(r, k, FALSE, c)
            IN  Whole(r, k, a, c) = B!attendanceFactor(Base(in, s), in, s) /\ Base(in, s) \in Nat
<1> DEFINE w == B!Window(a.from, a.to)
           in == B!Input(k, a.price, B!Context(r, w))
           s == B!SegmentRules(r, k, FALSE, c)
<1>1. w \in Win /\ a.price \in Nat
  BY DaysAre DEF Assigned, Win, B!Window
<1> HIDE DEF w
<1>2. Chargeable(in)
  BY <1>1, InputIs
<1>3. /\ s.unit = "tiyin" /\ s.floor = 0 /\ Charging(s)
      /\ s.applyBeforeAttendance = r.applyBeforeAttendance
      /\ s.appliesTo = (IF r.applyBeforeAttendance THEN r.appliesTo ELSE {})
  <2>1. FALSE \in BOOLEAN /\ s = B!SegmentRules(r, k, FALSE, c)
    OBVIOUS
  <2> HIDE DEF s, in
  <2>2. ASSUME NEW many \in BOOLEAN, NEW t, t = B!SegmentRules(r, k, many, c)
        PROVE  /\ t.unit = "tiyin" /\ t.floor = 0 /\ Charging(t)
               /\ t.applyBeforeAttendance = r.applyBeforeAttendance
               /\ t.appliesTo = (IF r.applyBeforeAttendance THEN r.appliesTo ELSE {})
    BY <2>2, SegmentRulesAre
  <2> QED  BY <2>1, <2>2
<1>4. Whole(r, k, a, c) = B!calculateCharge(in, s)
  BY Zenon DEF Whole, w
<1> HIDE DEF in, s
<1>5. s.applyBeforeAttendance \/ s.appliesTo = {}
  BY <1>3
<1>6. /\ B!calculateCharge(in, s) = B!attendanceFactor(Base(in, s), in, s)
      /\ B!calculateCharge(in, s) \in Nat /\ Base(in, s) \in Nat
  BY <1>2, <1>3, <1>5, SegmentIs
<1> QED  BY <1>4, <1>6 DEF in, s, w

\* The line of one assignment.
LEMMA OneLine ==
  ASSUME BillInv, NEW r \in Rules, NEW k \in Kinds, NEW list \in Seq(Assigned), Len(list) = 1
  PROVE  LET c == B!Context(r, B!WholeMonth) IN
         B!computeLine(r, k, list).amount = Finally(Whole(r, k, list[1], c), B!Input(k, 0, c), r)
<1> DEFINE c == B!Context(r, B!WholeMonth)
           a == list[1]
           d == B!Context(r, B!Window(a.from, a.to))
           segs == B!Segments(r, list)
           part == [d EXCEPT !.billableDays = IF FALSE /\ c.forceFullTariff THEN c.workingDays ELSE @,
                             !.forceFullTariff = ~FALSE /\ @]
           amounts == [i \in DOMAIN segs |-> B!SegmentAmount(r, k, segs[i], FALSE, c)]
<1>1. DOMAIN list = 1..1 /\ a \in Assigned
  <2> DEFINE V == Assigned
  <2>1. list \in Seq(V)
    OBVIOUS
  <2> HIDE DEF V
  <2>2. DOMAIN list = 1..1 /\ list[1] \in V
    BY <2>1, SeqIs
  <2> QED  BY <2>2
<1>2. segs = [i \in 1..1 |-> [from |-> list[i].from, to |-> list[i].to, price |-> list[i].price,
                              context |-> B!Context(r, B!Window(list[i].from, list[i].to))]]
  BY <1>1, Zenon DEF B!Segments
<1>3. segs[1].price = a.price /\ segs[1].context = d /\ DOMAIN segs = 1..1
  <2> HIDE DEF segs
  <2> QED  BY <1>2
<1>4. Len(segs) = 1
  <2> HIDE DEF segs
  <2> QED  BY <1>2
<1>5. part = d
  <2>1. d = [windows |-> d.windows, billableDays |-> d.billableDays,
             attendedDays |-> d.attendedDays, fixed |-> d.fixed, percent |-> d.percent,
             workingDays |-> d.workingDays, forceFullTariff |-> d.forceFullTariff]
    BY Zenon DEF B!Context
  <2>2. d.forceFullTariff \in BOOLEAN
    <3>1. d.forceFullTariff = B!ForcesFullTariff(r, B!Windows)
      BY DEF B!Context, B!Windows
    <3>2. B!ForcesFullTariff(r, B!Windows) \in BOOLEAN
      BY Zenon DEF B!ForcesFullTariff
    <3> QED  BY <3>1, <3>2
  <2> HIDE DEF d, c
  <2>3. (~FALSE /\ d.forceFullTariff) = d.forceFullTariff
    BY <2>2
  <2>4. part = [d EXCEPT !.billableDays = d.billableDays, !.forceFullTariff = d.forceFullTariff]
    BY <2>3
  <2> HIDE DEF part
  <2> QED  BY <2>1, <2>4
<1>6. B!SegmentAmount(r, k, segs[1], FALSE, c) = Whole(r, k, a, c)
  <2>1. B!SegmentAmount(r, k, segs[1], FALSE, c)
          = B!calculateCharge(B!Input(k, segs[1].price,
              [segs[1].context EXCEPT !.billableDays = IF FALSE /\ c.forceFullTariff THEN c.workingDays ELSE @,
                             !.forceFullTariff = ~FALSE /\ @]), B!SegmentRules(r, k, FALSE, c))
    BY Zenon DEF B!SegmentAmount
  <2> HIDE DEF segs, c
  <2>2. B!SegmentAmount(r, k, segs[1], FALSE, c)
          = B!calculateCharge(B!Input(k, a.price, part), B!SegmentRules(r, k, FALSE, c))
    BY <2>1, <1>3
  <2> HIDE DEF part
  <2> QED  BY <2>2, <1>5 DEF Whole
<1>7. Whole(r, k, a, c) \in Nat
  BY <1>1, WholeNumber
<1>8. B!Sum(amounts) = Whole(r, k, a, c)
  <2> HIDE DEF segs, c, a
  <2>1. 1 \in DOMAIN segs /\ DOMAIN amounts = 1..1
    BY <1>3
  <2>2. amounts[1] = B!SegmentAmount(r, k, segs[1], FALSE, c)
    BY <2>1, Zenon
  <2>3. DOMAIN amounts = 1..1 /\ amounts[1] = Whole(r, k, a, c)
    BY <2>1, <2>2, <1>6
  <2> HIDE DEF amounts
  <2> QED  BY <2>3, <1>7, OneSegment
<1>9. B!Amount(r, k, segs, c) = B!calculateCharge(B!Input(k, B!Sum(amounts), c), B!FinalRules(r, k))
  <2> HIDE DEF segs, c
  <2>1. ~(Len(segs) > 1) /\ (Len(segs) > 1) = FALSE
    BY <1>4
  <2> DEFINE many == Len(segs) > 1
             total == B!Sum([i \in DOMAIN segs |-> B!SegmentAmount(r, k, segs[i], many, c)])
             minimum == /\ many /\ c.attendedDays = 0
                        /\ r.noAttendance = "min_charge"
                        /\ B!ModeOf(r, k) = "per_attended_day"
                        /\ ~c.forceFullTariff
  <2>2. B!Amount(r, k, segs, c) = B!calculateCharge(B!Input(k, IF minimum THEN r.minCharge ELSE total, c), B!FinalRules(r, k))
    BY Zenon DEF B!Amount
  <2>3. ~minimum
    BY <2>1
  <2>4. many = FALSE
    BY <2>1
  <2> HIDE DEF many
  <2>5. total = B!Sum(amounts)
    BY <2>4
  <2> HIDE DEF minimum, total, amounts
  <2> QED  BY <2>2, <2>3, <2>5
<1>10. B!computeLine(r, k, list).amount = B!Amount(r, k, segs, c)
  BY DEF B!computeLine, B!Line
<1> HIDE DEF segs, c, a, amounts
<1>11. B!computeLine(r, k, list).amount = Finally(Whole(r, k, a, c), B!Input(k, 0, c), r)
  BY <1>8, <1>9, <1>10, FinallyIs
<1> QED  BY <1>11 DEF c, a

\* What the dry run computes of an assignment: as the line of it does, but at once.
LEMMA DryRun ==
  ASSUME BillInv, NEW r \in Rules, NEW k \in Kinds, NEW a \in Assigned,
         NEW c, NEW in, in = B!Input(k, a.price, B!Context(r, B!Window(a.from, a.to))),
         c.fixed = in.fixed, c.percent = in.percent
  PROVE  B!calculateCharge(in, r) = Finally(Whole(r, k, a, c), B!Input(k, 0, c), r)
<1> DEFINE s == B!SegmentRules(r, k, FALSE, c)
           out == B!Input(k, 0, c)
           X == Whole(r, k, a, c)
<1>1. /\ s.rounding = r.rounding /\ s.minCharge = r.minCharge
      /\ s.applyBeforeAttendance = r.applyBeforeAttendance
      /\ s.appliesTo = (IF r.applyBeforeAttendance THEN r.appliesTo ELSE {})
      /\ s.noAttendance = r.noAttendance /\ s.capAtFullTariff = r.capAtFullTariff
      /\ s.multipleFixed = r.multipleFixed /\ s.multiplePercent = r.multiplePercent
      /\ s.order = r.order /\ B!ModeOf(s, k) = B!ModeOf(r, k)
  <2>1. FALSE \in BOOLEAN /\ s = B!SegmentRules(r, k, FALSE, c)
    OBVIOUS
  <2>2. ASSUME NEW many \in BOOLEAN, NEW t, t = B!SegmentRules(r, k, many, c)
        PROVE  /\ t.rounding = r.rounding /\ t.minCharge = r.minCharge
               /\ t.applyBeforeAttendance = r.applyBeforeAttendance
               /\ t.appliesTo = (IF r.applyBeforeAttendance THEN r.appliesTo ELSE {})
               /\ t.capAtFullTariff = r.capAtFullTariff
               /\ t.multipleFixed = r.multipleFixed /\ t.multiplePercent = r.multiplePercent
               /\ t.order = r.order
               /\ ~many => t.noAttendance = r.noAttendance
               /\ ~many => B!ModeOf(t, k) = B!ModeOf(r, k)
    BY <2>2, SegmentRulesAre
  <2> HIDE DEF s
  <2> QED  BY <2>1, <2>2
<1>2. in.kind = k /\ out.kind = k /\ in.fixed = out.fixed /\ in.percent = out.percent
  BY DEF B!Input
<1>3. X = B!attendanceFactor(Base(in, s), in, s) /\ Base(in, s) \in Nat
  BY WholeNumber
<1> HIDE DEF s, out, X
<1>4. \A x : B!attendanceFactor(x, in, s) = B!attendanceFactor(x, in, r)
  BY <1>1, <1>2, AttendanceAlike
<1>5. CASE r.applyBeforeAttendance
  <2>1. \A x : B!applyDiscounts(x, in, s) = B!applyDiscounts(x, in, r)
    <3>1. s.appliesTo = r.appliesTo
      BY <1>1, <1>5
    <3> QED  BY <1>1, <3>1, DiscountsAlike
  <2>2. X = B!attendanceFactor(B!applyDiscounts(in.base, in, r), in, r)
    BY <1>1, <1>3, <1>4, <1>5, <2>1 DEF Base
  <2>3. B!calculateCharge(in, r) = B!Rounded(B!Greatest(
           B!attendanceFactor(B!applyDiscounts(in.base, in, r), in, r), r.floor), r)
    BY <1>5, Zenon DEF B!calculateCharge
  <2>4. Finally(X, out, r) = B!Rounded(B!Greatest(X, r.floor), r)
    BY <1>5, Zenon DEF Finally
  <2>5. B!calculateCharge(in, r) = Finally(X, out, r)
    BY <2>2, <2>3, <2>4
  <2> QED  BY <2>5 DEF X, out
<1>6. CASE ~r.applyBeforeAttendance
  <2>1. X = B!attendanceFactor(in.base, in, r)
    BY <1>1, <1>3, <1>4, <1>6 DEF Base
  <2>2. B!calculateCharge(in, r) = B!Rounded(B!Greatest(
           B!applyDiscounts(B!attendanceFactor(in.base, in, r), in, r), r.floor), r)
    BY <1>6, Zenon DEF B!calculateCharge
  <2>3. Finally(X, out, r) = B!Rounded(B!Greatest(B!applyDiscounts(X, out, r), r.floor), r)
    BY <1>6, Zenon DEF Finally
  <2>4. B!applyDiscounts(X, in, r) = B!applyDiscounts(X, out, r)
    BY <1>2, DiscountsAlike
  <2>5. B!calculateCharge(in, r) = Finally(X, out, r)
    BY <2>1, <2>2, <2>3, <2>4
  <2> QED  BY <2>5 DEF X, out
<1> QED  BY <1>5, <1>6

\* The lines of a run hold the amount of the dry run, or no line for a fee that
\* stands charged.
LEMMA SimulatedRight ==
  ASSUME BillInv
  PROVE  B!SimulatedAsBilled /\ SimulatedAsBilled
<1> DEFINE r == B!activeOn(1)
<1>1. r \in Rules
  BY RulesInForce DEF BillInv
<1> HIDE DEF r
<1>2. ASSUME NEW k \in Kinds, NEW list, list = B!activeTariffsFor(k),
             Len(list) = 1, B!StartOf(B!Windows) \in list[1].from..list[1].to
      PROVE  B!simulateForChild(r, k) = B!computeLine(r, k, list).amount
  <2> DEFINE a == list[1]
             w == B!Window(a.from, a.to)
             c == B!Context(r, B!WholeMonth)
             d == B!Context(r, w)
             in == B!Input(k, a.price, d)
  <2>1. list \in Seq(Assigned)
    BY <1>2, TariffsOfMonth DEF BillInv
  <2>2. a \in Assigned
    <3> DEFINE V == Assigned
    <3>1. list \in Seq(V)
      BY <2>1
    <3> HIDE DEF V
    <3>2. \A i \in 1..Len(list) : list[i] \in V
      BY <3>1, SeqIs
    <3>3. 1 \in 1..Len(list)
      BY <1>2
    <3>4. list[1] \in V
      BY <3>2, <3>3
    <3> QED  BY <3>4 DEF V
  <2>3. B!computeLine(r, k, list).amount = Finally(Whole(r, k, a, c), B!Input(k, 0, c), r)
    BY <1>1, <1>2, <2>1, OneLine
  <2>4. a.from \in Int /\ a.to \in Int
    BY <2>2, DaysAre DEF Assigned
  <2>5. w \in Win /\ w.start = a.from /\ w.end = a.to
    BY <2>4 DEF Win, B!Window
  <2>6. B!StartOf(B!Clipped(B!Windows, a.from, a.to)) = B!StartOf(B!Windows)
    <3>1. IsFiniteSet(B!Windows) /\ B!Windows \subseteq Win /\ \A v \in B!Windows : v.start <= v.end
      BY WindowsBasic
    <3>2. a.from <= B!StartOf(B!Windows) /\ B!StartOf(B!Windows) <= a.to
      BY <1>2, <2>4
    <3> QED  BY <2>4, <3>1, <3>2, SameStart
  <2> HIDE DEF w
  <2>7. in.fixed = c.fixed /\ in.percent = c.percent
    <3>1. \A v \in Win : /\ B!Context(r, v).fixed = B!Values("fixed", B!StartOf(B!Clipped(B!Windows, v.start, v.end)))
                         /\ B!Context(r, v).percent = B!Values("percent", B!StartOf(B!Clipped(B!Windows, v.start, v.end)))
      <4>1. ASSUME NEW v \in Win
            PROVE  /\ B!Context(r, v).fixed = B!Values("fixed", B!StartOf(B!Clipped(B!Windows, v.start, v.end)))
                   /\ B!Context(r, v).percent = B!Values("percent", B!StartOf(B!Clipped(B!Windows, v.start, v.end)))
        BY DEF B!Context, B!Windows
      <4> QED  BY <4>1
    <3>2. B!WholeMonth \in Win /\ B!Clipped(B!Windows, B!WholeMonth.start, B!WholeMonth.end) = B!Windows
      BY WholeMonthIs
    <3>3. d.fixed = c.fixed /\ d.percent = c.percent
      BY <2>5, <2>6, <3>1, <3>2
    <3> HIDE DEF d, c
    <3>4. in.fixed = d.fixed /\ in.percent = d.percent
      BY DEF B!Input
    <3> QED  BY <3>3, <3>4
  <2>8. in = B!Input(k, a.price, B!Context(r, B!Window(a.from, a.to)))
    BY DEF w
  <2>9. B!simulateForChild(r, k) = B!calculateCharge(in, r)
    BY <1>2, Zenon DEF B!simulateForChild, w
  <2> HIDE DEF in, c, a
  <2>10. B!calculateCharge(in, r) = Finally(Whole(r, k, a, c), B!Input(k, 0, c), r)
    BY <1>1, <2>2, <2>7, <2>8, DryRun
  <2> QED  BY <2>3, <2>9, <2>10
<1>3. ASSUME NEW k \in Kinds, NEW list, list = B!activeTariffsFor(k), Len(list) = 1
      PROVE  {l.amount : l \in {x \in B!computeAllLines(r) : x.kind = k}} =
                 IF B!Skipped(k) THEN {} ELSE {B!computeLine(r, k, list).amount}
  <2>1. B!computeAllLines(r) = {B!computeLine(r, x, B!activeTariffsFor(x)) :
            x \in {y \in Kinds : B!activeTariffsFor(y) # << >> /\ ~B!Skipped(y)}}
    BY DEF B!computeAllLines
  <2>2. list # << >>
    BY <1>3
  <2>3. \A x, other : B!computeLine(r, x, other).kind = x
    BY DEF B!computeLine, B!Line
  <2>4. {x \in B!computeAllLines(r) : x.kind = k} =
            IF B!Skipped(k) THEN {} ELSE {B!computeLine(r, k, list)}
    BY <1>3, <2>1, <2>2, <2>3
  <2> QED  BY <2>4
<1>4. B!SimulatedAsBilled
  BY <1>2, <1>3 DEF B!SimulatedAsBilled, B!Skipped, r
<1> QED  BY <1>4 DEF SimulatedAsBilled

\* For a child with one assignment of a kind, the lines of a billing run hold the
\* amount of the dry run and no other, for any rules, discounts, holidays and
\* attendance, but no line for a registration fee that stands charged.
THEOREM SimulationIsRight == B!Spec => [](B!SimulatedAsBilled /\ SimulatedAsBilled)
<1>1. BillInv => B!SimulatedAsBilled /\ SimulatedAsBilled
  BY SimulatedRight
<1> QED
  BY <1>1, BillInvariance, PTL

-----------------------------------------------------------------------------
\* A month that is divided between assignments.

\* The days of E from one day to another.
Between(E, f, t) == {d \in E : f <= d /\ d <= t}

\* Stretches that follow each other and hold all of E.
Follows(a, n, E) ==
  /\ \A i \in 1..n : a[i].from \in Int /\ a[i].to \in Int /\ a[i].from <= a[i].to
  /\ \A i \in 1..(n - 1) : a[i].to + 1 = a[i + 1].from
  /\ \A d \in E : a[1].from <= d /\ d <= a[n].to

\* Each part is a rounded share of the days it holds.
Shares(s, a, n, E, D, Q) ==
  \A i \in 1..n : /\ s[i] \in Nat
                  /\ D * s[i] < Q * Cardinality(Between(E, a[i].from, a[i].to)) + D
                  /\ Q * Cardinality(Between(E, a[i].from, a[i].to)) < D * s[i] + D

\* Days from one day to another can be counted.
LEMMA BetweenCounted ==
  ASSUME NEW E, IsFiniteSet(E), NEW f, NEW t
  PROVE  IsFiniteSet(Between(E, f, t)) /\ Cardinality(Between(E, f, t)) \in Nat
<1>1. Between(E, f, t) \in SUBSET E
  BY DEF Between
<1>2. IsFiniteSet(Between(E, f, t))
  BY <1>1, FS_Subset
<1> QED  BY <1>2, FS_CardinalityType

\* The parts add up to the share of all the days, but for the rounding of each.
LEMMA SharesAddUp ==
  ASSUME NEW n \in Nat, n > 0, NEW E, IsFiniteSet(E), E \subseteq Int, NEW a, Follows(a, n, E),
         NEW D \in Nat, D > 0, NEW Q \in Nat, NEW s, DOMAIN s = 1..n, Shares(s, a, n, E, D, Q)
  PROVE  /\ B!Sum(s) \in Nat /\ Cardinality(E) \in Nat
         /\ D * B!Sum(s) <= Q * Cardinality(E) + D * n
         /\ Q * Cardinality(E) <= D * B!Sum(s) + D * n
<1> DEFINE Held(i) == IF i = 0 THEN 0 ELSE Cardinality(Between(E, a[1].from, a[i].to))
           x(i) == Cardinality(Between(E, a[i].from, a[i].to))
<1>1. \A i \in 1..n : s[i] \in Nat
  BY DEF Shares
<1>2. PICK c \in [0..n -> Nat] : c[0] = 0 /\ (\A i \in 1..n : c[i] = c[i - 1] + s[i]) /\ B!Sum(s) = c[n]
  BY <1>1, SumFold
<1>3. \A i \in 0..n : Held(i) \in Nat
  BY BetweenCounted
<1>4. \A i \in 1..n : x(i) \in Nat
  BY BetweenCounted
<1> DEFINE T == {i \in 0..n : /\ D * c[i] <= Q * Held(i) + D * i /\ Q * Held(i) <= D * c[i] + D * i
                              /\ i > 0 => a[1].from <= a[i].to}
<1>5. 0 \in T
  <2>1. D * 0 = 0 /\ Q * 0 = 0 /\ 0 \in 0..n
    BY TimesIs
  <2> QED  BY <1>2, <2>1
<1>6. ASSUME NEW i \in 1..n, i - 1 \in T PROVE i \in T
  <2>0. i - 1 \in 0..n /\ i \in 0..n /\ c[i - 1] \in Nat /\ c[i] = c[i - 1] + s[i] /\ s[i] \in Nat /\ c[i] \in Nat
    <3>1. i - 1 \in 0..n /\ i \in 0..n
      OBVIOUS
    <3> QED  BY <1>1, <1>2, <3>1
  <2>1. Held(i) = Held(i - 1) + x(i) /\ a[1].from <= a[i].to
    <3>1. CASE i = 1
      <4>1. Held(1) = x(1) /\ Held(i - 1) = 0 /\ x(1) \in Nat
        BY <1>4, <3>1
      <4>2. a[1].from <= a[1].to
        BY <3>1 DEF Follows
      <4> HIDE DEF Held, x
      <4> QED  BY <4>1, <4>2, <3>1
    <3>2. CASE i # 1
      <4> DEFINE h == i - 1
                 U == Between(E, a[1].from, a[h].to)
                 V == Between(E, a[i].from, a[i].to)
                 W == Between(E, a[1].from, a[i].to)
      <4>1. h \in 1..n /\ h \in 1..(n - 1) /\ h + 1 = i /\ h # 0 /\ i # 0 /\ 1 \in 1..n
        BY <3>2
      <4> HIDE DEF h
      <4>2. /\ a[h].to + 1 = a[i].from /\ a[h].to \in Int /\ a[i].from \in Int /\ a[i].to \in Int
            /\ a[i].from <= a[i].to /\ a[1].from \in Int
        BY <4>1 DEF Follows
      <4>3. a[1].from <= a[h].to
        BY <1>6, <4>1 DEF h
      <4>4. W = U \cup V /\ U \cap V = {}
        <5>1. ASSUME NEW d \in E
              PROVE (d \in W <=> d \in U \/ d \in V) /\ ~(d \in U /\ d \in V)
          <6>1. d \in Int
            OBVIOUS
          <6>2. (d \in U <=> a[1].from <= d /\ d <= a[h].to) /\ (d \in V <=> a[i].from <= d /\ d <= a[i].to)
                /\ (d \in W <=> a[1].from <= d /\ d <= a[i].to)
            BY DEF Between
          <6> HIDE DEF U, V, W
          <6> DEFINE p == a[1].from
                     q == a[h].to
                     f == a[i].from
                     t == a[i].to
          <6>3. p \in Int /\ q \in Int /\ f \in Int /\ t \in Int /\ q + 1 = f /\ f <= t /\ p <= q
            BY <4>2, <4>3
          <6>4. (d \in U <=> p <= d /\ d <= q) /\ (d \in V <=> f <= d /\ d <= t) /\ (d \in W <=> p <= d /\ d <= t)
            BY <6>2
          <6> HIDE DEF p, q, f, t
          <6>5. (p <= d /\ d <= t <=> (p <= d /\ d <= q) \/ (f <= d /\ d <= t)) /\ ~(d <= q /\ f <= d)
            BY <6>1, <6>3
          <6> QED  BY <6>4, <6>5, Zenon
        <5>2. U \subseteq E /\ V \subseteq E /\ W \subseteq E
          BY DEF Between
        <5> HIDE DEF U, V, W
        <5> QED  BY <5>1, <5>2
      <4>5. IsFiniteSet(U) /\ IsFiniteSet(V) /\ Cardinality(U) \in Nat /\ Cardinality(V) \in Nat
        BY BetweenCounted
      <4>6. Cardinality(W) = Cardinality(U) + Cardinality(V)
        <5> HIDE DEF U, V, W
        <5>1. Cardinality(U \cup V) = Cardinality(U) + Cardinality(V) - Cardinality(U \cap V)
          BY <4>5, FS_Union
        <5>2. Cardinality(U \cap V) = 0
          BY <4>4, FS_EmptySet
        <5> QED  BY <4>4, <4>5, <5>1, <5>2
      <4>7. Held(i) = Cardinality(W) /\ Held(h) = Cardinality(U) /\ x(i) = Cardinality(V)
        BY <4>1
      <4>8. a[1].from <= a[i].to
        <5> DEFINE p == a[1].from
                   q == a[h].to
                   t == a[i].from
                   u == a[i].to
        <5>1. q + 1 = t /\ t <= u /\ p <= q /\ p \in Int /\ q \in Int /\ t \in Int /\ u \in Int
          BY <4>2, <4>3
        <5> HIDE DEF p, q, t, u
        <5>2. p <= u
          BY <5>1
        <5> QED  BY <5>2 DEF p, u
      <4>9. Held(i) = Held(h) + x(i)
        BY <4>6, <4>7
      <4> HIDE DEF Held, x
      <4> QED  BY <4>8, <4>9 DEF h
    <3> QED  BY <3>1, <3>2
  <2>2. D * s[i] < Q * x(i) + D /\ Q * x(i) < D * s[i] + D
    BY DEF Shares
  <2>3. D * c[i - 1] <= Q * Held(i - 1) + D * (i - 1) /\ Q * Held(i - 1) <= D * c[i - 1] + D * (i - 1)
    BY <1>6
  <2>4. Held(i - 1) \in Nat /\ x(i) \in Nat
    BY <1>3, <1>4, <2>0
  <2> DEFINE y == x(i)
             z == Held(i - 1)
             u == c[i - 1]
             v == s[i]
             j == i - 1
  <2>5. y \in Nat /\ z \in Nat /\ u \in Nat /\ v \in Nat /\ j \in Nat /\ Held(i) = z + y /\ c[i] = u + v /\ i = j + 1
    BY <2>0, <2>1, <2>4
  <2>6. D * v < Q * y + D /\ Q * y < D * v + D /\ D * u <= Q * z + D * j /\ Q * z <= D * u + D * j
    BY <2>2, <2>3
  <2> HIDE DEF y, z, u, v, j, Held
  <2>7. D * (u + v) <= Q * (z + y) + D * (j + 1) /\ Q * (z + y) <= D * (u + v) + D * (j + 1)
    <3>1. /\ D * (u + v) = D * u + D * v /\ Q * (z + y) = Q * z + Q * y /\ D * (j + 1) = D * j + D
          /\ D * u \in Int /\ D * v \in Int /\ Q * z \in Int /\ Q * y \in Int /\ D * j \in Int
      <4>1. D * (u + v) = D * u + D * v /\ D * u \in Int /\ D * v \in Int
        BY <2>5, TimesIs
      <4>2. Q * (z + y) = Q * z + Q * y /\ Q * z \in Int /\ Q * y \in Int
        BY <2>5, TimesIs
      <4>3. D * (j + 1) = D * j + D /\ D * j \in Int
        <5>1. D * (j + 1) = D * j + D * 1 /\ D * 1 = D /\ D * j \in Int
          BY <2>5, TimesIs
        <5> QED  BY <5>1
      <4> QED  BY <4>1, <4>2, <4>3
    <3> DEFINE pu == D * u
               pv == D * v
               pz == Q * z
               py == Q * y
               pj == D * j
               l == D * (u + v)
               g == Q * (z + y)
               h == D * (j + 1)
    <3>2. /\ pu \in Int /\ pv \in Int /\ pz \in Int /\ py \in Int /\ pj \in Int
          /\ l = pu + pv /\ g = pz + py /\ h = pj + D
          /\ pv < py + D /\ py < pv + D /\ pu <= pz + pj /\ pz <= pu + pj
      BY <3>1, <2>6
    <3> HIDE DEF pu, pv, pz, py, pj, l, g, h
    <3>3. l <= g + h /\ g <= l + h
      BY <3>2
    <3> QED  BY <3>3 DEF l, g, h
  <2>8. D * c[i] <= Q * Held(i) + D * i /\ Q * Held(i) <= D * c[i] + D * i
    BY <2>5, <2>7
  <2> QED  BY <2>0, <2>1, <2>8
<1>7. n \in T
  <2>1. n \in 0..n
    OBVIOUS
  <2> HIDE DEF T
  <2> QED  BY <1>5, <1>6, <2>1, InductionUpTo
<1>8. Held(n) = Cardinality(E)
  <2>1. Between(E, a[1].from, a[n].to) = E
    BY DEF Between, Follows
  <2>2. n # 0
    OBVIOUS
  <2> QED  BY <2>1, <2>2
<1>9. n \in 0..n
  OBVIOUS
<1>10. Held(n) \in Nat /\ c[n] \in Nat
  BY <1>3, <1>2, <1>9
<1>11. D * c[n] <= Q * Held(n) + D * n /\ Q * Held(n) <= D * c[n] + D * n
  BY <1>7
<1> HIDE DEF Held
<1> QED  BY <1>2, <1>8, <1>10, <1>11

\* What attendance makes of an amount when no more days count than the month has.
LEMMA FactorIs ==
  ASSUME NEW s, Charging(s), NEW in, Chargeable(in), NEW x \in Nat, in.billableDays > 0,
         in.attendedDays <= in.billableDays, in.workingDays <= in.billableDays,
         NEW m, m = B!ModeOf(s, in.kind), m \in Modes, in.forceFullTariff \in BOOLEAN
  PROVE  LET out == B!attendanceFactor(x, in, s)
             D == in.billableDays
         IN  /\ m = "flat_monthly" \/ in.forceFullTariff => out = x
             /\ m = "per_attended_day" /\ ~in.forceFullTariff /\ in.attendedDays = 0
                  => out = B!NotAttended(x, s)
             /\ m = "per_attended_day" /\ ~in.forceFullTariff /\ in.attendedDays # 0
                  => out = B!divRound(x * in.attendedDays, D, s.rounding)
             /\ m = "per_working_day" /\ ~in.forceFullTariff
                  => out = B!divRound(x * in.workingDays, D, s.rounding)
<1>1. in.billableDays # 0 /\ in.billableDays \in Nat /\ in.attendedDays \in Nat /\ in.workingDays \in Nat
  BY DEF Chargeable
<1>2. B!Counted(in, s) = IF m = "per_working_day" THEN in.workingDays ELSE in.attendedDays
  BY <1>1 DEF B!Counted, B!Least
<1>3. B!attendanceFactor(x, in, s) =
        IF m = "flat_monthly" \/ in.forceFullTariff THEN x
        ELSE IF in.attendedDays = 0 /\ m = "per_attended_day" THEN B!NotAttended(x, s)
        ELSE IF in.billableDays = 0 THEN 0
        ELSE B!divRound(x * B!Counted(in, s), in.billableDays, s.rounding)
  BY Zenon DEF B!attendanceFactor
<1>4. m = "flat_monthly" \/ in.forceFullTariff => B!attendanceFactor(x, in, s) = x
  BY <1>3, Zenon
<1>5. m = "per_attended_day" /\ ~in.forceFullTariff /\ in.attendedDays = 0
        => B!attendanceFactor(x, in, s) = B!NotAttended(x, s)
  BY <1>3
<1>6. m = "per_attended_day" /\ ~in.forceFullTariff /\ in.attendedDays # 0
        => B!attendanceFactor(x, in, s) = B!divRound(x * in.attendedDays, in.billableDays, s.rounding)
  BY <1>1, <1>2, <1>3
<1>7. m = "per_working_day" /\ ~in.forceFullTariff
        => B!attendanceFactor(x, in, s) = B!divRound(x * in.workingDays, in.billableDays, s.rounding)
  BY <1>1, <1>2, <1>3
<1> QED  BY <1>4, <1>5, <1>6, <1>7

\* The amount that attendance divides, and the days it divides it by.
Shared(r, k, p, c) == IF r.applyBeforeAttendance THEN B!applyDiscounts(p, B!Input(k, 0, c), r) ELSE p

ByDays(r, k, c) == B!ModeOf(r, k) = "flat_monthly" \/ B!FullTariffAnyway(r, c)

DaysOf(r, k, c) == IF ByDays(r, k, c) \/ B!ModeOf(r, k) = "per_working_day" THEN WorkDays ELSE attended

Minimal(r, k, c) ==
  c.attendedDays = 0 /\ r.noAttendance = "min_charge" /\ B!ModeOf(r, k) = "per_attended_day"
  /\ ~c.forceFullTariff

\* The context of a month that is divided by the working days of the child's windows.
WorkedMonth(r, c) ==
  /\ c = B!Context(r, B!WholeMonth)
  /\ r.divisor = "actual_working_days" /\ r.respectsWindow
  /\ Cardinality(HeldBy(attended, B!Windows)) <= Cardinality(HeldBy(WorkDays, B!Windows))
  /\ Cardinality(HeldBy(WorkDays, B!Windows)) > 0

\* The mode of a kind of tariff.
LEMMA ModeIs ==
  ASSUME NEW r \in Rules, NEW k \in Kinds
  PROVE  B!ModeOf(r, k) \in Modes
<1>1. Lawful(r)
  BY RulesAreLawful
<1> QED  BY <1>1 DEF Lawful, B!ModeOf

\* Whether the full tariff is forced does not depend on the stretch.
LEMMA ForceIs ==
  ASSUME NEW r, NEW w
  PROVE  B!Context(r, w).forceFullTariff = B!ForcesFullTariff(r, B!Windows)
         /\ B!ForcesFullTariff(r, B!Windows) \in BOOLEAN
<1>1. B!Context(r, w).forceFullTariff = B!ForcesFullTariff(r, B!Windows)
  BY DEF B!Context, B!Windows
<1>2. B!ForcesFullTariff(r, B!Windows) \in BOOLEAN
  BY Zenon DEF B!ForcesFullTariff
<1> QED  BY <1>1, <1>2

\* With these rules a month is divided by the working days of its windows.
LEMMA DividesByWindows ==
  ASSUME BillInv, NEW r, r.divisor = "actual_working_days", r.respectsWindow, NEW w
  PROVE  /\ B!Context(r, w).billableDays = Cardinality(HeldBy(WorkDays, B!Windows))
         /\ B!WorkingDays(B!Windows) = Cardinality(HeldBy(WorkDays, B!Windows))
         /\ Cardinality(HeldBy(WorkDays, B!Windows)) \in Nat
<1>1. B!Context(r, w).billableDays = B!Divisor(r, B!Windows)
  BY DEF B!Context, B!Windows
<1>2. B!Divisor(r, B!Windows) = B!WorkingDays(B!Windows)
  BY DEF B!Divisor
<1>3. RowsOK /\ IsFiniteSet(B!Windows) /\ B!Windows \subseteq Win /\ Apart(B!Windows)
  BY WindowsBasic DEF BillInv
<1>4. B!WorkingDays(B!Windows) = Cardinality(HeldBy(WorkDays, B!Windows))
  BY <1>3, WorkingDaysAre
<1>5. Cardinality(HeldBy(WorkDays, B!Windows)) \in Nat
  BY <1>3, WorkDaysInMonth, DaysCounted
<1> QED  BY <1>1, <1>2, <1>4, <1>5

\* The context of such a month.
LEMMA MonthContext ==
  ASSUME BillInv, NEW r \in Rules, NEW c, WorkedMonth(r, c)
  PROVE  LET D == Cardinality(HeldBy(WorkDays, B!Windows)) IN
         /\ D \in Nat /\ D > 0 /\ c.billableDays = D /\ c.workingDays = D
         /\ c.attendedDays = Cardinality(HeldBy(attended, B!Windows))
         /\ c.attendedDays \in Nat /\ c.attendedDays <= D /\ c.forceFullTariff \in BOOLEAN
         /\ c.fixed \in Seq(Nat) /\ c.percent \in Seq(0..B!FullPercent)
<1> DEFINE D == Cardinality(HeldBy(WorkDays, B!Windows))
           A == Cardinality(HeldBy(attended, B!Windows))
<1>1. /\ c = B!Context(r, B!WholeMonth) /\ r.divisor = "actual_working_days" /\ r.respectsWindow
      /\ A <= D /\ D > 0
  BY DEF WorkedMonth
<1>2. B!WholeMonth \in Win /\ B!Clipped(B!Windows, B!WholeMonth.start, B!WholeMonth.end) = B!Windows
  BY WholeMonthIs
<1>3. /\ c = [windows |-> B!Windows, billableDays |-> B!Divisor(r, B!Windows),
              attendedDays |-> A,
              fixed |-> B!Values("fixed", B!StartOf(B!Windows)),
              percent |-> B!Values("percent", B!StartOf(B!Windows)),
              workingDays |-> D,
              forceFullTariff |-> B!ForcesFullTariff(r, B!Windows)]
      /\ c.attendedDays \in Nat /\ c.workingDays \in Nat
      /\ c.fixed \in Seq(Nat) /\ c.percent \in Seq(0..B!FullPercent)
  <2> DEFINE w == B!WholeMonth
             W == B!Clipped(B!Windows, w.start, w.end)
  <2>1. /\ c = [windows |-> W, billableDays |-> B!Divisor(r, B!Windows),
                attendedDays |-> Cardinality(HeldBy(attended, W)),
                fixed |-> B!Values("fixed", B!StartOf(W)),
                percent |-> B!Values("percent", B!StartOf(W)),
                workingDays |-> Cardinality(HeldBy(WorkDays, W)),
                forceFullTariff |-> B!ForcesFullTariff(r, B!Windows)]
        /\ c.attendedDays \in Nat /\ c.workingDays \in Nat
        /\ c.fixed \in Seq(Nat) /\ c.percent \in Seq(0..B!FullPercent)
    BY <1>1, <1>2, ContextIs
  <2>2. W = B!Windows
    BY <1>2
  <2> HIDE DEF W
  <2> QED  BY <2>1, <2>2
<1>4. c.billableDays = D /\ D \in Nat
  BY <1>1, DividesByWindows
<1>5. c.forceFullTariff \in BOOLEAN
  BY <1>1, ForceIs
<1> HIDE DEF D, A
<1>6. c.workingDays = D /\ c.attendedDays = A
  BY <1>3
<1> QED  BY <1>1, <1>3, <1>4, <1>5, <1>6 DEF D, A

\* An assignment that has the month's context costs the share of all the days, or
\* the minimum of a month without attendance.
LEMMA WholeIs ==
  ASSUME BillInv, NEW r \in Rules, NEW k \in Kinds, NEW a \in Assigned, NEW c, WorkedMonth(r, c),
         B!Context(r, B!Window(a.from, a.to)) = c
  PROVE  LET D == Cardinality(HeldBy(WorkDays, B!Windows))
             Q == Shared(r, k, a.price, c)
         IN  /\ Q \in Nat
             /\ Minimal(r, k, c) => Whole(r, k, a, c) = r.minCharge
             /\ ~Minimal(r, k, c) => Whole(r, k, a, c)
                  = B!divRound(Q * Cardinality(HeldBy(DaysOf(r, k, c), B!Windows)), D, r.rounding)
<1> DEFINE D == Cardinality(HeldBy(WorkDays, B!Windows))
           A == Cardinality(HeldBy(attended, B!Windows))
           Q == Shared(r, k, a.price, c)
           in == B!Input(k, a.price, c)
           out == B!Input(k, 0, c)
           s == B!SegmentRules(r, k, FALSE, c)
           M == B!ModeOf(r, k)
           W == Whole(r, k, a, c)
<1>1. D \in Nat /\ D > 0 /\ c.billableDays = D /\ c.workingDays = D /\ c.attendedDays = A
      /\ A \in Nat /\ A <= D /\ c.forceFullTariff \in BOOLEAN
  BY MonthContext
<1>2. W = B!attendanceFactor(Base(in, s), in, s) /\ Base(in, s) \in Nat
  BY WholeNumber
<1>3. /\ s.rounding = r.rounding /\ s.minCharge = r.minCharge
      /\ s.applyBeforeAttendance = r.applyBeforeAttendance
      /\ s.appliesTo = (IF r.applyBeforeAttendance THEN r.appliesTo ELSE {})
      /\ s.noAttendance = r.noAttendance
      /\ s.multipleFixed = r.multipleFixed /\ s.multiplePercent = r.multiplePercent
      /\ s.order = r.order /\ B!ModeOf(s, k) = M /\ Charging(s)
  <2>1. FALSE \in BOOLEAN /\ s = B!SegmentRules(r, k, FALSE, c)
    OBVIOUS
  <2>2. ASSUME NEW many \in BOOLEAN, NEW t, t = B!SegmentRules(r, k, many, c)
        PROVE  /\ t.rounding = r.rounding /\ t.minCharge = r.minCharge
               /\ t.applyBeforeAttendance = r.applyBeforeAttendance
               /\ t.appliesTo = (IF r.applyBeforeAttendance THEN r.appliesTo ELSE {})
               /\ t.multipleFixed = r.multipleFixed /\ t.multiplePercent = r.multiplePercent
               /\ t.order = r.order /\ Charging(t)
               /\ ~many => t.noAttendance = r.noAttendance
               /\ ~many => B!ModeOf(t, k) = M
    BY <2>2, SegmentRulesAre
  <2> HIDE DEF s, M
  <2> QED  BY <2>1, <2>2
<1>4. /\ in.kind = k /\ in.base = a.price /\ in.fixed = out.fixed /\ in.percent = out.percent /\ out.kind = k
      /\ in.attendedDays = A /\ in.billableDays = D /\ in.workingDays = D
      /\ in.forceFullTariff = c.forceFullTariff
  <2> HIDE DEF D, A
  <2> QED  BY <1>1 DEF B!Input
<1>5. Chargeable(in)
  <2>1. B!Window(a.from, a.to) \in Win /\ a.price \in Nat
    BY DaysAre DEF Assigned, Win, B!Window
  <2>2. Chargeable(B!Input(k, a.price, B!Context(r, B!Window(a.from, a.to))))
    BY <2>1, InputIs
  <2> QED  BY <2>2
<1>6. M \in Modes
  BY ModeIs
<1> HIDE DEF D, A, in, out, s, M, W
<1>7. Base(in, s) = Q
  <2>1. CASE r.applyBeforeAttendance
    <3>1. s.appliesTo = r.appliesTo
      BY <1>3, <2>1
    <3>2. B!applyDiscounts(a.price, in, s) = B!applyDiscounts(a.price, out, r)
      BY <1>3, <1>4, <3>1, DiscountsAlike
    <3> QED  BY <1>3, <1>4, <2>1, <3>2 DEF Base, Shared, out
  <2>2. CASE ~r.applyBeforeAttendance
    BY <1>3, <1>4, <2>2 DEF Base, Shared
  <2> QED  BY <2>1, <2>2
<1> HIDE DEF Q
<1> DEFINE out2 == B!attendanceFactor(Q, in, s)
<1>8. Q \in Nat /\ W = out2
  BY <1>2, <1>7
<1>9. /\ M = "flat_monthly" \/ c.forceFullTariff => W = Q
      /\ M = "per_attended_day" /\ ~c.forceFullTariff /\ A = 0 => W = B!NotAttended(Q, s)
      /\ M = "per_attended_day" /\ ~c.forceFullTariff /\ A # 0 => W = B!divRound(Q * A, D, r.rounding)
      /\ M = "per_working_day" /\ ~c.forceFullTariff => W = B!divRound(Q * D, D, r.rounding)
  <2>1. in.billableDays > 0 /\ in.attendedDays <= in.billableDays /\ in.workingDays <= in.billableDays
        /\ M = B!ModeOf(s, in.kind) /\ in.forceFullTariff \in BOOLEAN
    BY <1>1, <1>3, <1>4
  <2>2. /\ M = "flat_monthly" \/ in.forceFullTariff => out2 = Q
        /\ M = "per_attended_day" /\ ~in.forceFullTariff /\ in.attendedDays = 0
             => out2 = B!NotAttended(Q, s)
        /\ M = "per_attended_day" /\ ~in.forceFullTariff /\ in.attendedDays # 0
             => out2 = B!divRound(Q * in.attendedDays, in.billableDays, s.rounding)
        /\ M = "per_working_day" /\ ~in.forceFullTariff
             => out2 = B!divRound(Q * in.workingDays, in.billableDays, s.rounding)
    BY <1>3, <1>5, <1>6, <1>8, <2>1, FactorIs
  <2> HIDE DEF out2
  <2> QED  BY <1>3, <1>4, <1>8, <2>2
<1> HIDE DEF out2
<1>10. r.rounding \in Roundings /\ r.noAttendance \in {"zero", "min_charge", "full_tariff"}
  BY RulesAreLawful DEF Lawful
<1>11. B!divRound(Q * D, D, r.rounding) = Q /\ B!divRound(Q * 0, D, r.rounding) = 0
  <2>1. B!divRound(Q * D, D, r.rounding) = Q
    BY <1>1, <1>8, <1>10, RoundExact
  <2>2. 0 * D = 0 /\ Q * 0 = 0
    BY <1>1, <1>8
  <2>3. B!divRound(0 * D, D, r.rounding) = 0
    BY <1>1, <1>10, RoundExact
  <2> QED  BY <2>1, <2>2, <2>3
<1>12. ByDays(r, k, c) <=> M = "flat_monthly" \/ c.forceFullTariff \/ (A = 0 /\ r.noAttendance = "full_tariff")
  BY <1>1, Zenon DEF ByDays, B!FullTariffAnyway, M
<1>13. Minimal(r, k, c) <=> A = 0 /\ r.noAttendance = "min_charge" /\ M = "per_attended_day" /\ ~c.forceFullTariff
  BY <1>1, Zenon DEF Minimal, M
<1>14. B!NotAttended(Q, s) = CASE r.noAttendance = "full_tariff" -> Q
                               [] r.noAttendance = "min_charge" -> r.minCharge
                               [] r.noAttendance = "zero" -> 0
  BY <1>3 DEF B!NotAttended
<1>15. ASSUME Minimal(r, k, c) PROVE W = r.minCharge
  BY <1>9, <1>13, <1>14, <1>15
<1>16. ASSUME ~Minimal(r, k, c), ByDays(r, k, c) \/ M = "per_working_day"
       PROVE  W = B!divRound(Q * D, D, r.rounding)
  <2>1. CASE M = "flat_monthly" \/ c.forceFullTariff
    BY <1>9, <1>11, <2>1
  <2>2. CASE ~(M = "flat_monthly" \/ c.forceFullTariff) /\ M = "per_working_day"
    BY <1>9, <2>2
  <2>3. CASE ~(M = "flat_monthly" \/ c.forceFullTariff) /\ M # "per_working_day"
    <3>1. M = "per_attended_day" /\ A = 0 /\ r.noAttendance = "full_tariff" /\ ~c.forceFullTariff
      BY <1>6, <1>12, <1>16, <2>3 DEF Modes
    <3> QED  BY <1>9, <1>11, <1>14, <3>1
  <2> QED  BY <2>1, <2>2, <2>3
<1>17. ASSUME ~Minimal(r, k, c), ~ByDays(r, k, c), M # "per_working_day"
       PROVE  W = B!divRound(Q * A, D, r.rounding)
  <2>1. M = "per_attended_day" /\ ~c.forceFullTariff /\ ~(A = 0 /\ r.noAttendance = "full_tariff")
    BY <1>6, <1>12, <1>17 DEF Modes
  <2>2. CASE A = 0
    <3>1. r.noAttendance = "zero"
      BY <1>10, <1>13, <1>17, <2>1, <2>2
    <3> QED  BY <1>9, <1>11, <1>14, <2>1, <2>2, <3>1
  <2>3. CASE A # 0
    BY <1>9, <2>1, <2>3
  <2> QED  BY <2>2, <2>3
<1>18. ~Minimal(r, k, c) => W = B!divRound(Q * Cardinality(HeldBy(DaysOf(r, k, c), B!Windows)), D, r.rounding)
  <2>1. CASE ByDays(r, k, c) \/ M = "per_working_day"
    <3>1. DaysOf(r, k, c) = WorkDays
      BY <2>1 DEF DaysOf, M
    <3> QED  BY <1>16, <2>1, <3>1 DEF D
  <2>2. CASE ~(ByDays(r, k, c) \/ M = "per_working_day")
    <3>1. DaysOf(r, k, c) = attended
      BY <2>2 DEF DaysOf, M
    <3> QED  BY <1>17, <2>2, <3>1 DEF A
  <2> QED  BY <2>1, <2>2
<1> QED  BY <1>8, <1>15, <1>18 DEF D, Q, W

\* The days of D that the cut windows hold.
LEMMA HeldBetween ==
  ASSUME BillInv, NEW D \in SUBSET (1..Month), NEW from \in Int, NEW to \in Int
  PROVE  /\ HeldBy(D, B!Clipped(B!Windows, from, to)) = Between(HeldBy(D, B!Windows), from, to)
         /\ Cardinality(Between(HeldBy(D, B!Windows), from, to)) \in Nat
         /\ Cardinality(Between(HeldBy(D, B!Windows), from, to)) <= Cardinality(HeldBy(D, B!Windows))
<1> DEFINE W == B!Clipped(B!Windows, from, to)
           E == HeldBy(D, B!Windows)
<1>1. IsFiniteSet(B!Windows) /\ B!Windows \subseteq Win
  BY WindowsBasic
<1>2. \A d \in Int : (\E w \in W : InWin(w, d)) <=> from <= d /\ d <= to /\ \E w \in B!Windows : InWin(w, d)
  BY <1>1, ClippedDays
<1>3. \A d \in D : d \in Int
  OBVIOUS
<1> HIDE DEF W
<1>4. HeldBy(D, W) = Between(E, from, to)
  BY <1>2, <1>3 DEF HeldBy, Between
<1>5. IsFiniteSet(E)
  BY DaysCounted
<1> HIDE DEF E
<1>6. Between(E, from, to) \in SUBSET E
  BY DEF Between
<1>7. Cardinality(Between(E, from, to)) \in Nat /\ Cardinality(Between(E, from, to)) <= Cardinality(E)
  BY <1>5, <1>6, BetweenCounted, FS_Subset
<1> QED  BY <1>4, <1>7 DEF W, E

\* One of several assignments costs the share of the days it covers.
LEMMA PartIs ==
  ASSUME BillInv, NEW r \in Rules, NEW k \in Kinds, NEW a \in Assigned, NEW c, WorkedMonth(r, c),
         NEW seg, seg.price = a.price, seg.context = B!Context(r, B!Window(a.from, a.to)),
         r.applyBeforeAttendance => seg.context.fixed = c.fixed /\ seg.context.percent = c.percent
  PROVE  LET D == Cardinality(HeldBy(WorkDays, B!Windows))
             Q == Shared(r, k, a.price, c)
             E == HeldBy(DaysOf(r, k, c), B!Windows)
         IN  B!SegmentAmount(r, k, seg, TRUE, c)
               = B!divRound(Q * Cardinality(Between(E, a.from, a.to)), D, r.rounding)
<1> DEFINE D == Cardinality(HeldBy(WorkDays, B!Windows))
           Q == Shared(r, k, a.price, c)
           w == B!Window(a.from, a.to)
           d == B!Context(r, w)
           A == Cardinality(Between(HeldBy(attended, B!Windows), a.from, a.to))
           X == Cardinality(Between(HeldBy(WorkDays, B!Windows), a.from, a.to))
           part == [d EXCEPT !.billableDays = IF TRUE /\ c.forceFullTariff THEN c.workingDays ELSE @,
                             !.forceFullTariff = ~TRUE /\ @]
           in == B!Input(k, a.price, part)
           out == B!Input(k, 0, c)
           s == B!SegmentRules(r, k, TRUE, c)
           M == B!ModeOf(r, k)
           m == B!ModeOf(s, k)
           W == B!SegmentAmount(r, k, seg, TRUE, c)
<1>1. /\ D \in Nat /\ D > 0 /\ c.billableDays = D /\ c.workingDays = D /\ c.forceFullTariff \in BOOLEAN
      /\ c.attendedDays = Cardinality(HeldBy(attended, B!Windows)) /\ c.attendedDays \in Nat /\ c.attendedDays <= D
      /\ c.fixed \in Seq(Nat) /\ c.percent \in Seq(0..B!FullPercent)
  BY MonthContext
<1>2. /\ a.from \in Int /\ a.to \in Int /\ a.price \in Nat /\ w \in Win /\ w.start = a.from /\ w.end = a.to
  BY DaysAre DEF Assigned, Win, B!Window
<1> HIDE DEF w
<1>3. /\ HeldBy(attended, B!Clipped(B!Windows, w.start, w.end)) = Between(HeldBy(attended, B!Windows), a.from, a.to)
      /\ HeldBy(WorkDays, B!Clipped(B!Windows, w.start, w.end)) = Between(HeldBy(WorkDays, B!Windows), a.from, a.to)
      /\ A \in Nat /\ A <= Cardinality(HeldBy(attended, B!Windows)) /\ X \in Nat /\ X <= D
  <2>1. RowsOK /\ attended \in SUBSET (1..Month) /\ WorkDays \in SUBSET (1..Month)
    BY WorkDaysInMonth DEF BillInv, RowsOK
  <2> QED  BY <1>2, <2>1, HeldBetween
<1>4. /\ d.attendedDays = A /\ d.workingDays = X /\ d.fixed \in Seq(Nat) /\ d.percent \in Seq(0..B!FullPercent)
      /\ d = [windows |-> d.windows, billableDays |-> d.billableDays, attendedDays |-> d.attendedDays,
              fixed |-> d.fixed, percent |-> d.percent, workingDays |-> d.workingDays,
              forceFullTariff |-> d.forceFullTariff]
  <2> DEFINE V == B!Clipped(B!Windows, w.start, w.end)
  <2>1. /\ d = [windows |-> V, billableDays |-> B!Divisor(r, B!Windows),
                attendedDays |-> Cardinality(HeldBy(attended, V)),
                fixed |-> B!Values("fixed", B!StartOf(V)),
                percent |-> B!Values("percent", B!StartOf(V)),
                workingDays |-> Cardinality(HeldBy(WorkDays, V)),
                forceFullTariff |-> B!ForcesFullTariff(r, B!Windows)]
        /\ d.fixed \in Seq(Nat) /\ d.percent \in Seq(0..B!FullPercent)
    BY <1>2, ContextIs
  <2>2. HeldBy(attended, V) = Between(HeldBy(attended, B!Windows), a.from, a.to)
        /\ HeldBy(WorkDays, V) = Between(HeldBy(WorkDays, B!Windows), a.from, a.to)
    BY <1>3
  <2> HIDE DEF V, d
  <2> QED  BY <2>1, <2>2
<1>5. d.billableDays = D
  BY DividesByWindows DEF WorkedMonth
<1> HIDE DEF d, A, X, D
<1>6. /\ part.attendedDays = A /\ part.workingDays = X /\ part.billableDays = D /\ part.forceFullTariff = FALSE
      /\ part.fixed = d.fixed /\ part.percent = d.percent
  <2>1. (IF TRUE /\ c.forceFullTariff THEN c.workingDays ELSE d.billableDays) = D
    BY <1>1, <1>5
  <2>2. part = [d EXCEPT !.billableDays = D, !.forceFullTariff = FALSE]
    BY <2>1
  <2> HIDE DEF part
  <2>3. part = [windows |-> d.windows, billableDays |-> D, attendedDays |-> d.attendedDays,
                fixed |-> d.fixed, percent |-> d.percent, workingDays |-> d.workingDays,
                forceFullTariff |-> FALSE]
    BY <1>4, <2>2
  <2> QED  BY <1>4, <2>3
<1>7. W = B!calculateCharge(in, s)
  <2>1. W = B!calculateCharge(B!Input(k, seg.price,
              [seg.context EXCEPT !.billableDays = IF TRUE /\ c.forceFullTariff THEN c.workingDays ELSE @,
                             !.forceFullTariff = ~TRUE /\ @]), B!SegmentRules(r, k, TRUE, c))
    BY Zenon DEF B!SegmentAmount
  <2>2. seg.context = d
    BY DEF d, w
  <2> HIDE DEF W
  <2> QED  BY <2>1, <2>2
<1> HIDE DEF part
<1>8. /\ in.kind = k /\ in.base = a.price /\ in.fixed = d.fixed /\ in.percent = d.percent
      /\ in.attendedDays = A /\ in.billableDays = D /\ in.workingDays = X /\ in.forceFullTariff = FALSE
      /\ out.kind = k /\ out.fixed = c.fixed /\ out.percent = c.percent
  BY <1>6 DEF B!Input
<1>9. Chargeable(in)
  <2> HIDE DEF in
  <2>1. in.base \in Nat /\ in.attendedDays \in Nat /\ in.billableDays \in Nat /\ in.workingDays \in Nat
    BY <1>1, <1>2, <1>3, <1>8
  <2>2. in.fixed \in Seq(Nat) /\ in.percent \in Seq(0..B!FullPercent)
    BY <1>4, <1>8
  <2> QED  BY <2>1, <2>2 DEF Chargeable
<1>10. /\ s.unit = "tiyin" /\ s.floor = 0 /\ s.rounding = r.rounding
       /\ s.applyBeforeAttendance = r.applyBeforeAttendance
       /\ s.appliesTo = (IF r.applyBeforeAttendance THEN r.appliesTo ELSE {})
       /\ s.noAttendance = "zero"
       /\ s.multipleFixed = r.multipleFixed /\ s.multiplePercent = r.multiplePercent
       /\ s.order = r.order /\ Charging(s)
       /\ m = IF ByDays(r, k, c) THEN "per_working_day" ELSE M
  <2>1. TRUE \in BOOLEAN /\ s = B!SegmentRules(r, k, TRUE, c)
    OBVIOUS
  <2>2. ASSUME NEW many \in BOOLEAN, NEW t, t = B!SegmentRules(r, k, many, c)
        PROVE  /\ t.unit = "tiyin" /\ t.floor = 0 /\ t.rounding = r.rounding
               /\ t.applyBeforeAttendance = r.applyBeforeAttendance
               /\ t.appliesTo = (IF r.applyBeforeAttendance THEN r.appliesTo ELSE {})
               /\ t.multipleFixed = r.multipleFixed /\ t.multiplePercent = r.multiplePercent
               /\ t.order = r.order /\ Charging(t)
               /\ many => t.noAttendance = "zero"
               /\ many => B!ModeOf(t, k) = IF ByDays(r, k, c) THEN "per_working_day" ELSE M
    <3>1. /\ t.unit = "tiyin" /\ t.floor = 0 /\ t.rounding = r.rounding
          /\ t.applyBeforeAttendance = r.applyBeforeAttendance
          /\ t.appliesTo = (IF r.applyBeforeAttendance THEN r.appliesTo ELSE {})
          /\ t.multipleFixed = r.multipleFixed /\ t.multiplePercent = r.multiplePercent
          /\ t.order = r.order /\ Charging(t)
          /\ t.noAttendance = (IF many THEN "zero" ELSE r.noAttendance)
          /\ B!ModeOf(t, k) = IF many /\ (B!ModeOf(r, k) = "flat_monthly" \/ B!FullTariffAnyway(r, c))
                              THEN "per_working_day" ELSE B!ModeOf(r, k)
      BY <2>2, SegmentRulesAre
    <3> QED  BY <3>1 DEF ByDays
  <2> HIDE DEF s, M
  <2> QED  BY <2>1, <2>2
<1> HIDE DEF in, out, s, W, m
<1>11. W = B!attendanceFactor(Base(in, s), in, s) /\ Base(in, s) \in Nat
  <2>1. s.applyBeforeAttendance \/ s.appliesTo = {}
    BY <1>10
  <2> QED  BY <1>7, <1>9, <1>10, <2>1, SegmentIs
<1>12. Base(in, s) = Q
  <2>1. CASE r.applyBeforeAttendance
    <3>1. s.appliesTo = r.appliesTo
      BY <1>10, <2>1
    <3>2. in.fixed = out.fixed /\ in.percent = out.percent
      BY <1>8, <2>1 DEF d, w
    <3>3. B!applyDiscounts(a.price, in, s) = B!applyDiscounts(a.price, out, r)
      BY <1>10, <1>8, <3>1, <3>2, DiscountsAlike
    <3> QED  BY <1>10, <1>8, <2>1, <3>3 DEF Base, Shared, out
  <2>2. CASE ~r.applyBeforeAttendance
    BY <1>10, <1>8, <2>2 DEF Base, Shared
  <2> QED  BY <2>1, <2>2
<1> HIDE DEF Q
<1>13. Q \in Nat /\ W = B!attendanceFactor(Q, in, s)
  BY <1>11, <1>12
<1>14. M \in Modes
  BY ModeIs
<1>15. m \in {"per_working_day", "per_attended_day"} /\ m \in Modes
       /\ (m = "per_working_day" <=> ByDays(r, k, c) \/ M = "per_working_day")
  <2>1. M = "flat_monthly" => ByDays(r, k, c)
    BY DEF ByDays
  <2> HIDE DEF M
  <2> QED  BY <1>10, <1>14, <2>1 DEF Modes
<1> DEFINE out2 == B!attendanceFactor(Q, in, s)
<1>16. /\ m = "per_attended_day" /\ A = 0 => W = B!NotAttended(Q, s)
       /\ m = "per_attended_day" /\ A # 0 => W = B!divRound(Q * A, D, r.rounding)
       /\ m = "per_working_day" => W = B!divRound(Q * X, D, r.rounding)
  <2>1. in.billableDays > 0 /\ in.attendedDays <= in.billableDays /\ in.workingDays <= in.billableDays
    <3>1. A <= D
      BY <1>1, <1>3
    <3> QED  BY <1>1, <1>3, <1>8, <3>1
  <2>2. m = B!ModeOf(s, in.kind) /\ in.forceFullTariff \in BOOLEAN /\ ~in.forceFullTariff
    BY <1>8 DEF m
  <2>3. /\ m = "per_attended_day" /\ ~in.forceFullTariff /\ in.attendedDays = 0
             => out2 = B!NotAttended(Q, s)
        /\ m = "per_attended_day" /\ ~in.forceFullTariff /\ in.attendedDays # 0
             => out2 = B!divRound(Q * in.attendedDays, in.billableDays, s.rounding)
        /\ m = "per_working_day" /\ ~in.forceFullTariff
             => out2 = B!divRound(Q * in.workingDays, in.billableDays, s.rounding)
    BY <1>9, <1>10, <1>13, <1>15, <2>1, <2>2, FactorIs
  <2>4. W = out2
    BY <1>13
  <2> HIDE DEF out2
  <2> QED  BY <1>8, <1>10, <2>2, <2>3, <2>4
<1> HIDE DEF out2
<1>17. B!NotAttended(Q, s) = 0
  BY <1>10 DEF B!NotAttended
<1>18. B!divRound(Q * 0, D, r.rounding) = 0
  <2>1. r.rounding \in Roundings
    BY RulesAreLawful DEF Lawful
  <2>2. 0 * D = 0 /\ Q * 0 = 0
    BY <1>1, <1>13
  <2>3. B!divRound(0 * D, D, r.rounding) = 0
    BY <1>1, <2>1, RoundExact
  <2> QED  BY <2>2, <2>3
<1>19. CASE m = "per_working_day"
  <2>1. DaysOf(r, k, c) = WorkDays
    BY <1>15, <1>19 DEF DaysOf
  <2> QED  BY <1>16, <1>19, <2>1 DEF W, Q, X, D
<1>20. CASE m = "per_attended_day"
  <2>1. DaysOf(r, k, c) = attended
    BY <1>15, <1>20 DEF DaysOf
  <2>2. W = B!divRound(Q * A, D, r.rounding)
    BY <1>16, <1>17, <1>18, <1>20
  <2> QED  BY <2>1, <2>2 DEF W, Q, A, D
<1> QED  BY <1>15, <1>19, <1>20

\* The unit of rounding is a natural number.
LEMMA UnitIs ==
  ASSUME NEW r \in Rules
  PROVE  B!UnitOf(r) \in Nat /\ B!UnitOf(r) > 0
<1>1. r.unit \in {"tiyin", "som", "1000_som"}
  BY RulesAreLawful DEF Lawful
<1>2. r.unit = "tiyin" => B!UnitOf(r) = 1
  BY DEF B!UnitOf
<1>3. r.unit = "som" => B!UnitOf(r) = 100
  BY DEF B!UnitOf
<1>4. r.unit = "1000_som" => B!UnitOf(r) = 100000
  BY DEF B!UnitOf
<1>5. CASE r.unit = "tiyin"
  BY <1>2, <1>5
<1>6. CASE r.unit = "som"
  BY <1>3, <1>6
<1>7. CASE r.unit = "1000_som"
  BY <1>4, <1>7
<1> QED  BY <1>1, <1>5, <1>6, <1>7

\* Totals that are close give amounts that are close.
LEMMA FinallyStep ==
  ASSUME NEW r \in Rules, NEW in, in.fixed \in Seq(Nat), in.percent \in Seq(0..B!FullPercent),
         NEW x \in Nat, NEW y \in Nat, x <= y, NEW n \in Nat, y - x <= n
  PROVE  /\ Finally(x, in, r) \in Nat /\ Finally(y, in, r) \in Nat
         /\ Finally(x, in, r) <= Finally(y, in, r)
         /\ Finally(y, in, r) - Finally(x, in, r) <= n + B!UnitOf(r)
<1> DEFINE U == B!UnitOf(r)
           u == IF r.applyBeforeAttendance THEN x ELSE B!applyDiscounts(x, in, r)
           v == IF r.applyBeforeAttendance THEN y ELSE B!applyDiscounts(y, in, r)
           g == B!Greatest(u, r.floor)
           h == B!Greatest(v, r.floor)
           p == B!divRound(g, U, r.rounding)
           q == B!divRound(h, U, r.rounding)
<1>1. r.rounding \in Roundings /\ r.floor \in Nat
  BY RulesAreLawful DEF Lawful
<1>2. U \in Nat /\ U > 0
  BY UnitIs
<1>3. Step(x, y, u, v)
  <2>1. Step(x, y, x, y)
    BY DEF Step
  <2>2. Step(x, y, B!applyDiscounts(x, in, r), B!applyDiscounts(y, in, r))
    BY <1>1, DiscountedStep
  <2> QED  BY <2>1, <2>2
<1>4. Finally(x, in, r) = p * U /\ Finally(y, in, r) = q * U
  BY Zenon DEF Finally, B!Rounded
<1> HIDE DEF U, u, v
<1>5. g \in Nat /\ h \in Nat /\ g <= h /\ h - g <= n
  BY <1>1, <1>3 DEF Step, B!Greatest
<1> HIDE DEF g, h
<1>6. p \in Nat /\ q \in Nat
  BY <1>1, <1>2, <1>5, RoundNear
<1>7. p <= q
  BY <1>1, <1>2, <1>5, RoundOrder
<1>8. U * q - U * p <= h - g + U
  BY <1>1, <1>2, <1>5, RoundStep
<1> HIDE DEF p, q
<1>9. U * p <= U * q
  BY <1>2, <1>6, <1>7, TimesOrder
<1>10. p * U = U * p /\ q * U = U * q /\ U * p \in Nat /\ U * q \in Nat
  BY <1>2, <1>6
<1> DEFINE a == U * p
           b == U * q
<1>11. /\ a \in Nat /\ b \in Nat /\ a <= b /\ b - a <= h - g + U
       /\ Finally(x, in, r) = a /\ Finally(y, in, r) = b
  BY <1>4, <1>8, <1>9, <1>10
<1> HIDE DEF a, b
<1>12. b - a <= n + U
  BY <1>2, <1>5, <1>11
<1> QED  BY <1>11, <1>12 DEF U

\* As FinallyStep, in whichever order.
LEMMA FinallyClose ==
  ASSUME NEW r \in Rules, NEW in, in.fixed \in Seq(Nat), in.percent \in Seq(0..B!FullPercent),
         NEW x \in Nat, NEW y \in Nat, NEW n \in Nat, y <= x + n, x <= y + n
  PROVE  Finally(x, in, r) - Finally(y, in, r) \in -(n + B!UnitOf(r))..(n + B!UnitOf(r))
<1>1. B!UnitOf(r) \in Nat
  BY UnitIs
<1>2. CASE x <= y
  <2>1. y - x <= n
    BY <1>2
  <2>2. /\ Finally(x, in, r) \in Nat /\ Finally(y, in, r) \in Nat
        /\ Finally(x, in, r) <= Finally(y, in, r)
        /\ Finally(y, in, r) - Finally(x, in, r) <= n + B!UnitOf(r)
    BY <1>2, <2>1, FinallyStep
  <2> QED  BY <1>1, <2>2, SMTT(30)
<1>3. CASE y <= x
  <2>1. x - y <= n
    BY <1>3
  <2>2. /\ Finally(y, in, r) \in Nat /\ Finally(x, in, r) \in Nat
        /\ Finally(y, in, r) <= Finally(x, in, r)
        /\ Finally(x, in, r) - Finally(y, in, r) <= n + B!UnitOf(r)
    BY <1>3, <2>1, FinallyStep
  <2> QED  BY <1>1, <2>2, SMTT(30)
<1> QED  BY <1>2, <1>3

\* The line of several assignments.
LEMMA ManyLine ==
  ASSUME BillInv, NEW r \in Rules, NEW k \in Kinds, NEW list \in Seq(Assigned), Len(list) > 1,
         NEW c, c = B!Context(r, B!WholeMonth),
         NEW amounts, amounts = [i \in 1..Len(list) |-> B!SegmentAmount(r, k, B!Segments(r, list)[i], TRUE, c)]
  PROVE  B!computeLine(r, k, list).amount
           = Finally(IF Minimal(r, k, c) THEN r.minCharge ELSE B!Sum(amounts), B!Input(k, 0, c), r)
<1> DEFINE segs == B!Segments(r, list)
           n == Len(list)
           many == Len(segs) > 1
           total == B!Sum([i \in DOMAIN segs |-> B!SegmentAmount(r, k, segs[i], many, c)])
           minimum == /\ many /\ c.attendedDays = 0
                      /\ r.noAttendance = "min_charge"
                      /\ B!ModeOf(r, k) = "per_attended_day"
                      /\ ~c.forceFullTariff
<1>1. n \in Nat /\ DOMAIN list = 1..n
  <2> DEFINE V == Assigned
  <2>1. list \in Seq(V)
    OBVIOUS
  <2> HIDE DEF V
  <2> QED  BY <2>1, SeqIs
<1>2. DOMAIN segs = 1..n /\ Len(segs) = n
  <2>1. segs = [i \in 1..n |-> [from |-> list[i].from, to |-> list[i].to, price |-> list[i].price,
                                context |-> B!Context(r, B!Window(list[i].from, list[i].to))]]
    BY <1>1, Zenon DEF B!Segments
  <2> HIDE DEF segs, n
  <2> QED  BY <1>1, <2>1
<1>3. B!computeLine(r, k, list).amount = B!Amount(r, k, segs, c)
  BY DEF B!computeLine, B!Line
<1>4. B!Amount(r, k, segs, c) = B!calculateCharge(B!Input(k, IF minimum THEN r.minCharge ELSE total, c), B!FinalRules(r, k))
  BY Zenon DEF B!Amount
<1>5. many = TRUE
  <2> HIDE DEF segs
  <2> QED  BY <1>1, <1>2
<1>6. total = B!Sum(amounts)
  <2>1. amounts = [i \in 1..n |-> B!SegmentAmount(r, k, segs[i], TRUE, c)]
    OBVIOUS
  <2> HIDE DEF segs, many, n
  <2>2. [i \in DOMAIN segs |-> B!SegmentAmount(r, k, segs[i], many, c)] = amounts
    BY <1>2, <1>5, <2>1
  <2> QED  BY <2>2
<1>7. minimum <=> Minimal(r, k, c)
  <2> HIDE DEF many
  <2> QED  BY <1>5, Zenon DEF Minimal
<1> HIDE DEF minimum, total, segs
<1>8. B!computeLine(r, k, list).amount = Finally(IF minimum THEN r.minCharge ELSE total, B!Input(k, 0, c), r)
  BY <1>3, <1>4, FinallyIs
<1> QED  BY <1>6, <1>7, <1>8

\* Consecutive assignments have one price.
LEMMA OnePrice ==
  ASSUME NEW list, NEW n \in Nat, n > 1, n = Len(list), B!Consecutive(list)
  PROVE  \A i \in 1..n : list[i].price = list[1].price
<1> DEFINE T == {i \in 0..n : i = 0 \/ list[i].price = list[1].price}
<1>1. \A i \in 1..(n - 1) : list[i].price = list[i + 1].price
  BY DEF B!Consecutive
<1>2. ASSUME NEW i \in 1..n, i - 1 \in T PROVE i \in T
  <2>1. CASE i = 1
    BY <2>1
  <2>2. CASE i # 1
    <3>1. i - 1 \in 1..(n - 1) /\ (i - 1) + 1 = i
      BY <2>2
    <3>2. list[i - 1].price = list[i].price
      BY <1>1, <3>1
    <3>3. list[i - 1].price = list[1].price
      <4>1. i - 1 # 0
        BY <2>2
      <4>2. i - 1 = 0 \/ list[i - 1].price = list[1].price
        <5> DEFINE m == i - 1
        <5>1. m \in T
          BY <1>2
        <5> HIDE DEF m
        <5>2. m = 0 \/ list[m].price = list[1].price
          BY <5>1
        <5> QED  BY <5>2 DEF m
      <4> QED  BY <4>1, <4>2
    <3>4. list[i].price = list[1].price
      BY <3>2, <3>3
    <3>5. i \in 0..n
      OBVIOUS
    <3> QED  BY <3>4, <3>5
  <2> QED  BY <2>1, <2>2
<1>3. 0 \in T
  OBVIOUS
<1>4. \A i \in 0..n : i \in T
  <2> HIDE DEF T
  <2> QED  BY <1>2, <1>3, InductionUpTo
<1>5. ASSUME NEW i \in 1..n PROVE list[i].price = list[1].price
  <2>1. i \in T /\ i # 0
    BY <1>4
  <2> QED  BY <2>1
<1> QED  BY <1>5

\* Consecutive assignments that cover the child's month follow each other.
LEMMA Following ==
  ASSUME BillInv, NEW list \in Seq(Assigned), NEW n \in Nat, n > 1, n = Len(list),
         \A i \in 1..n : list[i].from <= list[i].to, B!Consecutive(list),
         NEW D \in SUBSET (1..Month)
  PROVE  Follows(list, n, HeldBy(D, B!Windows))
<1> DEFINE E == HeldBy(D, B!Windows)
<1>1. \A i \in 1..n : list[i] \in Assigned
  <2> DEFINE V == Assigned
  <2>1. list \in Seq(V)
    OBVIOUS
  <2> HIDE DEF V
  <2>2. \A i \in 1..n : list[i] \in V
    BY <2>1, SeqIs
  <2> QED  BY <2>2 DEF V
<1>2. \A a \in Assigned : a.from \in Int /\ a.to \in Int
  BY DaysAre DEF Assigned
<1>3. \A i \in 1..n : list[i].from \in Int /\ list[i].to \in Int
  <2> HIDE DEF E
  <2> QED  BY <1>1, <1>2
<1>4. 1 \in 1..n /\ n \in 1..n
  OBVIOUS
<1>5. \A i \in 1..(n - 1) : list[i].to + 1 = list[i + 1].from
  BY DEF B!Consecutive
<1>6. B!Covered \subseteq list[1].from..list[n].to
  BY DEF B!Consecutive
<1>7. ASSUME NEW d \in E PROVE list[1].from <= d /\ d <= list[n].to
  <2>1. d \in D /\ d \in Int /\ \E w \in B!Windows : InWin(w, d)
    BY DEF HeldBy
  <2>2. d \in B!Covered
    BY <2>1, CovIs
  <2>3. list[1].from \in Int /\ list[n].to \in Int
    BY <1>3, <1>4
  <2> QED  BY <1>6, <2>2, <2>3
<1> QED  BY <1>3, <1>5, <1>7 DEF Follows

\* One assignment over the days of them all has the context of the month.
LEMMA JoinedIs ==
  ASSUME BillInv, NEW list \in Seq(Assigned), NEW n \in Nat, n > 1, n = Len(list),
         B!Consecutive(list), NEW r
  PROVE  \E j \in Assigned : /\ B!Joined(list) = <<j>> /\ j.price = list[1].price
                             /\ B!Context(r, B!Window(j.from, j.to)) = B!Context(r, B!WholeMonth)
<1> DEFINE j == [list[1] EXCEPT !.to = list[n].to]
           w == B!Window(j.from, j.to)
<1>1. list[1] \in Assigned /\ list[n] \in Assigned
  <2> DEFINE V == Assigned
  <2>1. list \in Seq(V)
    OBVIOUS
  <2> HIDE DEF V
  <2>2. \A i \in 1..n : list[i] \in V
    BY <2>1, SeqIs
  <2>3. 1 \in 1..n /\ n \in 1..n
    OBVIOUS
  <2>4. list[1] \in V /\ list[n] \in V
    BY <2>2, <2>3
  <2> QED  BY <2>4 DEF V
<1>2. \A a, b \in Assigned : /\ [a EXCEPT !.to = b.to] \in Assigned
                             /\ [a EXCEPT !.to = b.to].price = a.price
                             /\ [a EXCEPT !.to = b.to].from = a.from
                             /\ [a EXCEPT !.to = b.to].to = b.to
  BY DEF Assigned
<1>3. j \in Assigned /\ j.price = list[1].price /\ j.from = list[1].from /\ j.to = list[n].to
  <2> DEFINE a == list[1]
             b == list[n]
  <2>1. a \in Assigned /\ b \in Assigned
    BY <1>1
  <2> HIDE DEF a, b
  <2>2. [a EXCEPT !.to = b.to] \in Assigned /\ [a EXCEPT !.to = b.to].price = a.price
        /\ [a EXCEPT !.to = b.to].from = a.from /\ [a EXCEPT !.to = b.to].to = b.to
    BY <1>2, <2>1
  <2> QED  BY <2>2 DEF a, b
<1>4. B!Joined(list) = <<j>>
  BY DEF B!Joined
<1> HIDE DEF j
<1>5. j.from \in Int /\ j.to \in Int
  <2>1. \A a \in Assigned : a.from \in Int /\ a.to \in Int
    BY DaysAre DEF Assigned
  <2> QED  BY <1>3, <2>1
<1>6. w \in Win /\ w.start = j.from /\ w.end = j.to
  BY <1>5 DEF Win, B!Window
<1> HIDE DEF w
<1>7. B!Clipped(B!Windows, w.start, w.end) = B!Windows
  <2>1. B!Covered \subseteq j.from..j.to
    BY <1>3 DEF B!Consecutive
  <2>2. B!Windows \subseteq Win
        /\ \A v \in B!Windows : v.start \in Int /\ v.end \in Int /\ v.start <= v.end
    BY WindowsBasic
  <2>3. ASSUME NEW v \in B!Windows PROVE j.from <= v.start /\ v.start <= v.end /\ v.end <= j.to
    <3>1. InWin(v, v.start) /\ InWin(v, v.end)
      BY <2>2 DEF InWin
    <3>2. v.start \in B!Covered /\ v.end \in B!Covered
      BY <2>2, <3>1, CovIs
    <3> QED  BY <1>5, <2>1, <2>2, <3>2
  <2>4. B!Clipped(B!Windows, j.from, j.to) = B!Windows
    BY <1>5, <2>2, <2>3, ClippedSame
  <2> QED  BY <1>6, <2>4
<1>8. B!Context(r, w) = B!Context(r, B!WholeMonth)
  <2>1. \A v : B!Clipped(B!Windows, v.start, v.end) = B!Windows =>
          B!Context(r, v) = [windows |-> B!Windows, billableDays |-> B!Divisor(r, B!Windows),
                             attendedDays |-> B!AttendedIn(B!Windows),
                             fixed |-> B!Values("fixed", B!StartOf(B!Windows)),
                             percent |-> B!Values("percent", B!StartOf(B!Windows)),
                             workingDays |-> B!WorkingDays(B!Windows),
                             forceFullTariff |-> B!ForcesFullTariff(r, B!Windows)]
    BY DEF B!Context, B!Windows
  <2>2. B!Clipped(B!Windows, B!WholeMonth.start, B!WholeMonth.end) = B!Windows
    BY WholeMonthIs
  <2> QED  BY <1>7, <2>1, <2>2
<1> QED  BY <1>3, <1>4, <1>8 DEF w

\* The segments of a month.
LEMMA SegmentsAre ==
  ASSUME NEW r, NEW k, NEW list \in Seq(Assigned), NEW n, n = Len(list)
  PROVE  /\ B!computeLine(r, k, list).segments = B!Segments(r, list)
         /\ B!computeLine(r, k, list).context = B!Context(r, B!WholeMonth)
         /\ DOMAIN list = 1..n
         /\ \A i \in 1..n : /\ B!Segments(r, list)[i].price = list[i].price
                            /\ B!Segments(r, list)[i].context
                                 = B!Context(r, B!Window(list[i].from, list[i].to))
<1>1. DOMAIN list = 1..n
  <2> DEFINE V == Assigned
  <2>1. list \in Seq(V)
    OBVIOUS
  <2> HIDE DEF V
  <2> QED  BY <2>1, SeqIs
<1>2. B!Segments(r, list) = [i \in 1..n |-> [from |-> list[i].from, to |-> list[i].to, price |-> list[i].price,
                                context |-> B!Context(r, B!Window(list[i].from, list[i].to))]]
  BY <1>1, Zenon DEF B!Segments
<1>3. B!computeLine(r, k, list).segments = B!Segments(r, list)
  BY DEF B!computeLine, B!Line
<1>4. B!computeLine(r, k, list).context = B!Context(r, B!WholeMonth)
  BY DEF B!computeLine, B!Line
<1>5. \A i \in 1..n : /\ B!Segments(r, list)[i].price = list[i].price
                      /\ B!Segments(r, list)[i].context = B!Context(r, B!Window(list[i].from, list[i].to))
  BY <1>2
<1> QED  BY <1>1, <1>3, <1>4, <1>5

\* Each part of a month that is divided between assignments is a rounded share.
LEMMA PartsAreShares ==
  ASSUME BillInv, NEW r \in Rules, NEW k \in Kinds, NEW c, WorkedMonth(r, c),
         NEW list \in Seq(Assigned), NEW n \in Nat, n > 1, n = Len(list),
         \A i \in 1..n : list[i].price = list[1].price,
         r.applyBeforeAttendance => \A i \in 1..n :
             /\ B!Segments(r, list)[i].context.fixed = c.fixed
             /\ B!Segments(r, list)[i].context.percent = c.percent,
         NEW amounts, amounts = [i \in 1..n |-> B!SegmentAmount(r, k, B!Segments(r, list)[i], TRUE, c)],
         NEW Q \in Nat, Q = Shared(r, k, list[1].price, c)
  PROVE  Shares(amounts, list, n, HeldBy(DaysOf(r, k, c), B!Windows),
                Cardinality(HeldBy(WorkDays, B!Windows)), Q)
<1> DEFINE D == Cardinality(HeldBy(WorkDays, B!Windows))
           E == HeldBy(DaysOf(r, k, c), B!Windows)
<1>1. D \in Nat /\ D > 0
  BY MonthContext
<1>2. r.rounding \in Roundings
  BY RulesAreLawful DEF Lawful
<1>3. IsFiniteSet(E)
  <2>1. RowsOK /\ attended \in SUBSET (1..Month) /\ WorkDays \in SUBSET (1..Month)
    BY WorkDaysInMonth DEF BillInv, RowsOK
  <2>2. DaysOf(r, k, c) \in SUBSET (1..Month)
    BY <2>1 DEF DaysOf
  <2> QED  BY <2>2, DaysCounted
<1>4. ASSUME NEW i \in 1..n
      PROVE  amounts[i] = B!divRound(Q * Cardinality(Between(E, list[i].from, list[i].to)), D, r.rounding)
  <2>1. list[i] \in Assigned
    <3> DEFINE V == Assigned
    <3>1. list \in Seq(V)
      OBVIOUS
    <3> HIDE DEF V
    <3>2. list[i] \in V
      BY <3>1, SeqIs
    <3> QED  BY <3>2 DEF V
  <2> DEFINE a == list[i]
             seg == B!Segments(r, list)[i]
  <2>2. seg.price = a.price /\ seg.context = B!Context(r, B!Window(a.from, a.to))
    <3>1. /\ B!computeLine(r, k, list).segments = B!Segments(r, list)
          /\ \A x \in 1..n : /\ B!Segments(r, list)[x].price = list[x].price
                             /\ B!Segments(r, list)[x].context = B!Context(r, B!Window(list[x].from, list[x].to))
      BY SegmentsAre
    <3> QED  BY <3>1
  <2>3. r.applyBeforeAttendance => seg.context.fixed = c.fixed /\ seg.context.percent = c.percent
    OBVIOUS
  <2>4. Q = Shared(r, k, a.price, c)
    OBVIOUS
  <2>5. amounts[i] = B!SegmentAmount(r, k, seg, TRUE, c)
    OBVIOUS
  <2>6. a \in Assigned
    BY <2>1
  <2> HIDE DEF seg, a
  <2>7. B!SegmentAmount(r, k, seg, TRUE, c) = B!divRound(Q * Cardinality(Between(E, a.from, a.to)), D, r.rounding)
    <3> HIDE DEF D, E
    <3> QED  BY <2>2, <2>3, <2>4, <2>6, PartIs DEF D, E
  <2> QED  BY <2>5, <2>7 DEF a
<1> HIDE DEF D, E
<1>5. ASSUME NEW i \in 1..n
      PROVE  /\ amounts[i] \in Nat
             /\ D * amounts[i] < Q * Cardinality(Between(E, list[i].from, list[i].to)) + D
             /\ Q * Cardinality(Between(E, list[i].from, list[i].to)) < D * amounts[i] + D
  <2> DEFINE X == Cardinality(Between(E, list[i].from, list[i].to))
             t == amounts[i]
             m == Q * X
  <2>1. X \in Nat
    BY <1>3, BetweenCounted
  <2>2. t = B!divRound(m, D, r.rounding)
    BY <1>4
  <2> HIDE DEF X, t
  <2>3. m \in Nat
    BY <2>1
  <2> HIDE DEF m
  <2>4. t \in Nat /\ D * t < m + D /\ m < D * t + D
    BY <1>1, <1>2, <2>2, <2>3, RoundNear
  <2> QED  BY <2>4 DEF X, t, m
<1> QED  BY <1>5 DEF Shares, D, E

\* A divided month costs what the month costs, up to the rounding.
LEMMA SplitLine ==
  ASSUME BillInv, NEW r \in Rules, NEW k \in Kinds, NEW list \in Seq(Assigned),
         NEW n \in Nat, n > 1, n = Len(list), \A i \in 1..n : list[i].from <= list[i].to,
         B!Consecutive(list), NEW c, WorkedMonth(r, c),
         r.applyBeforeAttendance => \A i \in 1..n :
             /\ B!Segments(r, list)[i].context.fixed = c.fixed
             /\ B!Segments(r, list)[i].context.percent = c.percent
  PROVE  B!computeLine(r, k, list).amount - B!computeLine(r, k, B!Joined(list)).amount
           \in -(n + B!UnitOf(r))..(n + B!UnitOf(r))
<1> DEFINE D == Cardinality(HeldBy(WorkDays, B!Windows))
           E == HeldBy(DaysOf(r, k, c), B!Windows)
           X == Cardinality(E)
           Q == Shared(r, k, list[1].price, c)
           amounts == [i \in 1..n |-> B!SegmentAmount(r, k, B!Segments(r, list)[i], TRUE, c)]
           S == B!Sum(amounts)
           min == Minimal(r, k, c)
           in == B!Input(k, 0, c)
           q == B!divRound(Q * X, D, r.rounding)
<1>1. PICK j \in Assigned : /\ B!Joined(list) = <<j>> /\ j.price = list[1].price
                            /\ B!Context(r, B!Window(j.from, j.to)) = B!Context(r, B!WholeMonth)
  BY JoinedIs
<1>2. c = B!Context(r, B!WholeMonth)
  BY DEF WorkedMonth
<1> DEFINE W == Whole(r, k, j, c)
<1>3. /\ Q \in Nat /\ W \in Nat
      /\ min => W = r.minCharge
      /\ ~min => W = q
  <2>1. /\ Shared(r, k, j.price, c) \in Nat
        /\ Minimal(r, k, c) => W = r.minCharge
        /\ ~Minimal(r, k, c) => W = B!divRound(Shared(r, k, j.price, c) * X, D, r.rounding)
    BY <1>1, <1>2, WholeIs
  <2>2. W \in Nat
    BY WholeNumber
  <2>3. Shared(r, k, j.price, c) = Q
    BY <1>1
  <2> HIDE DEF W, D, X, Q
  <2> QED  BY <2>1, <2>2, <2>3
<1>4. B!computeLine(r, k, B!Joined(list)).amount = Finally(W, in, r)
  <2> DEFINE one == <<j>>
  <2>1. one \in Seq(Assigned) /\ Len(one) = 1 /\ one[1] = j
    <3> DEFINE V == Assigned
    <3>1. j \in V
      OBVIOUS
    <3> HIDE DEF V
    <3>2. one \in Seq(V) /\ Len(one) = 1 /\ one[1] = j
      BY <3>1
    <3> QED  BY <3>2 DEF V
  <2> HIDE DEF one
  <2>2. B!computeLine(r, k, one).amount = Finally(Whole(r, k, one[1], c), B!Input(k, 0, c), r)
    BY <1>2, <2>1, OneLine
  <2> QED  BY <1>1, <2>1, <2>2 DEF one
<1>5. B!computeLine(r, k, list).amount = Finally(IF min THEN r.minCharge ELSE S, in, r)
  BY <1>2, ManyLine
<1>6. D \in Nat /\ D > 0 /\ in.fixed \in Seq(Nat) /\ in.percent \in Seq(0..B!FullPercent)
  <2>1. D \in Nat /\ D > 0 /\ c.fixed \in Seq(Nat) /\ c.percent \in Seq(0..B!FullPercent)
    BY MonthContext
  <2>2. in.fixed = c.fixed /\ in.percent = c.percent
    BY DEF B!Input
  <2> QED  BY <2>1, <2>2
<1>7. DaysOf(r, k, c) \in SUBSET (1..Month)
  <2>1. RowsOK /\ attended \in SUBSET (1..Month) /\ WorkDays \in SUBSET (1..Month)
    BY WorkDaysInMonth DEF BillInv, RowsOK
  <2> QED  BY <2>1 DEF DaysOf
<1>8. IsFiniteSet(E) /\ E \subseteq Int /\ X \in Nat
  <2>1. IsFiniteSet(E) /\ E \subseteq DaysOf(r, k, c) /\ X \in Nat
    BY <1>7, DaysCounted
  <2>2. \A d \in 1..Month : d \in Int
    OBVIOUS
  <2> QED  BY <1>7, <2>1, <2>2
<1>9. Follows(list, n, E)
  BY <1>7, Following
<1>10. Shares(amounts, list, n, E, D, Q)
  <2>1. \A i \in 1..n : list[i].price = list[1].price
    BY OnePrice
  <2> QED  BY <1>3, <2>1, PartsAreShares
<1>11. DOMAIN amounts = 1..n
  OBVIOUS
<1> HIDE DEF D, E, Q, amounts, W, in, min
<1>12. /\ S \in Nat
       /\ D * S <= Q * X + D * n
       /\ Q * X <= D * S + D * n
  <2>1. n > 0
    OBVIOUS
  <2> QED  BY <1>3, <1>6, <1>8, <1>9, <1>10, <1>11, <2>1, SharesAddUp
<1> DEFINE m == Q * X
<1>13. m \in Nat
  BY <1>3, <1>8
<1>14. q \in Nat /\ D * q < m + D /\ m < D * q + D
  <2>1. r.rounding \in Roundings
    BY RulesAreLawful DEF Lawful
  <2> HIDE DEF m
  <2>2. q = B!divRound(m, D, r.rounding)
    BY DEF m
  <2> HIDE DEF q
  <2> QED  BY <1>6, <1>13, <2>1, <2>2, RoundNear
<1>15. D * S <= m + D * n /\ m <= D * S + D * n
  BY <1>12
<1> HIDE DEF m, S, q, X
<1>16. S <= q + n
  <2>1. D * (q + n) = D * q + D * n
    BY <1>6, <1>14
  <2> DEFINE e == D * q
             f == D * n
             g == D * S
             h == D * (q + n)
  <2>2. e \in Nat /\ f \in Nat /\ g \in Nat /\ h = e + f
    BY <1>6, <1>12, <1>14, <2>1
  <2>3. g <= m + f /\ m < e + D
    BY <1>14, <1>15
  <2> HIDE DEF e, f, g, h
  <2>4. g < h + D
    BY <1>6, <1>13, <2>2, <2>3
  <2> QED  BY <1>6, <1>12, <1>14, <2>4, TimesLess DEF g, h
<1>17. q <= S + n
  <2>1. D * (S + n) = D * S + D * n
    BY <1>6, <1>12
  <2> DEFINE e == D * q
             f == D * n
             g == D * S
             h == D * (S + n)
  <2>2. e \in Nat /\ f \in Nat /\ g \in Nat /\ h = g + f
    BY <1>6, <1>12, <1>14, <2>1
  <2>3. e < m + D /\ m <= g + f
    BY <1>14, <1>15
  <2> HIDE DEF e, f, g, h
  <2>4. e < h + D
    BY <1>6, <1>13, <2>2, <2>3
  <2> QED  BY <1>6, <1>12, <1>14, <2>4, TimesLess DEF e, h
<1>18. CASE min
  <2>1. r.minCharge \in Nat
    BY RulesAreLawful DEF Lawful
  <2>3. r.minCharge <= r.minCharge + n
    BY <2>1
  <2>2. Finally(r.minCharge, in, r) - Finally(r.minCharge, in, r) \in -(n + B!UnitOf(r))..(n + B!UnitOf(r))
    BY <1>6, <2>1, <2>3, FinallyClose
  <2> QED  BY <1>3, <1>4, <1>5, <1>18, <2>2
<1>19. CASE ~min
  <2>1. Finally(S, in, r) - Finally(q, in, r) \in -(n + B!UnitOf(r))..(n + B!UnitOf(r))
    BY <1>6, <1>12, <1>14, <1>16, <1>17, FinallyClose
  <2> QED  BY <1>3, <1>4, <1>5, <1>19, <2>1
<1> QED  BY <1>18, <1>19

\* The rows being in order, a divided month is billed fairly.
LEMMA SplitRight ==
  ASSUME BillInv
  PROVE  B!SplitBillsTheMonth /\ SplitBillsTheMonth
<1> DEFINE r == B!activeOn(1)
<1>1. r \in Rules
  BY RulesInForce DEF BillInv
<1> HIDE DEF r
<1>2. ASSUME NEW k \in Kinds, NEW list, list = B!activeTariffsFor(k),
             NEW split, split = B!computeLine(r, k, list),
             Len(list) > 1, B!Consecutive(list),
             r.divisor = "actual_working_days", r.respectsWindow,
             B!Cardinality(attended \cap B!Covered) =< B!WorkingDays(B!Windows),
             B!WorkingDays(B!Windows) > 0,
             r.applyBeforeAttendance => \A i \in DOMAIN list :
                 /\ split.segments[i].context.fixed = split.context.fixed
                 /\ split.segments[i].context.percent = split.context.percent
      PROVE  split.amount - B!computeLine(r, k, B!Joined(list)).amount
               \in -(Len(list) + B!UnitOf(r))..(Len(list) + B!UnitOf(r))
  <2> DEFINE n == Len(list)
             c == B!Context(r, B!WholeMonth)
  <2>1. /\ list \in Seq(Assigned) /\ n \in Nat /\ DOMAIN list = 1..n
        /\ \A i \in 1..n : list[i] \in assigned /\ list[i].from <= list[i].to
    BY <1>2, TariffsOfMonth DEF BillInv
  <2>2. n > 1
    BY <1>2
  <2>3. attended \cap B!Covered = HeldBy(attended, B!Windows)
    <3>1. \A d \in attended : d \in Int
      BY DEF BillInv, RowsOK
    <3>2. \A d : d \in B!Covered <=> d \in Int /\ \E w \in B!Windows : InWin(w, d)
      BY CovIs
    <3> QED  BY <3>1, <3>2 DEF HeldBy
  <2>4. B!WorkingDays(B!Windows) = Cardinality(HeldBy(WorkDays, B!Windows))
    BY <1>2, DividesByWindows
  <2>5. WorkedMonth(r, c)
    <3>1. B!Cardinality(attended \cap B!Covered) = Cardinality(HeldBy(attended, B!Windows))
      BY <2>3, CountedAlike
    <3> HIDE DEF c
    <3>2. c = B!Context(r, B!WholeMonth)
      BY DEF c
    <3> QED  BY <1>2, <2>4, <3>1, <3>2 DEF WorkedMonth
  <2>6. split.segments = B!Segments(r, list) /\ split.context = c
    <3>1. /\ B!computeLine(r, k, list).segments = B!Segments(r, list)
          /\ B!computeLine(r, k, list).context = B!Context(r, B!WholeMonth)
      BY <2>1, SegmentsAre
    <3> QED  BY <1>2, <3>1
  <2>7. r.applyBeforeAttendance => \A i \in 1..n :
             /\ B!Segments(r, list)[i].context.fixed = c.fixed
             /\ B!Segments(r, list)[i].context.percent = c.percent
    <3> HIDE DEF c, n
    <3> QED  BY <1>2, <2>1, <2>6
  <2>8. list \in Seq(Assigned) /\ \A i \in 1..n : list[i].from <= list[i].to
    BY <2>1
  <2>9. n \in Nat
    BY <2>1
  <2> HIDE DEF c
  <2>10. B!computeLine(r, k, list).amount - B!computeLine(r, k, B!Joined(list)).amount
           \in -(n + B!UnitOf(r))..(n + B!UnitOf(r))
    BY <1>1, <1>2, <2>2, <2>5, <2>7, <2>8, <2>9, SplitLine
  <2> QED  BY <1>2, <2>10
<1>3. B!SplitBillsTheMonth
  <2>1. ASSUME NEW k \in Kinds
        PROVE  LET list == B!activeTariffsFor(k)
                   split == B!computeLine(r, k, list)
                   whole == B!computeLine(r, k, B!Joined(list))
               IN  /\ Len(list) > 1 /\ B!Consecutive(list)
                   /\ r.divisor = "actual_working_days" /\ r.respectsWindow
                   /\ B!Cardinality(attended \cap B!Covered) =< B!WorkingDays(B!Windows)
                   /\ B!WorkingDays(B!Windows) > 0
                   /\ r.applyBeforeAttendance => \A i \in DOMAIN list :
                           /\ split.segments[i].context.fixed = split.context.fixed
                           /\ split.segments[i].context.percent = split.context.percent
                   => split.amount - whole.amount \in -(Len(list) + B!UnitOf(r))..(Len(list) + B!UnitOf(r))
    BY <1>2
  <2> QED  BY <2>1 DEF B!SplitBillsTheMonth, r
<1> QED  BY <1>3 DEF SplitBillsTheMonth

\* A month that is divided between consecutive assignments of one price is billed
\* as if it were not, up to the rounding of each part and of the line: for any
\* prices, discounts, rules, holidays and number of parts.
THEOREM SplittingIsFair == B!Spec => [](B!SplitBillsTheMonth /\ SplitBillsTheMonth)
<1>1. BillInv => B!SplitBillsTheMonth /\ SplitBillsTheMonth
  BY SplitRight
<1> QED
  BY <1>1, BillInvariance, PTL
=============================================================================
