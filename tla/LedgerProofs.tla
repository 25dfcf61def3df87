---------------------------- MODULE LedgerProofs ----------------------------
(***************************************************************************)
(* Proofs about module Ledger.                                             *)
(*                                                                         *)
(* Whatever runs at the same time: rows keep their types, no row is added  *)
(* to a closed month, and a recalculation leaves what the rule says.       *)
(*                                                                         *)
(* As long as no other write of the child runs while a payment waits for   *)
(* the child lock (~Overlap; with such writes these are false, and other   *)
(* runs show how): no charge is over-allocated and no payment overspent, a *)
(* payment is spent on the oldest charges first, and every view of the     *)
(* debt agrees.  The arguments: what a transaction holds is what it has    *)
(* read (the child lock), the loop allocates the exact share (ShareExact), *)
(* and both sides of the books have the same total (BooksBalance).         *)
(***************************************************************************)
EXTENDS Ledger, MoneyTheorems

-----------------------------------------------------------------------------
\* What one application of the child's money computes.

\* Rows a transaction may see: numbered within ids, with amount and date.
SeenRows(rows, ids) ==
  /\ DOMAIN rows \subseteq ids
  /\ \A x \in DOMAIN rows : rows[x].amount \in Nat /\ rows[x].at \in Int

SeenLedger(cs, ps, al) ==
  SeenRows(cs, ChargeId) /\ SeenRows(ps, PaymentId) /\ al \in Allocation

LEMMA LiveFinite ==
  ASSUME NEW n \in Nat, NEW rows, DOMAIN rows \subseteq 1..n
  PROVE  /\ Live(rows) \subseteq DOMAIN rows
         /\ Live(rows) \subseteq Int
         /\ IsFiniteSet(Live(rows))
         /\ IsFiniteSet(DOMAIN rows)
<1>1. Live(rows) \subseteq DOMAIN rows
  BY DEF Live
<1>2. IsFiniteSet(1..n)
  BY FS_Interval
<1>3. QED
  BY <1>1, <1>2, FS_Subset

\* The sums of the ledger's queries are natural numbers, and what is owed is
\* no more than the amount of the charge less what was allocated to it.
LEMMA QueriesType ==
  ASSUME NEW cs, NEW ps, NEW al, SeenLedger(cs, ps, al)
  PROVE  /\ \A c \in ChargeId : Allocated(ps, al, c) \in Nat
         /\ \A p \in PaymentId : Spent(cs, al, p) \in Nat
         /\ \A p \in Live(ps) : Available(cs, ps, al)[p] \in Nat
         /\ \A c \in Live(cs) :
              /\ Remaining(cs, ps, al)[c] \in Nat
              /\ Outstanding(cs, ps, al)[c] \in Nat
              /\ Outstanding(cs, ps, al)[c] <= Remaining(cs, ps, al)[c]
<1>1. MaxCharges \in Nat /\ MaxPayments \in Nat
  BY LedgerConstants
<1>2. /\ Live(cs) \subseteq DOMAIN cs /\ IsFiniteSet(Live(cs)) /\ IsFiniteSet(DOMAIN cs)
      /\ Live(ps) \subseteq DOMAIN ps /\ IsFiniteSet(Live(ps))
      /\ DOMAIN cs \subseteq ChargeId /\ DOMAIN ps \subseteq PaymentId
  BY <1>1, LiveFinite DEF SeenLedger, SeenRows, ChargeId, PaymentId
<1>3. ASSUME NEW c \in ChargeId PROVE Allocated(ps, al, c) \in Nat
  <2>1. \A p \in Live(ps) : ToCharge(al, c)[p] \in Nat
    BY <1>2 DEF SeenLedger, Allocation, ToCharge
  <2>2. QED
    BY <1>2, <2>1, TotalType DEF Allocated
<1>4. ASSUME NEW p \in PaymentId PROVE Spent(cs, al, p) \in Nat
  <2>1. \A c \in Live(cs) : al[p][c] \in Nat
    BY <1>2 DEF SeenLedger, Allocation
  <2>2. QED
    BY <1>2, <2>1, TotalType DEF Spent
<1>5. ASSUME NEW p \in Live(ps) PROVE Available(cs, ps, al)[p] \in Nat
  BY <1>2, <1>4 DEF Available, AtLeastZero, SeenLedger, SeenRows
<1>6. ASSUME NEW c \in Live(cs) PROVE Remaining(cs, ps, al)[c] \in Nat
  BY <1>2, <1>3 DEF Remaining, AtLeastZero, SeenLedger, SeenRows
<1>7. Credit(cs) \in Nat
  <2> DEFINE rows == {c \in DOMAIN cs : /\ cs[c].sign = -1
                                        /\ cs[c].source = 0
                                        /\ cs[c].kind = "adjustment"}
  <2>1. rows \subseteq DOMAIN cs /\ IsFiniteSet(rows)
    BY <1>2, FS_Subset
  <2>2. \A c \in rows : AmountOf(cs)[c] \in Nat
    BY DEF AmountOf, SeenLedger, SeenRows
  <2> HIDE DEF rows
  <2>3. Total(AmountOf(cs), rows) \in Nat
    BY <2>1, <2>2, TotalType
  <2>4. QED
    BY <2>3 DEF Credit, rows
<1>8. ASSUME NEW c \in Live(cs)
      PROVE  /\ Outstanding(cs, ps, al)[c] \in Nat
             /\ Outstanding(cs, ps, al)[c] <= Remaining(cs, ps, al)[c]
  <2> DEFINE remaining == Remaining(cs, ps, al)
             prior == Total(remaining, Older(cs, Live(cs), c))
  <2>1. Older(cs, Live(cs), c) \subseteq Live(cs) /\ IsFiniteSet(Older(cs, Live(cs), c))
    BY <1>2, FS_Subset DEF Older
  <2>2. prior \in Nat
    BY <1>6, <2>1, TotalType
  <2>3. Outstanding(cs, ps, al)[c] =
          AtLeastZero(remaining[c] - AtLeastZero(Credit(cs) - prior))
    BY DEF Outstanding
  <2> HIDE DEF remaining, prior
  <2>4. remaining[c] \in Nat
    BY <1>6 DEF remaining
  <2>5. QED
    BY <1>7, <2>2, <2>3, <2>4 DEF AtLeastZero, remaining
<1>9. QED
  BY <1>3, <1>4, <1>5, <1>6, <1>8

\* What is summed before each row of a set of live rows is a natural number,
\* and the stretches of two rows do not overlap.
LEMMA Stretches ==
  ASSUME NEW n \in Nat, NEW rows, SeenRows(rows, 1..n),
         NEW f, \A x \in Live(rows) : f[x] \in Nat
  PROVE  LET before(x) == Total(f, Older(rows, Live(rows), x))
         IN /\ \A x \in Live(rows) : before(x) \in Nat
            /\ \A x, y \in Live(rows) : x # y => \/ before(x) + f[x] <= before(y)
                                                 \/ before(y) + f[y] <= before(x)
<1> DEFINE before(x) == Total(f, Older(rows, Live(rows), x))
<1>1. /\ Live(rows) \subseteq DOMAIN rows /\ Live(rows) \subseteq Int
      /\ IsFiniteSet(Live(rows))
  BY LiveFinite DEF SeenRows
<1>2. ASSUME NEW x \in Live(rows) PROVE before(x) \in Nat
  <2>1. Older(rows, Live(rows), x) \subseteq Live(rows)
        /\ IsFiniteSet(Older(rows, Live(rows), x))
    BY <1>1, FS_Subset DEF Older
  <2>2. QED
    BY <2>1, TotalType
<1>3. ASSUME NEW x \in Live(rows), NEW y \in Live(rows), x # y
      PROVE  before(x) + f[x] <= before(y) \/ before(y) + f[y] <= before(x)
  <2>1. \A z \in Live(rows) : f[z] \in Nat /\ rows[z].at \in Int
    BY <1>1 DEF SeenRows
  <2>2. QED
    BY <1>1, <1>3, <2>1, OlderFirst
<1> HIDE DEF before
<1>4. QED
  BY <1>2, <1>3 DEF before

\* What allocateCredit applies to a charge is no more than the charge owes, and
\* what it takes from a payment no more than the payment has available.
LEMMA AppliedBounds ==
  ASSUME NEW cs, NEW ps, NEW al, SeenLedger(cs, ps, al)
  PROVE  /\ Applied(cs, ps, al) \in Allocation
         /\ \A p \in PaymentId, c \in ChargeId :
              p \notin Live(ps) \/ c \notin Live(cs) => Applied(cs, ps, al)[p][c] = 0
         /\ \A c \in Live(cs) :
              Total(ToCharge(Applied(cs, ps, al), c), Live(ps)) <= Remaining(cs, ps, al)[c]
         /\ \A p \in Live(ps) :
              Total(Applied(cs, ps, al)[p], Live(cs)) <= Available(cs, ps, al)[p]
<1> DEFINE available == Available(cs, ps, al)
           outstanding == Outstanding(cs, ps, al)
           money(p) == Total(available, Older(ps, Live(ps), p))
           debt(c) == Total(outstanding, Older(cs, Live(cs), c))
           applied == Applied(cs, ps, al)
<1>1. /\ Live(cs) \subseteq ChargeId /\ IsFiniteSet(Live(cs))
      /\ Live(ps) \subseteq PaymentId /\ IsFiniteSet(Live(ps))
  BY LedgerConstants, LiveFinite DEF SeenLedger, SeenRows, ChargeId, PaymentId
<1>2. /\ \A p \in Live(ps) : available[p] \in Nat
      /\ \A c \in Live(cs) : outstanding[c] \in Nat
                            /\ outstanding[c] <= Remaining(cs, ps, al)[c]
                            /\ Remaining(cs, ps, al)[c] \in Nat
  BY QueriesType
<1> HIDE DEF available, outstanding
<1>3. /\ \A p \in Live(ps) : money(p) \in Nat
      /\ \A p, q \in Live(ps) : p # q => \/ money(p) + available[p] <= money(q)
                                        \/ money(q) + available[q] <= money(p)
  BY <1>2, LedgerConstants, Stretches DEF SeenLedger, PaymentId
<1>4. /\ \A c \in Live(cs) : debt(c) \in Nat
      /\ \A c, d \in Live(cs) : c # d => \/ debt(c) + outstanding[c] <= debt(d)
                                        \/ debt(d) + outstanding[d] <= debt(c)
  BY <1>2, LedgerConstants, Stretches DEF SeenLedger, ChargeId
<1>5. ASSUME NEW p \in PaymentId, NEW c \in ChargeId
      PROVE  applied[p][c] = IF p \in Live(ps) /\ c \in Live(cs)
                             THEN Common(money(p), available[p], debt(c), outstanding[c])
                             ELSE 0
  BY DEF Applied, available, outstanding
<1> HIDE DEF money, debt
<1>6. applied = [p \in PaymentId |-> [c \in ChargeId |-> applied[p][c]]]
  BY DEF Applied
<1> HIDE DEF applied
<1>7. ASSUME NEW p \in PaymentId, NEW c \in ChargeId PROVE applied[p][c] \in Nat
  <2>1. CASE p \in Live(ps) /\ c \in Live(cs)
    <3>1. Common(money(p), available[p], debt(c), outstanding[c]) \in Nat
      BY <1>2, <1>3, <1>4, <2>1, CommonBounds
    <3>2. QED
      BY <1>5, <2>1, <3>1
  <2>2. CASE ~(p \in Live(ps) /\ c \in Live(cs))
    BY <1>5, <2>2
  <2>3. QED
    BY <2>1, <2>2
<1>8. applied \in Allocation
  BY <1>6, <1>7 DEF Allocation
<1>9. ASSUME NEW c \in Live(cs)
      PROVE  Total(ToCharge(applied, c), Live(ps)) <= Remaining(cs, ps, al)[c]
  <2> DEFINE before == [p \in Live(ps) |-> money(p)]
             share == ToCharge(applied, c)
  <2>1. \A p \in Live(ps) :
          /\ before[p] = money(p) /\ before[p] \in Nat /\ available[p] \in Nat
          /\ share[p] = Common(before[p], available[p], debt(c), outstanding[c])
    BY <1>1, <1>2, <1>3, <1>5 DEF ToCharge
  <2>2. \A p, q \in Live(ps) : p # q => \/ before[p] + available[p] <= before[q]
                                      \/ before[q] + available[q] <= before[p]
    BY <1>3, <2>1
  <2> HIDE DEF before, share
  <2>3. debt(c) \in Nat /\ outstanding[c] \in Nat
    BY <1>2, <1>4
  <2>4. Total(share, Live(ps)) <= outstanding[c]
    BY <1>1, <2>1, <2>2, <2>3, ShareBound
  <2>5. Total(share, Live(ps)) \in Nat
    <3>1. \A p \in Live(ps) : share[p] \in Nat
      BY <1>1, <1>7 DEF share, ToCharge
    <3>2. QED
      BY <1>1, <3>1, TotalType
  <2>6. QED
    BY <1>2, <2>3, <2>4, <2>5 DEF share
<1>10. ASSUME NEW p \in Live(ps)
       PROVE  Total(applied[p], Live(cs)) <= available[p]
  <2> DEFINE before == [c \in Live(cs) |-> debt(c)]
             share == applied[p]
  <2>1. \A c \in Live(cs) :
          /\ before[c] = debt(c) /\ before[c] \in Nat /\ outstanding[c] \in Nat
          /\ share[c] = Common(before[c], outstanding[c], money(p), available[p])
    <3>1. ASSUME NEW c \in Live(cs)
          PROVE  share[c] = Common(debt(c), outstanding[c], money(p), available[p])
      <4>1. share[c] = Common(money(p), available[p], debt(c), outstanding[c])
        BY <1>1, <1>5
      <4>2. /\ money(p) \in Nat /\ available[p] \in Nat
            /\ debt(c) \in Nat /\ outstanding[c] \in Nat
        BY <1>2, <1>3, <1>4
      <4> HIDE DEF share
      <4>3. Common(money(p), available[p], debt(c), outstanding[c])
              = Common(debt(c), outstanding[c], money(p), available[p])
        BY <4>2 DEF Common, AtLeastZero, Lesser, Greater
      <4>4. QED
        BY <4>1, <4>3 DEF share
    <3>2. QED
      BY <1>2, <1>4, <3>1
  <2>2. \A c, d \in Live(cs) : c # d => \/ before[c] + outstanding[c] <= before[d]
                                      \/ before[d] + outstanding[d] <= before[c]
    BY <1>4, <2>1
  <2> HIDE DEF before, share
  <2>3. money(p) \in Nat /\ available[p] \in Nat
    BY <1>2, <1>3
  <2>4. Total(share, Live(cs)) <= available[p]
    BY <1>1, <2>1, <2>2, <2>3, ShareBound
  <2>5. QED
    BY <2>4 DEF share
<1>11. QED
  BY <1>5, <1>8, <1>9, <1>10 DEF applied, available

-----------------------------------------------------------------------------
\* A ledger within its amounts, and what keeps it so.

\* No charge that stands is over-allocated, no payment that stands overspent.
Within(cs, ps, al) ==
  /\ \A c \in Live(cs) : Allocated(ps, al, c) <= cs[c].amount
  /\ \A p \in Live(ps) : Spent(cs, al, p) <= ps[p].amount

\* Nothing is allocated from or to a row that is not there.
NothingForMissingRows(cs, ps, al) ==
  \A p \in PaymentId, c \in ChargeId :
    p \notin DOMAIN ps \/ c \notin DOMAIN cs => al[p][c] = 0

Sound(cs, ps, al) ==
  SeenLedger(cs, ps, al) /\ Within(cs, ps, al) /\ NothingForMissingRows(cs, ps, al)

\* Rows are only ever added.
Extends(old, new) ==
  DOMAIN old \subseteq DOMAIN new /\ \A x \in DOMAIN old : new[x] = old[x]

LEMMA SeenFinite ==
  ASSUME NEW cs, NEW ps, NEW al, SeenLedger(cs, ps, al)
  PROVE  /\ Live(cs) \subseteq DOMAIN cs /\ IsFiniteSet(Live(cs)) /\ DOMAIN cs \subseteq ChargeId
         /\ Live(ps) \subseteq DOMAIN ps /\ IsFiniteSet(Live(ps)) /\ DOMAIN ps \subseteq PaymentId
BY LedgerConstants, LiveFinite DEF SeenLedger, SeenRows, ChargeId, PaymentId

\* Adding allocations adds to what each charge got and each payment gave.
LEMMA PlusAdds ==
  ASSUME NEW cs, NEW ps, NEW al, SeenLedger(cs, ps, al), NEW more \in Allocation
  PROVE  /\ SeenLedger(cs, ps, Plus(al, more))
         /\ \A c \in ChargeId :
              Allocated(ps, Plus(al, more), c)
                = Allocated(ps, al, c) + Total(ToCharge(more, c), Live(ps))
         /\ \A p \in PaymentId :
              Spent(cs, Plus(al, more), p) = Spent(cs, al, p) + Total(more[p], Live(cs))
<1>1. al \in Allocation
  BY DEF SeenLedger
<1>2. ASSUME NEW p \in PaymentId, NEW c \in ChargeId
      PROVE  /\ al[p][c] \in Nat /\ more[p][c] \in Nat
             /\ Plus(al, more)[p][c] = al[p][c] + more[p][c]
  BY <1>1 DEF Allocation, Plus
<1>3. Plus(al, more) \in Allocation
  BY <1>2 DEF Plus, Allocation
<1>4. /\ Live(cs) \subseteq ChargeId /\ IsFiniteSet(Live(cs))
      /\ Live(ps) \subseteq PaymentId /\ IsFiniteSet(Live(ps))
  BY SeenFinite
<1>5. ASSUME NEW c \in ChargeId
      PROVE  Allocated(ps, Plus(al, more), c)
               = Allocated(ps, al, c) + Total(ToCharge(more, c), Live(ps))
  <2>1. \A p \in Live(ps) :
          /\ ToCharge(al, c)[p] \in Nat /\ ToCharge(more, c)[p] \in Nat
          /\ ToCharge(Plus(al, more), c)[p] = ToCharge(al, c)[p] + ToCharge(more, c)[p]
    BY <1>2, <1>4 DEF ToCharge
  <2>2. QED
    BY <1>4, <2>1, TotalPlus DEF Allocated
<1>6. ASSUME NEW p \in PaymentId
      PROVE  Spent(cs, Plus(al, more), p) = Spent(cs, al, p) + Total(more[p], Live(cs))
  <2>1. \A c \in Live(cs) :
          /\ al[p][c] \in Nat /\ more[p][c] \in Nat
          /\ Plus(al, more)[p][c] = al[p][c] + more[p][c]
    BY <1>2, <1>4
  <2>2. QED
    BY <1>4, <2>1, TotalPlus DEF Spent
<1>7. QED
  BY <1>3, <1>5, <1>6 DEF SeenLedger

\* allocateCredit keeps the ledger it reads within its amounts.
LEMMA CreditSound ==
  ASSUME NEW cs, NEW ps, NEW al, Sound(cs, ps, al)
  PROVE  Sound(cs, ps, Plus(al, Applied(cs, ps, al)))
<1> DEFINE more == Applied(cs, ps, al)
<1>1. SeenLedger(cs, ps, al)
  BY DEF Sound
<1>2. /\ Live(cs) \subseteq DOMAIN cs /\ IsFiniteSet(Live(cs)) /\ DOMAIN cs \subseteq ChargeId
      /\ Live(ps) \subseteq DOMAIN ps /\ IsFiniteSet(Live(ps)) /\ DOMAIN ps \subseteq PaymentId
  BY <1>1, SeenFinite
<1>3. /\ more \in Allocation
      /\ \A p \in PaymentId, c \in ChargeId :
           p \notin Live(ps) \/ c \notin Live(cs) => more[p][c] = 0
      /\ \A c \in Live(cs) : Total(ToCharge(more, c), Live(ps)) <= Remaining(cs, ps, al)[c]
      /\ \A p \in Live(ps) : Total(more[p], Live(cs)) <= Available(cs, ps, al)[p]
  BY <1>1, AppliedBounds
<1> HIDE DEF more
<1>4. ASSUME NEW c \in Live(cs)
      PROVE  Allocated(ps, Plus(al, more), c) <= cs[c].amount
  <2>1. Remaining(cs, ps, al)[c] = AtLeastZero(cs[c].amount - Allocated(ps, al, c))
    BY DEF Remaining
  <2>2. /\ cs[c].amount \in Nat /\ Allocated(ps, al, c) \in Nat
        /\ Allocated(ps, al, c) <= cs[c].amount
    BY <1>1, <1>2, QueriesType DEF Sound, Within, SeenLedger, SeenRows
  <2>3. Total(ToCharge(more, c), Live(ps)) \in Nat
    <3>1. \A p \in Live(ps) : ToCharge(more, c)[p] \in Nat
      BY <1>2, <1>3 DEF ToCharge, Allocation
    <3>2. QED
      BY <1>2, <3>1, TotalType
  <2>4. Allocated(ps, Plus(al, more), c)
          = Allocated(ps, al, c) + Total(ToCharge(more, c), Live(ps))
    BY <1>1, <1>2, <1>3, PlusAdds
  <2>5. Total(ToCharge(more, c), Live(ps)) <= AtLeastZero(cs[c].amount - Allocated(ps, al, c))
    BY <1>3, <2>1
  <2>6. QED
    BY <2>2, <2>3, <2>4, <2>5 DEF AtLeastZero
<1>5. ASSUME NEW p \in Live(ps)
      PROVE  Spent(cs, Plus(al, more), p) <= ps[p].amount
  <2>1. Available(cs, ps, al)[p] = AtLeastZero(ps[p].amount - Spent(cs, al, p))
    BY DEF Available
  <2>2. /\ ps[p].amount \in Nat /\ Spent(cs, al, p) \in Nat
        /\ Spent(cs, al, p) <= ps[p].amount
    BY <1>1, <1>2, QueriesType DEF Sound, Within, SeenLedger, SeenRows
  <2>3. Total(more[p], Live(cs)) \in Nat
    <3>1. \A c \in Live(cs) : more[p][c] \in Nat
      BY <1>2, <1>3 DEF Allocation
    <3>2. QED
      BY <1>2, <3>1, TotalType
  <2>4. Spent(cs, Plus(al, more), p) = Spent(cs, al, p) + Total(more[p], Live(cs))
    BY <1>1, <1>2, <1>3, PlusAdds
  <2>5. Total(more[p], Live(cs)) <= AtLeastZero(ps[p].amount - Spent(cs, al, p))
    BY <1>3, <2>1
  <2>6. QED
    BY <2>2, <2>3, <2>4, <2>5 DEF AtLeastZero
<1>6. NothingForMissingRows(cs, ps, Plus(al, more))
  <2>1. ASSUME NEW p \in PaymentId, NEW c \in ChargeId, p \notin DOMAIN ps \/ c \notin DOMAIN cs
        PROVE  Plus(al, more)[p][c] = 0
    <3>1. al[p][c] = 0 /\ more[p][c] = 0
      BY <1>2, <1>3, <2>1 DEF Sound, NothingForMissingRows
    <3>2. QED
      BY <3>1 DEF Plus
  <2>2. QED
    BY <2>1 DEF NothingForMissingRows
<1>7. SeenLedger(cs, ps, Plus(al, more))
  BY <1>1, <1>3, PlusAdds
<1>8. QED
  BY <1>4, <1>5, <1>6, <1>7 DEF Sound, Within, more

\* Rows added to the tables take nothing from anyone: a row that stands after
\* stood before, or is new.
LEMMA GrowSound ==
  ASSUME NEW cs, NEW ps, NEW al, Sound(cs, ps, al),
         NEW cs2, NEW ps2, SeenLedger(cs2, ps2, al), Extends(cs, cs2), Extends(ps, ps2)
  PROVE  Sound(cs2, ps2, al)
<1>1. SeenLedger(cs, ps, al)
  BY DEF Sound
<1>2. /\ Live(cs) \subseteq DOMAIN cs /\ IsFiniteSet(Live(cs)) /\ DOMAIN cs \subseteq ChargeId
      /\ Live(ps) \subseteq DOMAIN ps /\ IsFiniteSet(Live(ps)) /\ DOMAIN ps \subseteq PaymentId
  BY <1>1, SeenFinite
<1>3. /\ Live(cs2) \subseteq DOMAIN cs2 /\ IsFiniteSet(Live(cs2)) /\ DOMAIN cs2 \subseteq ChargeId
      /\ Live(ps2) \subseteq DOMAIN ps2 /\ IsFiniteSet(Live(ps2)) /\ DOMAIN ps2 \subseteq PaymentId
  BY SeenFinite
<1>4. ASSUME NEW old, NEW new, Extends(old, new), NEW x \in Live(new), x \in DOMAIN old
      PROVE  x \in Live(old)
  BY <1>4 DEF Live, IsReversed, Extends
<1>5. \A p \in PaymentId, c \in ChargeId :
        al[p][c] \in Nat /\ (p \notin DOMAIN ps \/ c \notin DOMAIN cs => al[p][c] = 0)
  BY <1>1 DEF Sound, NothingForMissingRows, SeenLedger, Allocation
<1>6. ASSUME NEW c \in Live(cs2)
      PROVE  Allocated(ps2, al, c) <= cs2[c].amount
  <2>1. cs2[c].amount \in Nat
    BY <1>3 DEF SeenLedger, SeenRows
  <2>2. CASE c \in DOMAIN cs
    <3>1. c \in Live(cs) /\ cs2[c] = cs[c]
      BY <1>4, <2>2 DEF Extends
    <3>2. \A p \in Live(ps) : ToCharge(al, c)[p] \in Nat
      BY <1>2, <1>3, <1>5 DEF ToCharge
    <3>3. \A p \in Live(ps2) \ Live(ps) : ToCharge(al, c)[p] = 0
      BY <1>3, <1>4, <1>5 DEF ToCharge
    <3>4. Allocated(ps2, al, c) <= Allocated(ps, al, c)
      BY <1>2, <3>2, <3>3, TotalIgnoresZero DEF Allocated
    <3>5. Allocated(ps, al, c) <= cs[c].amount
      BY <3>1 DEF Sound, Within
    <3>6. Allocated(ps2, al, c) \in Nat /\ Allocated(ps, al, c) \in Nat
      BY <1>1, <1>3, QueriesType
    <3>7. QED
      BY <2>1, <3>1, <3>4, <3>5, <3>6
  <2>3. CASE c \notin DOMAIN cs
    <3>1. \A p \in Live(ps2) : ToCharge(al, c)[p] = 0
      BY <1>3, <1>5, <2>3 DEF ToCharge
    <3>2. Allocated(ps2, al, c) = 0
      BY <3>1, TotalZero DEF Allocated
    <3>3. QED
      BY <2>1, <3>2
  <2>4. QED
    BY <2>2, <2>3
<1>7. ASSUME NEW p \in Live(ps2)
      PROVE  Spent(cs2, al, p) <= ps2[p].amount
  <2>1. ps2[p].amount \in Nat
    BY <1>3 DEF SeenLedger, SeenRows
  <2>2. CASE p \in DOMAIN ps
    <3>1. p \in Live(ps) /\ ps2[p] = ps[p]
      BY <1>4, <2>2 DEF Extends
    <3>2. \A c \in Live(cs) : al[p][c] \in Nat
      BY <1>2, <1>3, <1>5
    <3>3. \A c \in Live(cs2) \ Live(cs) : al[p][c] = 0
      BY <1>3, <1>4, <1>5
    <3>4. Spent(cs2, al, p) <= Spent(cs, al, p)
      BY <1>2, <3>2, <3>3, TotalIgnoresZero DEF Spent
    <3>5. Spent(cs, al, p) <= ps[p].amount
      BY <3>1 DEF Sound, Within
    <3>6. Spent(cs2, al, p) \in Nat /\ Spent(cs, al, p) \in Nat
      BY <1>1, <1>3, QueriesType
    <3>7. QED
      BY <2>1, <3>1, <3>4, <3>5, <3>6
  <2>3. CASE p \notin DOMAIN ps
    <3>1. \A c \in Live(cs2) : al[p][c] = 0
      BY <1>3, <1>5, <2>3
    <3>2. Spent(cs2, al, p) = 0
      BY <3>1, TotalZero DEF Spent
    <3>3. QED
      BY <2>1, <3>2
  <2>4. QED
    BY <2>2, <2>3
<1>8. NothingForMissingRows(cs2, ps2, al)
  BY DEF Sound, NothingForMissingRows, Extends
<1>9. QED
  BY <1>6, <1>7, <1>8 DEF Sound, Within

-----------------------------------------------------------------------------
\* Types.

\* A snapshot never holds rows that the tables do not have.
SnapshotsBehind ==
  \A k \in Clerks : tx[k] # NoTx => /\ tx[k].charges <= Len(charges)
                                   /\ tx[k].payments <= Len(payments)

TypeInv == TypeOK /\ SnapshotsBehind

LEMMA TablesSeen ==
  ASSUME NEW cs \in Seq(ChargeRow), Len(cs) <= MaxCharges,
         NEW ps \in Seq(PaymentRow), Len(ps) <= MaxPayments,
         NEW al \in Allocation
  PROVE  SeenLedger(cs, ps, al)
<1>1. /\ DOMAIN cs = 1..Len(cs) /\ Len(cs) \in Nat /\ \A c \in DOMAIN cs : cs[c] \in ChargeRow
      /\ DOMAIN ps = 1..Len(ps) /\ Len(ps) \in Nat /\ \A p \in DOMAIN ps : ps[p] \in PaymentRow
  OBVIOUS
<1>2. /\ \A row \in ChargeRow : row.amount \in Nat /\ row.at \in Int
      /\ \A row \in PaymentRow : row.amount \in Nat /\ row.at \in Int
  BY LedgerConstants DEF ChargeRow, PaymentRow
<1>3. DOMAIN cs \subseteq ChargeId /\ DOMAIN ps \subseteq PaymentId
  BY <1>1, LedgerConstants DEF ChargeId, PaymentId
<1>4. QED
  BY <1>1, <1>2, <1>3 DEF SeenLedger, SeenRows

LEMMA SumOfRows ==
  ASSUME TypeOK, NEW S \in SUBSET DOMAIN charges
  PROVE  Total(AmountOf(charges), S) \in Nat
<1>1. \A x \in DOMAIN charges : charges[x].amount \in Nat
  <2>1. \A x \in DOMAIN charges : charges[x] \in ChargeRow
    BY DEF TypeOK
  <2>2. QED
    BY <2>1 DEF ChargeRow
<1>2. IsFiniteSet(S)
  <2>1. DOMAIN charges = 1..Len(charges) /\ Len(charges) \in Nat
    BY DEF TypeOK
  <2>2. IsFiniteSet(1..Len(charges))
    BY <2>1, FS_Interval
  <2>3. QED
    BY <2>1, <2>2, FS_Subset
<1>3. \A x \in S : AmountOf(charges)[x] \in Nat
  BY <1>1 DEF AmountOf
<1>4. QED
  BY <1>2, <1>3, TotalType

\* The steps that end in a call of allocateCredit after inserting charge rows.
WritesCharges ==
  \/ \E amount \in Amounts, period \in Periods :
       \/ createManual(amount, period)
       \/ \E sign \in {1, -1} : adjustment(sign, amount, period)
       \/ chargeTariff(amount, period)
       \/ \E adjustNext \in BOOLEAN : recalculate(period, amount, adjustNext)
  \/ \E c \in ChargeId : reverse(c)

LEMMA NewChargeType ==
  ASSUME NEW kind \in Kinds, NEW sign \in {1, -1}, NEW amount \in Nat, NEW period \in Periods,
         NEW at \in Times, NEW source \in Nat, NEW adjusts \in Nat
  PROVE  NewCharge(kind, sign, amount, period, at, source, adjusts) \in ChargeRow
BY DEF NewCharge, ChargeRow

\* They add rows of the right type, with no payment waiting.
LEMMA ChargeRowsAdded ==
  ASSUME TypeOK, WritesCharges
  PROVE  /\ Uncontended
         /\ \E rows \in Seq(ChargeRow) : Extends(charges, rows) /\ InsertCharges(rows)
<1>1. Amounts \subseteq Nat /\ Now \in Times /\ 0 \in Nat
  BY LedgerConstants
<1>2. /\ charges \in Seq(ChargeRow) /\ Len(charges) \in Nat
      /\ DOMAIN charges = 1..Len(charges)
      /\ \A c \in DOMAIN charges : charges[c] \in ChargeRow /\ c \in Nat
  BY DEF TypeOK
<1>3. ASSUME NEW old \in Seq(ChargeRow), NEW row \in ChargeRow
      PROVE  Append(old, row) \in Seq(ChargeRow) /\ Extends(old, Append(old, row))
  BY DEF Extends
<1>4. ASSUME NEW a, NEW b, NEW c, Extends(a, b), Extends(b, c) PROVE Extends(a, c)
  BY <1>4 DEF Extends
<1>5. ASSUME NEW amount \in Amounts, NEW period \in Periods, createManual(amount, period)
      PROVE  /\ Uncontended
             /\ \E rows \in Seq(ChargeRow) : Extends(charges, rows) /\ InsertCharges(rows)
  <2>1. NewCharge("manual", 1, amount, period, Now, 0, 0) \in ChargeRow
    BY <1>1, NewChargeType DEF Kinds
  <2>2. QED
    BY <1>2, <1>3, <1>5, <2>1 DEF createManual
<1>6. ASSUME NEW amount \in Amounts, NEW period \in Periods, NEW sign \in {1, -1},
             adjustment(sign, amount, period)
      PROVE  /\ Uncontended
             /\ \E rows \in Seq(ChargeRow) : Extends(charges, rows) /\ InsertCharges(rows)
  <2>1. NewCharge("adjustment", sign, amount, period, Now, 0, 0) \in ChargeRow
    BY <1>1, NewChargeType DEF Kinds
  <2>2. QED
    BY <1>2, <1>3, <1>6, <2>1 DEF adjustment
<1>7. ASSUME NEW amount \in Amounts, NEW period \in Periods, chargeTariff(amount, period)
      PROVE  /\ Uncontended
             /\ \E rows \in Seq(ChargeRow) : Extends(charges, rows) /\ InsertCharges(rows)
  <2>1. NewCharge("tariff", 1, amount, period, Now, 0, 0) \in ChargeRow
    BY <1>1, NewChargeType DEF Kinds
  <2>2. QED
    BY <1>2, <1>3, <1>7, <2>1 DEF chargeTariff
<1>8. ASSUME NEW amount \in Amounts, NEW period \in Periods, NEW adjustNext \in BOOLEAN,
             recalculate(period, amount, adjustNext)
      PROVE  /\ Uncontended
             /\ \E rows \in Seq(ChargeRow) : Extends(charges, rows) /\ InsertCharges(rows)
  <2>1. PICK c \in TariffCharges(period) :
          \/ reverseAndReplace(c, amount)
          \/ adjustNextPeriod(c, amount)
    BY <1>8 DEF recalculate
  <2>2. c \in DOMAIN charges /\ c \in Nat
    BY <1>2 DEF TariffCharges, Live
  <2>3. charges[c].amount \in Nat /\ charges[c].period \in Periods
    BY <1>2, <2>2 DEF ChargeRow
  <2>4. Uncontended
    BY <1>8 DEF recalculate
  <2>5. CASE reverseAndReplace(c, amount)
    <3> DEFINE old == NewCharge("tariff", -1, charges[c].amount, charges[c].period, Now, c, 0)
               new == NewCharge("tariff", 1, amount, charges[c].period, Now, 0, 0)
    <3>1. old \in ChargeRow
      BY <1>1, <2>2, <2>3, NewChargeType DEF Kinds
    <3>2. new \in ChargeRow
      BY <1>1, <2>3, NewChargeType DEF Kinds
    <3>3. InsertCharges(Append(Append(charges, old), new))
      BY <2>5 DEF reverseAndReplace
    <3> HIDE DEF old, new
    <3>4. /\ Append(charges, old) \in Seq(ChargeRow)
          /\ Append(Append(charges, old), new) \in Seq(ChargeRow)
          /\ Extends(charges, Append(Append(charges, old), new))
      BY <1>2, <1>3, <1>4, <3>1, <3>2
    <3>5. QED
      BY <2>4, <3>3, <3>4
  <2>6. CASE adjustNextPeriod(c, amount)
    <3> DEFINE delta == amount - effectiveAmount(c)
               row(next) == NewCharge("adjustment", IF delta < 0 THEN -1 ELSE 1,
                                      IF delta < 0 THEN -delta ELSE delta, next, Now, 0, c)
    <3>1. PICK next \in Periods : InsertCharges(Append(charges, row(next)))
      BY <2>6 DEF adjustNextPeriod
    <3>2. effectiveAmount(c) \in Int
      <4> DEFINE signed(s) == {r \in Corrections(c) : charges[r].sign = s}
      <4>1. signed(1) \subseteq DOMAIN charges /\ signed(-1) \subseteq DOMAIN charges
        BY DEF Corrections
      <4> HIDE DEF signed
      <4>2. Total(AmountOf(charges), signed(1)) \in Nat /\ Total(AmountOf(charges), signed(-1)) \in Nat
        BY <4>1, SumOfRows
      <4>3. effectiveAmount(c) = charges[c].amount + Total(AmountOf(charges), signed(1))
                                                   - Total(AmountOf(charges), signed(-1))
        BY DEF effectiveAmount, signed
      <4>4. QED
        BY <2>3, <4>2, <4>3
    <3>3. delta \in Int
      BY <1>1, <3>2
    <3> HIDE DEF delta
    <3>4. row(next) \in ChargeRow
      BY <1>1, <2>2, <3>3 DEF NewCharge, ChargeRow, Kinds
    <3> HIDE DEF row
    <3>5. QED
      BY <1>2, <1>3, <2>4, <3>1, <3>4
  <2>7. QED
    BY <2>1, <2>5, <2>6
<1>9. ASSUME NEW c \in ChargeId, reverse(c)
      PROVE  /\ Uncontended
             /\ \E rows \in Seq(ChargeRow) : Extends(charges, rows) /\ InsertCharges(rows)
  <2>1. ReversalOf(c) \in ChargeRow
    <3>1. charges[c] \in ChargeRow /\ c \in Nat
      BY <1>2, <1>9 DEF reverse
    <3>2. QED
      BY <1>1, <3>1 DEF ReversalOf, ChargeRow
  <2>2. QED
    BY <1>2, <1>3, <1>9, <2>1 DEF reverse
<1>10. QED
  BY <1>5, <1>6, <1>7, <1>8, <1>9 DEF WritesCharges

\* What a payment transaction sees when it commits, its new payment included.
LEMMA SnapshotSeen ==
  ASSUME TypeInv, NEW k \in Clerks, tx[k] # NoTx, Len(payments) < MaxPayments,
         NEW amount \in Nat, NEW at \in Times
  PROVE  SeenLedger(SeenCharges(k), SeenPayments(k, amount, at), tx[k].alloc)
<1>1. tx[k] \in Snapshot
  BY DEF TypeInv, TypeOK
<1>2. /\ tx[k].alloc \in Allocation
      /\ tx[k].charges \in Nat /\ tx[k].charges <= Len(charges)
      /\ tx[k].payments \in Nat /\ tx[k].payments <= Len(payments)
  BY <1>1, LedgerConstants DEF Snapshot, TypeInv, SnapshotsBehind
<1>3. /\ Len(charges) \in Nat /\ Len(charges) <= MaxCharges
      /\ Len(payments) \in Nat
      /\ SeenLedger(charges, payments, alloc)
      /\ DOMAIN charges = 1..Len(charges) /\ DOMAIN payments = 1..Len(payments)
  BY TablesSeen DEF TypeInv, TypeOK
<1>4. SeenRows(SeenCharges(k), ChargeId)
  <2>1. DOMAIN SeenCharges(k) = 1..tx[k].charges
    BY DEF SeenCharges
  <2>2. 1..tx[k].charges \subseteq DOMAIN charges
    BY <1>2, <1>3
  <2>3. \A c \in 1..tx[k].charges : SeenCharges(k)[c] = charges[c]
    BY DEF SeenCharges
  <2>4. QED
    BY <1>3, <2>1, <2>2, <2>3 DEF SeenLedger, SeenRows
<1>5. SeenRows(SeenPayments(k, amount, at), PaymentId)
  <2> DEFINE ps == SeenPayments(k, amount, at)
  <2>1. DOMAIN ps = (1..tx[k].payments) \cup {Len(payments) + 1}
    BY DEF SeenPayments
  <2>2. DOMAIN ps \subseteq PaymentId
    BY <1>2, <1>3, <2>1, LedgerConstants DEF PaymentId
  <2>3. ASSUME NEW p \in DOMAIN ps PROVE ps[p].amount \in Nat /\ ps[p].at \in Int
    <3>1. CASE p <= tx[k].payments
      <4>1. p \in DOMAIN payments /\ ps[p] = payments[p]
        BY <1>2, <1>3, <2>1, <3>1 DEF SeenPayments
      <4>2. QED
        BY <1>3, <4>1 DEF SeenLedger, SeenRows
    <3>2. CASE ~(p <= tx[k].payments)
      <4>1. ps[p] = NewPayment(amount, at)
        BY <1>2, <1>3, <2>1, <3>2 DEF SeenPayments
      <4>2. QED
        BY <4>1, LedgerConstants DEF NewPayment
    <3>3. QED
      BY <3>1, <3>2
  <2>4. QED
    BY <2>2, <2>3 DEF SeenRows
<1>6. QED
  BY <1>2, <1>4, <1>5 DEF SeenLedger

\* Allocations chosen by hand are natural numbers.
LEMMA ChosenType ==
  ASSUME NEW picks \in ManualPicks, NEW i \in 0..Len(picks), NEW new
  PROVE  Chosen(picks, i, new) \in Allocation
<1>1. /\ picks \in Seq(Pick)
      /\ Len(picks) \in Nat /\ 1..i \subseteq DOMAIN picks
  BY LedgerConstants
<1>2. \A j \in DOMAIN picks : AmountOf(picks)[j] \in Nat
  <2>1. \A j \in DOMAIN picks : picks[j] \in Pick
    BY <1>1
  <2>2. QED
    BY <2>1 DEF AmountOf, Pick
<1>3. ASSUME NEW c PROVE Total(AmountOf(picks), {j \in 1..i : picks[j].charge = c}) \in Nat
  <2> DEFINE S == {j \in 1..i : picks[j].charge = c}
  <2>1. IsFiniteSet(1..i) /\ S \subseteq 1..i
    BY FS_Interval
  <2>2. IsFiniteSet(S)
    BY <2>1, FS_Subset
  <2>3. \A j \in S : AmountOf(picks)[j] \in Nat
    BY <1>1, <1>2
  <2> HIDE DEF S
  <2>4. Total(AmountOf(picks), S) \in Nat
    BY <2>2, <2>3, TotalType
  <2>5. QED
    BY <2>4 DEF S
<1>4. QED
  BY <1>3 DEF Chosen, Allocation

LEMMA PlusType ==
  ASSUME NEW al \in Allocation, NEW more \in Allocation
  PROVE  Plus(al, more) \in Allocation
<1>1. \A p \in PaymentId, c \in ChargeId : al[p][c] \in Nat /\ more[p][c] \in Nat
  BY DEF Allocation
<1>2. QED
  BY <1>1 DEF Plus, Allocation

LEMMA TypeInit == Init => TypeInv
<1> SUFFICES ASSUME Init PROVE TypeInv
  OBVIOUS
<1>1. alloc \in Allocation
  BY DEF Init, Allocation
<1>2. /\ charges \in Seq(ChargeRow) /\ Len(charges) <= MaxCharges
      /\ payments \in Seq(PaymentRow) /\ Len(payments) <= MaxPayments
  BY LedgerConstants DEF Init
<1>3. tx \in [Clerks -> Snapshot \cup {NoTx}] /\ \A k \in Clerks : tx[k] = NoTx
  BY DEF Init
<1>4. QED
  BY <1>1, <1>2, <1>3 DEF Init, TypeInv, TypeOK, SnapshotsBehind

\* Rows added to the tables and new allocations of the right type keep the
\* types, when the snapshots stay as they are or end.
LEMMA TypeKept ==
  ASSUME TypeInv,
         charges' \in Seq(ChargeRow), Len(charges') <= MaxCharges, Extends(charges, charges'),
         payments' \in Seq(PaymentRow), Len(payments') <= MaxPayments,
         Extends(payments, payments'),
         alloc' \in Allocation, closed' \subseteq Periods,
         \/ tx' = tx
         \/ \E k \in Clerks : tx' = [tx EXCEPT ![k] = NoTx]
  PROVE  TypeInv'
<1>1. tx' \in [Clerks -> Snapshot \cup {NoTx}]
  BY DEF TypeInv, TypeOK
<1>2. Len(charges) <= Len(charges') /\ Len(payments) <= Len(payments')
  <2>1. /\ Len(charges) \in Nat /\ Len(charges') \in Nat
        /\ DOMAIN charges = 1..Len(charges) /\ DOMAIN charges' = 1..Len(charges')
        /\ Len(payments) \in Nat /\ Len(payments') \in Nat
        /\ DOMAIN payments = 1..Len(payments) /\ DOMAIN payments' = 1..Len(payments')
    BY DEF TypeInv, TypeOK
  <2>2. \A m, n \in Nat : 1..m \subseteq 1..n => m <= n
    OBVIOUS
  <2>3. QED
    BY <2>1, <2>2 DEF Extends
<1>3. ASSUME NEW k \in Clerks, tx'[k] # NoTx
      PROVE  /\ tx'[k].charges <= Len(charges')
             /\ tx'[k].payments <= Len(payments')
  <2>1. tx'[k] = tx[k] /\ tx[k] \in Snapshot
    BY <1>3 DEF TypeInv, TypeOK
  <2>2. /\ tx[k].charges \in Int /\ tx[k].charges <= Len(charges)
        /\ tx[k].payments \in Int /\ tx[k].payments <= Len(payments)
    BY <1>3, <2>1, LedgerConstants DEF Snapshot, TypeInv, SnapshotsBehind
  <2>3. /\ Len(charges) \in Nat /\ Len(charges') \in Nat
        /\ Len(payments) \in Nat /\ Len(payments') \in Nat
    BY DEF TypeInv, TypeOK
  <2>4. QED
    BY <1>2, <2>1, <2>2, <2>3
<1>4. QED
  BY <1>1, <1>3 DEF TypeInv, TypeOK, SnapshotsBehind

LEMMA RowAppended ==
  ASSUME NEW Row, NEW old \in Seq(Row), NEW row \in Row
  PROVE  /\ Append(old, row) \in Seq(Row) /\ Extends(old, Append(old, row))
         /\ Len(Append(old, row)) = Len(old) + 1 /\ Len(old) \in Nat
BY DEF Extends

\* Every step keeps the types.
LEMMA TypeStep == TypeInv /\ [Next]_vars => TypeInv'
<1> SUFFICES ASSUME TypeInv, [Next]_vars PROVE TypeInv'
  OBVIOUS
<1>1. /\ TypeOK
      /\ charges \in Seq(ChargeRow) /\ Len(charges) <= MaxCharges /\ Len(charges) \in Nat
      /\ payments \in Seq(PaymentRow) /\ Len(payments) <= MaxPayments /\ Len(payments) \in Nat
      /\ alloc \in Allocation /\ closed \subseteq Periods
      /\ Extends(charges, charges) /\ Extends(payments, payments)
      /\ SeenLedger(charges, payments, alloc)
  BY TablesSeen DEF TypeInv, TypeOK, Extends
<1>2. Amounts \subseteq Nat /\ MaxCharges \in Nat /\ MaxPayments \in Nat /\ Now \in Times
  BY LedgerConstants
<1>3. CASE WritesCharges
  <2>1. PICK rows \in Seq(ChargeRow) : Extends(charges, rows) /\ InsertCharges(rows)
    BY <1>1, <1>3, ChargeRowsAdded
  <2>2. Len(rows) <= MaxCharges
    BY <2>1 DEF InsertCharges
  <2>3. allocateCredit(rows, payments, alloc) \in Allocation
    <3>1. SeenLedger(rows, payments, alloc)
      BY <1>1, <2>2, TablesSeen
    <3>2. QED
      BY <1>1, <3>1, AppliedBounds, PlusType DEF allocateCredit
  <2>4. QED
    BY <1>1, <2>1, <2>2, <2>3, TypeKept DEF InsertCharges
<1>4. ASSUME NEW amount \in Amounts, NEW period \in Periods, NEW at \in Times,
             commitOpeningBalance(amount, period, at)
      PROVE  TypeInv'
  <2>1. NewCharge("adjustment", 1, amount, period, at, 0, 0) \in ChargeRow
    BY <1>2, NewChargeType DEF Kinds
  <2>2. QED
    BY <1>1, <1>2, <1>4, <2>1, RowAppended, TypeKept DEF commitOpeningBalance
<1>5. ASSUME NEW p \in PaymentId, cancel(p)
      PROVE  TypeInv'
  <2> DEFINE row == [payments[p] EXCEPT !.sign = -1, !.source = p, !.at = Now]
             rows == Append(payments, row)
  <2>1. row \in PaymentRow
    <3>1. payments[p] \in PaymentRow /\ p \in Nat
      BY <1>1, <1>5 DEF cancel
    <3>2. QED
      BY <1>2, <3>1 DEF PaymentRow
  <2>2. /\ payments' = rows /\ alloc' = allocateCredit(charges, rows, alloc)
        /\ UNCHANGED <<charges, closed, tx>> /\ Len(payments) < MaxPayments
    BY <1>5 DEF cancel
  <2> HIDE DEF row
  <2>3. /\ rows \in Seq(PaymentRow) /\ Extends(payments, rows)
        /\ Len(rows) <= MaxPayments
    BY <1>1, <1>2, <2>1, <2>2, RowAppended
  <2> HIDE DEF rows
  <2>4. allocateCredit(charges, rows, alloc) \in Allocation
    <3>1. SeenLedger(charges, rows, alloc)
      BY <1>1, <2>3, TablesSeen
    <3>2. QED
      BY <1>1, <3>1, AppliedBounds, PlusType DEF allocateCredit
  <2>5. QED
    BY <1>1, <2>2, <2>3, <2>4, TypeKept
<1>6. ASSUME NEW k \in Clerks, BeginPayment(k)
      PROVE  TypeInv'
  <2> DEFINE snapshot == [charges |-> Len(charges), payments |-> Len(payments), alloc |-> alloc]
  <2>1. snapshot \in Snapshot
    BY <1>1, <1>2 DEF Snapshot
  <2>2. tx' = [tx EXCEPT ![k] = snapshot] /\ UNCHANGED <<charges, payments, alloc, closed>>
    BY <1>6 DEF BeginPayment
  <2>3. snapshot.charges = Len(charges) /\ snapshot.payments = Len(payments)
    OBVIOUS
  <2> HIDE DEF snapshot
  <2>4. TypeOK'
    BY <2>1, <2>2 DEF TypeInv, TypeOK
  <2>5. ASSUME NEW j \in Clerks, tx'[j] # NoTx
        PROVE  tx'[j].charges <= Len(charges) /\ tx'[j].payments <= Len(payments)
    <3>1. CASE j = k
      <4>1. tx'[j] = snapshot
        BY <2>2, <3>1 DEF TypeInv, TypeOK
      <4>2. QED
        BY <1>1, <2>3, <4>1
    <3>2. CASE j # k
      <4>1. tx'[j] = tx[j]
        BY <2>2, <3>2 DEF TypeInv, TypeOK
      <4>2. QED
        BY <2>5, <4>1 DEF TypeInv, SnapshotsBehind
    <3>3. QED
      BY <3>1, <3>2
  <2>6. QED
    BY <2>2, <2>4, <2>5 DEF TypeInv, SnapshotsBehind
<1>7. ASSUME NEW k \in Clerks, AbortPayment(k)
      PROVE  TypeInv'
  BY <1>1, <1>7, TypeKept DEF AbortPayment
<1>8. ASSUME NEW k \in Clerks, NEW amount \in Amounts, NEW at \in Times, NEW more \in Allocation,
             MayCommit(k, amount), PutPayment(k, amount, at, more)
      PROVE  TypeInv'
  <2>1. NewPayment(amount, at) \in PaymentRow
    BY <1>2 DEF NewPayment, PaymentRow
  <2>2. Len(payments) < MaxPayments
    BY <1>8 DEF MayCommit
  <2>3. Plus(alloc, more) \in Allocation
    BY <1>1, PlusType
  <2> DEFINE rows == Append(payments, NewPayment(amount, at))
  <2>4. /\ rows \in Seq(PaymentRow) /\ Extends(payments, rows)
        /\ Len(rows) <= MaxPayments
    BY <1>1, <1>2, <2>1, <2>2, RowAppended
  <2>5. /\ payments' = rows /\ alloc' = Plus(alloc, more)
        /\ tx' = [tx EXCEPT ![k] = NoTx]
        /\ UNCHANGED <<charges, closed>>
    BY <1>8 DEF PutPayment
  <2> HIDE DEF rows
  <2>6. QED
    BY <1>1, <2>3, <2>4, <2>5, TypeKept
<1>9. ASSUME NEW k \in Clerks, NEW amount \in Amounts, NEW at \in Times,
             CommitPayment(k, amount, at)
      PROVE  TypeInv'
  <2>1. MayCommit(k, amount) /\ tx[k] # NoTx /\ Len(payments) < MaxPayments
    BY <1>9 DEF CommitPayment, MayCommit
  <2>2. Applied(SeenCharges(k), SeenPayments(k, amount, at), tx[k].alloc) \in Allocation
    BY <1>2, <2>1, SnapshotSeen, AppliedBounds
  <2>3. QED
    BY <1>8, <1>9, <2>1, <2>2 DEF CommitPayment
<1>10. ASSUME NEW k \in Clerks, NEW amount \in Amounts, NEW at \in Times,
              NEW picks \in ManualPicks, CommitManual(k, amount, at, picks)
       PROVE  TypeInv'
  <2>1. Chosen(picks, Len(picks), Len(payments) + 1) \in Allocation
    <3>1. Len(picks) \in 0..Len(picks)
      BY LedgerConstants
    <3>2. QED
      BY <3>1, ChosenType
  <2>2. /\ MayCommit(k, amount)
        /\ PutPayment(k, amount, at, Chosen(picks, Len(picks), Len(payments) + 1))
    BY <1>10 DEF CommitManual
  <2>3. QED
    BY <1>8, <2>1, <2>2
<1>11. ASSUME NEW period \in Periods, close(period) \/ reopen(period)
       PROVE  TypeInv'
  BY <1>1, <1>11, TypeKept DEF close, reopen
<1>12. CASE UNCHANGED vars
  BY <1>1, <1>12, TypeKept DEF vars
<1>13. QED
  BY <1>3, <1>4, <1>5, <1>6, <1>7, <1>9, <1>10, <1>11, <1>12 DEF Next, WritesCharges

\* Every behaviour of the ledger keeps its tables, allocations, periods and
\* snapshots of the types the database gives them.
THEOREM TypeCorrect == Spec => []TypeOK
<1>1. TypeInv => TypeOK
  BY DEF TypeInv
<1>2. QED
  BY <1>1, TypeInit, TypeStep, PTL DEF Spec

-----------------------------------------------------------------------------
\* Amounts.

\* What is at most what is left of a limit keeps within it.
LEMMA RoomLeft ==
  ASSUME NEW limit \in Nat, NEW before \in Nat, NEW amount \in Nat, NEW owed \in Nat,
         amount > 0, amount <= owed, owed <= AtLeastZero(limit - before)
  PROVE  before + amount <= limit
BY DEF AtLeastZero

\* Allocations chosen by hand, each checked against what the charge owes after
\* the ones before it, keep the ledger within its amounts.
LEMMA ManualSound ==
  ASSUME NEW cs, NEW ps, NEW al, Sound(cs, ps, al),
         NEW new \in Live(ps), \A c \in ChargeId : al[new][c] = 0,
         NEW picks \in ManualPicks,
         Total(AmountOf(picks), DOMAIN picks) <= ps[new].amount,
         \A i \in DOMAIN picks :
           /\ picks[i].amount > 0
           /\ picks[i].charge \in Live(cs)
           /\ picks[i].amount <=
                Outstanding(cs, ps, Plus(al, Chosen(picks, i - 1, new)))[picks[i].charge]
  PROVE  Sound(cs, ps, Plus(al, Chosen(picks, Len(picks), new)))
<1> DEFINE n == Len(picks)
           of(c, i) == {j \in 1..i : picks[j].charge = c}
           given(c, i) == Total(AmountOf(picks), of(c, i))
           more(i) == Chosen(picks, i, new)
<1>1. /\ picks \in Seq(Pick) /\ n \in Nat /\ DOMAIN picks = 1..n
      /\ \A j \in 1..n : picks[j] \in Pick
  BY LedgerConstants
<1>2. \A j \in 1..n : /\ AmountOf(picks)[j] = picks[j].amount
                      /\ picks[j].amount \in Nat /\ AmountOf(picks)[j] \in Nat
  BY <1>1 DEF AmountOf, Pick
<1>3. SeenLedger(cs, ps, al)
  BY DEF Sound
<1>4. /\ Live(cs) \subseteq DOMAIN cs /\ IsFiniteSet(Live(cs)) /\ DOMAIN cs \subseteq ChargeId
      /\ Live(ps) \subseteq DOMAIN ps /\ IsFiniteSet(Live(ps)) /\ DOMAIN ps \subseteq PaymentId
  BY <1>3, SeenFinite
<1>5. ASSUME NEW i \in 0..n PROVE more(i) \in Allocation
  BY ChosenType
<1>6. ASSUME NEW i \in 0..n, NEW p \in PaymentId, NEW c \in ChargeId
      PROVE  more(i)[p][c] = IF p = new THEN given(c, i) ELSE 0
  BY DEF Chosen
<1>7. ASSUME NEW i \in 0..n, NEW c \in ChargeId PROVE given(c, i) \in Nat
  <2>1. more(i)[new][c] \in Nat
    BY <1>4, <1>5 DEF Allocation
  <2>2. QED
    BY <1>4, <1>6, <2>1
<1> HIDE DEF more, given
<1>8. ASSUME NEW i \in 0..n, NEW c \in Live(cs)
      PROVE  Allocated(ps, Plus(al, more(i)), c) = Allocated(ps, al, c) + given(c, i)
  <2>1. Total(ToCharge(more(i), c), Live(ps)) = given(c, i)
    <3>1. ToCharge(more(i), c)[new] = given(c, i) /\ given(c, i) \in Nat
      BY <1>4, <1>6, <1>7 DEF ToCharge
    <3>2. \A p \in Live(ps) \ {new} : ToCharge(more(i), c)[p] = 0
      BY <1>4, <1>6 DEF ToCharge
    <3>3. QED
      BY <1>4, <3>1, <3>2, TotalOneRow
  <2>2. QED
    BY <1>3, <1>4, <1>5, <2>1, PlusAdds
<1>9. ASSUME NEW c \in Live(cs)
      PROVE  Allocated(ps, Plus(al, more(n)), c) <= cs[c].amount
  <2>1. /\ cs[c].amount \in Nat /\ Allocated(ps, al, c) \in Nat
        /\ Allocated(ps, al, c) <= cs[c].amount
    BY <1>3, <1>4, QueriesType DEF Sound, Within, SeenLedger, SeenRows
  <2>2. CASE of(c, n) = {}
    <3>1. given(c, n) = 0
      BY <2>2, TotalZero DEF given
    <3>2. QED
      BY <1>1, <1>8, <2>1, <3>1
  <2>3. CASE of(c, n) # {}
    <3>1. PICK i \in of(c, n) : \A j \in of(c, n) : j <= i
      BY <1>1, <2>3, Largest
    <3>2. i \in 1..n /\ i - 1 \in 0..n /\ picks[i].charge = c
      BY <1>1, <3>1
    <3>3. given(c, n) = given(c, i - 1) + picks[i].amount
      <4>1. of(c, n) = of(c, i - 1) \cup {i} /\ i \notin of(c, i - 1)
        BY <1>1, <3>1, <3>2
      <4>2. IsFiniteSet(of(c, i - 1))
        <5>1. of(c, i - 1) \in SUBSET (1..(i - 1)) /\ i - 1 \in Int
          BY <3>2
        <5> HIDE DEF of
        <5>2. IsFiniteSet(1..(i - 1))
          BY <5>1, FS_Interval
        <5>3. QED
          BY <5>1, <5>2, FS_Subset
      <4>3. \A j \in of(c, i - 1) : AmountOf(picks)[j] \in Nat
        BY <1>2, <3>2
      <4> DEFINE amounts == AmountOf(picks)
                 earlier == of(c, i - 1)
      <4>4. amounts[i] \in Nat /\ amounts[i] = picks[i].amount
        BY <1>2, <3>2
      <4>5. given(c, n) = Total(amounts, earlier \cup {i}) /\ given(c, i - 1) = Total(amounts, earlier)
        BY <4>1 DEF given
      <4> HIDE DEF of, amounts, earlier
      <4>6. IsFiniteSet(earlier) /\ i \notin earlier /\ \A j \in earlier : amounts[j] \in Nat
        BY <4>1, <4>2, <4>3 DEF amounts, earlier
      <4>7. Total(amounts, earlier \cup {i}) = Total(amounts, earlier) + amounts[i]
        BY <4>4, <4>6, TotalAddRow
      <4>8. QED
        BY <4>4, <4>5, <4>7
    <3>4. SeenLedger(cs, ps, Plus(al, more(i - 1)))
      BY <1>3, <1>5, <3>2, PlusAdds
    <3>5. /\ Outstanding(cs, ps, Plus(al, more(i - 1)))[c] \in Nat
          /\ Remaining(cs, ps, Plus(al, more(i - 1)))[c] \in Nat
          /\ Outstanding(cs, ps, Plus(al, more(i - 1)))[c]
               <= Remaining(cs, ps, Plus(al, more(i - 1)))[c]
      BY <3>4, QueriesType
    <3>6. Remaining(cs, ps, Plus(al, more(i - 1)))[c]
            = AtLeastZero(cs[c].amount - Allocated(ps, Plus(al, more(i - 1)), c))
      BY DEF Remaining
    <3>7. /\ picks[i].amount > 0
          /\ picks[i].amount <= Outstanding(cs, ps, Plus(al, more(i - 1)))[c]
      BY <1>1, <3>2 DEF more
    <3>8. Allocated(ps, Plus(al, more(i - 1)), c) = Allocated(ps, al, c) + given(c, i - 1)
      BY <1>8, <3>2
    <3>9. Allocated(ps, Plus(al, more(n)), c) = Allocated(ps, al, c) + given(c, n)
      BY <1>1, <1>8
    <3>10. given(c, i - 1) \in Nat /\ picks[i].amount \in Nat
      BY <1>2, <1>4, <1>7, <3>2
    <3> DEFINE before == Allocated(ps, al, c) + given(c, i - 1)
    <3>11. before \in Nat
      BY <2>1, <3>10
    <3>12. Remaining(cs, ps, Plus(al, more(i - 1)))[c] = AtLeastZero(cs[c].amount - before)
      BY <3>6, <3>8
    <3>13. Allocated(ps, Plus(al, more(n)), c) = before + picks[i].amount
      BY <2>1, <3>3, <3>9, <3>10
    <3> HIDE DEF before
    <3>14. before + picks[i].amount <= cs[c].amount
      BY <2>1, <3>5, <3>7, <3>10, <3>11, <3>12, RoomLeft
    <3>15. QED
      BY <3>13, <3>14
  <2>4. QED
    BY <2>2, <2>3
<1>10. ASSUME NEW p \in Live(ps)
       PROVE  Spent(cs, Plus(al, more(n)), p) <= ps[p].amount
  <2>1. Spent(cs, Plus(al, more(n)), p) = Spent(cs, al, p) + Total(more(n)[p], Live(cs))
    BY <1>1, <1>3, <1>4, <1>5, PlusAdds
  <2>2. CASE p = new
    <3>1. Spent(cs, al, p) = 0
      BY <1>4, <2>2, TotalZero DEF Spent
    <3>2. Total(more(n)[p], Live(cs)) <= Total(AmountOf(picks), 1..n)
      <4> DEFINE group == [c \in Live(cs) |-> of(c, n)]
                 amounts == AmountOf(picks)
                 sum == more(n)[p]
                 D == 1..n
      <4>1. IsFiniteSet(D) /\ \A j \in D : amounts[j] \in Nat
        BY <1>1, <1>2, FS_Interval
      <4>2. Groups(D, Live(cs), group)
        BY DEF Groups
      <4>3. ASSUME NEW c \in Live(cs) PROVE sum[c] = Total(amounts, group[c])
        <5>1. sum[c] = given(c, n)
          BY <1>1, <1>4, <1>6, <2>2
        <5>2. QED
          BY <5>1 DEF given
      <4> HIDE DEF group, amounts, sum, D
      <4>4. Total(sum, Live(cs)) <= Total(amounts, D)
        BY <4>1, <4>2, <4>3, TotalByGroup
      <4>5. QED
        BY <4>4 DEF amounts, sum, D
    <3>3. Total(AmountOf(picks), 1..n) <= ps[p].amount
      BY <1>1, <2>2
    <3>4. Total(more(n)[p], Live(cs)) \in Nat
      <4>1. more(n) \in Allocation
        BY <1>1, <1>5
      <4>2. \A c \in Live(cs) : more(n)[p][c] \in Nat
        BY <1>4, <4>1 DEF Allocation
      <4>3. QED
        BY <1>4, <4>2, TotalType
    <3>5. Total(AmountOf(picks), 1..n) \in Nat /\ ps[p].amount \in Nat
      <4>1. IsFiniteSet(1..n)
        BY <1>1, FS_Interval
      <4>2. QED
        BY <1>2, <1>3, <1>4, <4>1, TotalType DEF SeenLedger, SeenRows
    <3>6. QED
      BY <2>1, <3>1, <3>2, <3>3, <3>4, <3>5
  <2>3. CASE p # new
    <3>1. Total(more(n)[p], Live(cs)) = 0
      BY <1>1, <1>4, <1>6, <2>3, TotalZero
    <3>2. Spent(cs, al, p) <= ps[p].amount /\ Spent(cs, al, p) \in Nat
      BY <1>3, <1>4, QueriesType DEF Sound, Within
    <3>3. QED
      BY <2>1, <3>1, <3>2
  <2>4. QED
    BY <2>2, <2>3
<1>11. NothingForMissingRows(cs, ps, Plus(al, more(n)))
  <2>1. ASSUME NEW p \in PaymentId, NEW c \in ChargeId, p \notin DOMAIN ps \/ c \notin DOMAIN cs
        PROVE  Plus(al, more(n))[p][c] = 0
    <3>1. al[p][c] = 0
      BY <2>1 DEF Sound, NothingForMissingRows
    <3>2. more(n)[p][c] = 0
      <4>1. CASE p # new
        BY <1>1, <1>6, <4>1
      <4>2. CASE p = new
        <5>1. of(c, n) = {}
          BY <1>1, <1>4, <2>1, <4>2
        <5> HIDE DEF of
        <5>2. given(c, n) = 0
          BY <5>1, TotalZero DEF given
        <5>3. QED
          BY <1>1, <1>6, <4>2, <5>2
      <4>3. QED
        BY <4>1, <4>2
    <3>3. QED
      BY <3>1, <3>2 DEF Plus
  <2>2. QED
    BY <2>1 DEF NothingForMissingRows
<1>12. SeenLedger(cs, ps, Plus(al, more(n)))
  BY <1>1, <1>3, <1>5, PlusAdds
<1>13. QED
  BY <1>9, <1>10, <1>11, <1>12 DEF Sound, Within, more

\* A cancellation refers to a payment row that is there, so that a new payment
\* row stands.
CancelsExisting ==
  \A r \in DOMAIN payments : payments[r].source \in Nat /\ payments[r].source <= Len(payments)

\* A payment transaction that will not be aborted has the ledger as it is.
CurrentSnapshots ==
  \A k \in Clerks :
    tx[k] # NoTx /\ ~SerializationFailure(k) =>
      /\ tx[k].charges = Len(charges)
      /\ tx[k].payments = Len(payments)
      /\ tx[k].alloc = alloc

\* The inductive invariant.  That amounts are respected says nothing of the
\* next payment, which computes on its snapshot: the snapshot has to be the
\* ledger itself for every payment that may still commit.
IInv ==
  /\ TypeInv
  /\ Sound(charges, payments, alloc)
  /\ CurrentSnapshots
  /\ CancelsExisting

LEMMA SoundInit == Init => IInv
<1> SUFFICES ASSUME Init PROVE IInv
  OBVIOUS
<1>1. TypeInv
  BY TypeInit
<1>2. SeenLedger(charges, payments, alloc)
  BY <1>1, TablesSeen DEF TypeInv, TypeOK
<1>3. Live(charges) = {} /\ Live(payments) = {}
  BY DEF Init, Live
<1>4. Within(charges, payments, alloc)
  BY <1>3 DEF Within
<1>5. NothingForMissingRows(charges, payments, alloc)
  BY DEF Init, NothingForMissingRows
<1>6. CurrentSnapshots
  BY DEF Init, CurrentSnapshots
<1>7. CancelsExisting
  BY DEF Init, CancelsExisting
<1>8. QED
  BY <1>1, <1>2, <1>4, <1>5, <1>6, <1>7 DEF IInv, Sound

\* A payment that is not aborted sees the ledger as it is, and its own row.
LEMMA SeesCurrent ==
  ASSUME IInv, NEW k \in Clerks, NEW amount \in Nat, NEW at \in Times, MayCommit(k, amount)
  PROVE  LET rows == Append(payments, NewPayment(amount, at))
         IN /\ SeenCharges(k) = charges
            /\ SeenPayments(k, amount, at) = rows
            /\ tx[k].alloc = alloc
            /\ Sound(charges, rows, alloc)
            /\ Len(payments) + 1 \in Live(rows)
            /\ \A c \in ChargeId : alloc[Len(payments) + 1][c] = 0
<1> DEFINE row == NewPayment(amount, at)
           rows == Append(payments, row)
           new == Len(payments) + 1
<1>1. /\ charges \in Seq(ChargeRow) /\ Len(charges) <= MaxCharges /\ Len(charges) \in Nat
      /\ payments \in Seq(PaymentRow) /\ Len(payments) < MaxPayments /\ Len(payments) \in Nat
      /\ DOMAIN payments = 1..Len(payments)
      /\ alloc \in Allocation /\ Extends(charges, charges)
  BY DEF IInv, TypeInv, TypeOK, MayCommit, Extends
<1>2. tx[k].charges = Len(charges) /\ tx[k].payments = Len(payments) /\ tx[k].alloc = alloc
  BY DEF IInv, CurrentSnapshots, MayCommit
<1>3. SeenCharges(k) = charges
  BY <1>1, <1>2 DEF SeenCharges
<1>4. row \in PaymentRow /\ row.sign = 1
  BY DEF NewPayment, PaymentRow
<1>5. /\ rows \in Seq(PaymentRow) /\ Extends(payments, rows)
      /\ Len(rows) = new /\ new \in Nat /\ new <= MaxPayments
  BY <1>1, <1>4, RowAppended, LedgerConstants
<1>6. /\ DOMAIN rows = 1..new /\ rows[new] = row
      /\ \A p \in 1..Len(payments) : rows[p] = payments[p]
  <2> HIDE DEF row
  <2>1. QED
    BY <1>1, <1>4
<1>7. SeenPayments(k, amount, at) = rows
  <2> DEFINE seen == SeenPayments(k, amount, at)
  <2>1. seen = [p \in (1..Len(payments)) \cup {new} |->
                  IF p <= Len(payments) THEN payments[p] ELSE row]
    BY <1>2 DEF SeenPayments
  <2>2. DOMAIN seen = 1..new
    BY <1>1, <2>1
  <2>3. \A p \in 1..new : seen[p] = rows[p]
    <3> HIDE DEF rows, row
    <3>1. QED
      BY <1>1, <1>6, <2>1
  <2>4. rows \in [1..new -> PaymentRow]
    <3> HIDE DEF rows, new
    <3>1. QED
      BY <1>5
  <2>5. seen \in [1..new -> PaymentRow]
    <3>1. seen = [p \in DOMAIN seen |-> seen[p]]
      BY <2>1
    <3>2. \A p \in 1..new : rows[p] \in PaymentRow
      BY <2>4
    <3> HIDE DEF rows, new, seen
    <3>3. QED
      BY <2>2, <2>3, <3>1, <3>2
  <2>6. \A f, g \in [1..new -> PaymentRow] : (\A p \in 1..new : f[p] = g[p]) => f = g
    OBVIOUS
  <2> HIDE DEF rows, new, seen
  <2>7. seen = rows
    BY <2>3, <2>4, <2>5, <2>6
  <2>8. QED
    BY <2>7 DEF seen
<1>8. Sound(charges, rows, alloc)
  <2> HIDE DEF rows, new
  <2>1. SeenLedger(charges, rows, alloc)
    BY <1>1, <1>5, TablesSeen
  <2>2. QED
    BY <1>1, <1>5, <2>1, GrowSound DEF IInv
<1>9. \A c \in ChargeId : alloc[new][c] = 0
  BY <1>1, LedgerConstants DEF IInv, Sound, NothingForMissingRows, PaymentId
<1>10. new \in Live(rows)
  <2>1. rows[new].sign = 1 /\ rows[new].source = 0
    <3>1. row.sign = 1 /\ row.source = 0
      BY DEF NewPayment
    <3>2. QED
      BY <1>6, <3>1
  <2>2. \A r \in 1..new : rows[r].source # new
    BY <1>1, <1>5, <1>6, <2>1 DEF IInv, CancelsExisting
  <2>3. new \in 1..new
    BY <1>1
  <2> HIDE DEF rows, new
  <2>4. QED
    BY <1>6, <2>1, <2>2, <2>3 DEF Live, IsReversed
<1>11. QED
  BY <1>2, <1>3, <1>7, <1>8, <1>9, <1>10

\* A payment that commits: the other payments that may still commit are aborted
\* by it, or there is none.
LEMMA PaymentCommits ==
  ASSUME IInv, TypeInv', NEW k \in Clerks, NEW amount \in Nat, NEW at \in Times, NEW more,
         MayCommit(k, amount), PutPayment(k, amount, at, more),
         Sound(charges, Append(payments, NewPayment(amount, at)), Plus(alloc, more))
  PROVE  IInv'
<1> DEFINE row == NewPayment(amount, at)
           rows == Append(payments, row)
<1>1. /\ payments' = rows /\ alloc' = Plus(alloc, more) /\ charges' = charges
      /\ tx' = [tx EXCEPT ![k] = NoTx]
  BY DEF PutPayment
<1>2. Sound(charges, payments, alloc)'
  BY <1>1
<1>3. /\ row.sign = 1 /\ row.source = 0 /\ row \in PaymentRow
      /\ Len(payments) \in Nat /\ DOMAIN payments = 1..Len(payments)
      /\ payments \in Seq(PaymentRow)
  BY DEF NewPayment, PaymentRow, IInv, TypeInv, TypeOK
<1>4. /\ Len(rows) = Len(payments) + 1 /\ DOMAIN rows = 1..(Len(payments) + 1)
      /\ rows[Len(payments) + 1] = row
      /\ \A p \in 1..Len(payments) : rows[p] = payments[p]
  <2> HIDE DEF row
  <2>1. QED
    BY <1>3
<1> HIDE DEF rows, row
<1>5. CurrentSnapshots'
  <2> SUFFICES ASSUME NEW j \in Clerks, tx'[j] # NoTx
               PROVE  SerializationFailure(j)'
    BY DEF CurrentSnapshots
  <2>1. tx'[j] = tx[j] /\ tx[j] \in Snapshot
    BY <1>1 DEF IInv, TypeInv, TypeOK
  <2>2. tx[j].payments \in Int /\ tx[j].payments <= Len(payments)
    BY <2>1, LedgerConstants DEF Snapshot, IInv, TypeInv, SnapshotsBehind
  <2>3. Len(payments) + 1 \in DOMAIN rows /\ Len(payments) + 1 > tx'[j].payments
    BY <1>3, <1>4, <2>1, <2>2
  <2>4. QED
    BY <1>1, <1>3, <1>4, <2>3 DEF SerializationFailure
<1>6. CancelsExisting'
  BY <1>1, <1>3, <1>4 DEF IInv, CancelsExisting
<1>7. QED
  BY <1>2, <1>5, <1>6 DEF IInv

\* Steps that write the ledger while no payment waits.
LEMMA QuietStep ==
  ASSUME IInv, TypeInv', ~Overlap, Uncontended, tx' = tx, Sound(charges, payments, alloc)',
         CancelsExisting'
  PROVE  IInv'
BY DEF IInv, Uncontended, CurrentSnapshots

\* Every step keeps the ledger within its amounts, when no other write of the
\* child runs while a payment waits for the child lock.
LEMMA SoundStep ==
  ASSUME ~Overlap
  PROVE  IInv /\ [Next]_vars => IInv'
<1> SUFFICES ASSUME IInv, [Next]_vars PROVE IInv'
  OBVIOUS
<1>1. /\ TypeInv /\ TypeInv' /\ TypeOK
      /\ charges \in Seq(ChargeRow) /\ Len(charges) <= MaxCharges /\ Len(charges) \in Nat
      /\ payments \in Seq(PaymentRow) /\ Len(payments) <= MaxPayments /\ Len(payments) \in Nat
      /\ DOMAIN payments = 1..Len(payments)
      /\ alloc \in Allocation
      /\ Extends(charges, charges) /\ Extends(payments, payments)
      /\ Sound(charges, payments, alloc)
  BY TypeStep DEF IInv, TypeInv, TypeOK, Extends
<1>2. Amounts \subseteq Nat /\ Now \in Times
  BY LedgerConstants
<1>3. CASE WritesCharges
  <2>1. PICK rows \in Seq(ChargeRow) : Extends(charges, rows) /\ InsertCharges(rows)
    BY <1>1, <1>3, ChargeRowsAdded
  <2>2. /\ Len(rows) <= MaxCharges /\ charges' = rows
        /\ alloc' = Plus(alloc, Applied(rows, payments, alloc))
        /\ payments' = payments /\ tx' = tx
    BY <2>1 DEF InsertCharges, allocateCredit
  <2>3. Sound(rows, payments, alloc)
    <3>1. SeenLedger(rows, payments, alloc)
      BY <1>1, <2>2, TablesSeen
    <3>2. QED
      BY <1>1, <2>1, <3>1, GrowSound
  <2>4. Sound(rows, payments, Plus(alloc, Applied(rows, payments, alloc)))
    BY <2>3, CreditSound
  <2>5. Uncontended
    BY <1>1, <1>3, ChargeRowsAdded
  <2>6. CancelsExisting'
    BY <2>2 DEF IInv, CancelsExisting
  <2>7. QED
    BY <1>1, <2>2, <2>4, <2>5, <2>6, QuietStep
<1>4. ASSUME NEW amount \in Amounts, NEW period \in Periods, NEW at \in Times,
             commitOpeningBalance(amount, period, at)
      PROVE  IInv'
  <2> DEFINE row == NewCharge("adjustment", 1, amount, period, at, 0, 0)
             rows == Append(charges, row)
  <2>1. row \in ChargeRow
    BY <1>2, NewChargeType DEF Kinds
  <2>2. /\ charges' = rows /\ payments' = payments /\ alloc' = alloc /\ tx' = tx
        /\ Len(charges) < MaxCharges /\ Uncontended
    BY <1>4 DEF commitOpeningBalance
  <2> HIDE DEF row
  <2>3. rows \in Seq(ChargeRow) /\ Extends(charges, rows) /\ Len(rows) <= MaxCharges
    BY <1>1, <2>1, <2>2, RowAppended, LedgerConstants
  <2> HIDE DEF rows
  <2>4. Sound(rows, payments, alloc)
    <3>1. SeenLedger(rows, payments, alloc)
      BY <1>1, <2>3, TablesSeen
    <3>2. QED
      BY <1>1, <2>3, <3>1, GrowSound
  <2>5. CancelsExisting'
    BY <2>2 DEF IInv, CancelsExisting
  <2>6. QED
    BY <1>1, <2>2, <2>4, <2>5, QuietStep
<1>5. ASSUME NEW p \in PaymentId, cancel(p)
      PROVE  IInv'
  <2> DEFINE row == [payments[p] EXCEPT !.sign = -1, !.source = p, !.at = Now]
             rows == Append(payments, row)
  <2>1. row \in PaymentRow /\ row.source = p /\ p \in Nat /\ p <= Len(payments)
    <3>1. payments[p] \in PaymentRow /\ p \in Nat /\ p <= Len(payments)
      BY <1>1, <1>5 DEF cancel
    <3>2. QED
      BY <1>2, <3>1 DEF PaymentRow
  <2>2. /\ payments' = rows /\ alloc' = Plus(alloc, Applied(charges, rows, alloc))
        /\ charges' = charges /\ tx' = tx /\ Len(payments) < MaxPayments /\ Uncontended
    BY <1>5 DEF cancel, allocateCredit
  <2> HIDE DEF row
  <2>3. /\ rows \in Seq(PaymentRow) /\ Extends(payments, rows) /\ Len(rows) <= MaxPayments
    BY <1>1, <2>1, <2>2, RowAppended, LedgerConstants
  <2>4. /\ Len(rows) = Len(payments) + 1 /\ DOMAIN rows = 1..(Len(payments) + 1)
        /\ rows[Len(payments) + 1] = row
        /\ \A r \in 1..Len(payments) : rows[r] = payments[r]
    BY <1>1, <2>1
  <2> HIDE DEF rows
  <2>5. Sound(charges, rows, alloc)
    <3>1. SeenLedger(charges, rows, alloc)
      BY <1>1, <2>3, TablesSeen
    <3>2. QED
      BY <1>1, <2>3, <3>1, GrowSound
  <2>6. Sound(charges, rows, Plus(alloc, Applied(charges, rows, alloc)))
    BY <2>5, CreditSound
  <2>7. CancelsExisting'
    <3>1. ASSUME NEW r \in DOMAIN rows
          PROVE  rows[r].source \in Nat /\ rows[r].source <= Len(payments) + 1
      <4>1. CASE r = Len(payments) + 1
        BY <1>1, <2>1, <2>4, <4>1
      <4>2. CASE r # Len(payments) + 1
        <5>1. r \in DOMAIN payments /\ rows[r] = payments[r]
          BY <1>1, <2>4, <4>2
        <5>2. QED
          BY <1>1, <5>1 DEF IInv, CancelsExisting
      <4>3. QED
        BY <4>1, <4>2
    <3>2. QED
      BY <2>2, <2>4, <3>1 DEF CancelsExisting
  <2>8. QED
    BY <1>1, <2>2, <2>6, <2>7, QuietStep
<1>6. ASSUME NEW k \in Clerks, BeginPayment(k)
      PROVE  IInv'
  <2> DEFINE snapshot == [charges |-> Len(charges), payments |-> Len(payments), alloc |-> alloc]
  <2>1. /\ tx' = [tx EXCEPT ![k] = snapshot]
        /\ charges' = charges /\ payments' = payments /\ alloc' = alloc
    BY <1>6 DEF BeginPayment
  <2>2. /\ snapshot.charges = Len(charges) /\ snapshot.payments = Len(payments)
        /\ snapshot.alloc = alloc
    OBVIOUS
  <2> HIDE DEF snapshot
  <2>3. ASSUME NEW j \in Clerks, tx'[j] # NoTx, ~SerializationFailure(j)'
        PROVE  /\ tx'[j].charges = Len(charges') /\ tx'[j].payments = Len(payments')
               /\ tx'[j].alloc = alloc'
    <3>1. CASE j = k
      <4>1. tx'[j] = snapshot
        BY <2>1, <3>1 DEF IInv, TypeInv, TypeOK
      <4>2. QED
        BY <2>1, <2>2, <4>1
    <3>2. CASE j # k
      <4>1. tx'[j] = tx[j]
        BY <2>1, <3>2 DEF IInv, TypeInv, TypeOK
      <4>2. ~SerializationFailure(j)
        BY <2>1, <2>3, <4>1 DEF SerializationFailure
      <4>3. QED
        BY <2>1, <2>3, <4>1, <4>2 DEF IInv, CurrentSnapshots
    <3>3. QED
      BY <3>1, <3>2
  <2>4. CurrentSnapshots'
    BY <2>3 DEF CurrentSnapshots
  <2>5. QED
    BY <1>1, <2>1, <2>4 DEF IInv, CancelsExisting
<1>7. ASSUME NEW k \in Clerks, AbortPayment(k)
      PROVE  IInv'
  <2>1. /\ tx' = [tx EXCEPT ![k] = NoTx]
        /\ charges' = charges /\ payments' = payments /\ alloc' = alloc
    BY <1>7 DEF AbortPayment
  <2>2. ASSUME NEW j \in Clerks, tx'[j] # NoTx, ~SerializationFailure(j)'
        PROVE  /\ tx'[j].charges = Len(charges') /\ tx'[j].payments = Len(payments')
               /\ tx'[j].alloc = alloc'
    <3>1. tx'[j] = tx[j]
      BY <2>1, <2>2 DEF IInv, TypeInv, TypeOK
    <3>2. ~SerializationFailure(j)
      BY <2>1, <2>2, <3>1 DEF SerializationFailure
    <3>3. QED
      BY <2>1, <2>2, <3>1, <3>2 DEF IInv, CurrentSnapshots
  <2>3. CurrentSnapshots'
    BY <2>2 DEF CurrentSnapshots
  <2>4. QED
    BY <1>1, <2>1, <2>3 DEF IInv, CancelsExisting
<1>8. ASSUME NEW k \in Clerks, NEW amount \in Amounts, NEW at \in Times,
             CommitPayment(k, amount, at)
      PROVE  IInv'
  <2> DEFINE rows == Append(payments, NewPayment(amount, at))
             more == Applied(SeenCharges(k), SeenPayments(k, amount, at), tx[k].alloc)
  <2>1. MayCommit(k, amount) /\ PutPayment(k, amount, at, more)
    BY <1>8 DEF CommitPayment
  <2>2. /\ SeenCharges(k) = charges /\ SeenPayments(k, amount, at) = rows
        /\ tx[k].alloc = alloc /\ Sound(charges, rows, alloc)
    BY <1>2, <2>1, SeesCurrent
  <2>3. Sound(charges, rows, Plus(alloc, more))
    BY <2>2, CreditSound
  <2> HIDE DEF more
  <2>4. QED
    BY <1>1, <1>2, <2>1, <2>3, PaymentCommits
<1>9. ASSUME NEW k \in Clerks, NEW amount \in Amounts, NEW at \in Times,
             NEW picks \in ManualPicks, CommitManual(k, amount, at, picks)
      PROVE  IInv'
  <2> DEFINE rows == Append(payments, NewPayment(amount, at))
             new == Len(payments) + 1
             more == Chosen(picks, Len(picks), new)
  <2>1. MayCommit(k, amount) /\ PutPayment(k, amount, at, more)
    BY <1>9 DEF CommitManual
  <2>2. /\ SeenCharges(k) = charges /\ SeenPayments(k, amount, at) = rows
        /\ tx[k].alloc = alloc /\ Sound(charges, rows, alloc)
        /\ new \in Live(rows) /\ \A c \in ChargeId : alloc[new][c] = 0
    BY <1>2, <2>1, SeesCurrent
  <2>3. /\ Total(AmountOf(picks), DOMAIN picks) <= amount
        /\ \A i \in DOMAIN picks :
             /\ picks[i].amount > 0
             /\ picks[i].charge \in Live(charges)
             /\ picks[i].amount <=
                  Outstanding(charges, rows, Plus(alloc, Chosen(picks, i - 1, new)))[picks[i].charge]
    BY <1>9, <2>2 DEF CommitManual
  <2>4. rows[new].amount = amount
    <3> DEFINE row == NewPayment(amount, at)
    <3>1. row.amount = amount /\ row \in PaymentRow
      BY <1>2 DEF NewPayment, PaymentRow
    <3> HIDE DEF row
    <3>2. Append(payments, row)[Len(payments) + 1] = row
      BY <1>1, <3>1
    <3>3. QED
      BY <3>1, <3>2 DEF row
  <2> HIDE DEF rows, new
  <2>5. Sound(charges, rows, Plus(alloc, more))
    BY <2>2, <2>3, <2>4, ManualSound
  <2> HIDE DEF more
  <2>6. QED
    BY <1>1, <1>2, <2>1, <2>5, PaymentCommits DEF rows
<1>10. ASSUME NEW period \in Periods, close(period) \/ reopen(period)
       PROVE  IInv'
  BY <1>1, <1>10 DEF close, reopen, IInv, CurrentSnapshots, SerializationFailure, CancelsExisting
<1>11. CASE UNCHANGED vars
  BY <1>1, <1>11 DEF vars, IInv, CurrentSnapshots, SerializationFailure, CancelsExisting
<1>12. QED
  BY <1>3, <1>4, <1>5, <1>6, <1>7, <1>8, <1>9, <1>10, <1>11 DEF Next, WritesCharges

\* Two accountants never allocate more to a charge than it amounts to, for any
\* number of clerks, rows, periods and amounts, provided no other write of the
\* child runs while a payment transaction waits for the child lock.
THEOREM NeverOverAllocated ==
  ASSUME ~Overlap
  PROVE  Spec => []NoOverAllocation
<1>1. IInv => NoOverAllocation
  BY DEF IInv, Sound, Within, NoOverAllocation
<1>2. QED
  BY <1>1, SoundInit, SoundStep, PTL DEF Spec

\* Under the same condition no payment gives charges more than it brought.
THEOREM NeverOverspent ==
  ASSUME ~Overlap
  PROVE  Spec => []NoOverSpend
<1>1. IInv => NoOverSpend
  BY DEF IInv, TypeInv, Sound, Within, NoOverSpend
<1>2. QED
  BY <1>1, SoundInit, SoundStep, PTL DEF Spec

-----------------------------------------------------------------------------
\* What each step writes.

\* A charge's corrections leave a whole number.
LEMMA EffectiveType ==
  ASSUME TypeOK, NEW c \in DOMAIN charges
  PROVE  /\ effectiveAmount(c) \in Int /\ charges[c] \in ChargeRow /\ c \in Nat
         /\ charges[c].amount \in Nat /\ charges[c].period \in Periods
<1> DEFINE signed(s) == {r \in Corrections(c) : charges[r].sign = s}
<1>1. charges[c] \in ChargeRow /\ c \in Nat
  BY DEF TypeOK
<1>2. charges[c].amount \in Nat /\ charges[c].period \in Periods
  BY <1>1 DEF ChargeRow
<1>3. signed(1) \subseteq DOMAIN charges /\ signed(-1) \subseteq DOMAIN charges
  BY DEF Corrections
<1> HIDE DEF signed
<1>4. Total(AmountOf(charges), signed(1)) \in Nat /\ Total(AmountOf(charges), signed(-1)) \in Nat
  BY <1>3, SumOfRows
<1>5. effectiveAmount(c) = charges[c].amount + Total(AmountOf(charges), signed(1))
                                             - Total(AmountOf(charges), signed(-1))
  BY DEF effectiveAmount, signed
<1>6. QED
  BY <1>1, <1>2, <1>4, <1>5

\* A row the services write: a debt, a credit, or the reversal of a charge that
\* stands, by its amount.
Bookable(rows, row) ==
  \/ row.sign = 1 /\ row.source = 0
  \/ row.sign = -1 /\ row.source = 0 /\ row.kind = "adjustment"
  \/ row.sign = -1 /\ row.source \in Live(rows) /\ row.amount = rows[row.source].amount

\* Every write of charges inserts one row, or a reversal and what replaces it,
\* in a period that is open.
LEMMA RowsWritten ==
  ASSUME TypeOK, WritesCharges
  PROVE  \/ \E row \in ChargeRow : /\ row.period \notin closed /\ Bookable(charges, row)
                                  /\ charges' = Append(charges, row)
         \/ \E old, new \in ChargeRow : /\ old.period \notin closed /\ new.period \notin closed
                                        /\ Bookable(charges, old) /\ Bookable(Append(charges, old), new)
                                        /\ charges' = Append(Append(charges, old), new)
<1>1. Amounts \subseteq Nat /\ Now \in Times /\ 0 \in Nat
  BY LedgerConstants
<1>2. ASSUME NEW kind, NEW sign, NEW amount, NEW period, NEW at, NEW source, NEW adjusts
      PROVE  LET row == NewCharge(kind, sign, amount, period, at, source, adjusts)
             IN /\ row.period = period /\ row.sign = sign /\ row.source = source
                /\ row.kind = kind /\ row.amount = amount
  BY DEF NewCharge
<1>3. ASSUME NEW amount \in Amounts, NEW period \in Periods,
             \/ createManual(amount, period)
             \/ \E sign \in {1, -1} : adjustment(sign, amount, period)
             \/ chargeTariff(amount, period)
      PROVE  \E row \in ChargeRow : /\ row.period \notin closed /\ Bookable(charges, row)
                                   /\ charges' = Append(charges, row)
  <2>1. PICK kind \in Kinds, sign \in {1, -1} :
          /\ IsOpen(period) /\ (sign = 1 \/ kind = "adjustment")
          /\ charges' = Append(charges, NewCharge(kind, sign, amount, period, Now, 0, 0))
    BY <1>3 DEF createManual, adjustment, chargeTariff, InsertCharges, Kinds
  <2> DEFINE row == NewCharge(kind, sign, amount, period, Now, 0, 0)
  <2>2. row \in ChargeRow
    BY <1>1, NewChargeType
  <2>3. row.period = period /\ row.sign = sign /\ row.source = 0 /\ row.kind = kind
    BY <1>2
  <2> HIDE DEF row
  <2>4. Bookable(charges, row)
    BY <2>1, <2>3 DEF Bookable
  <2>5. QED
    BY <2>1, <2>2, <2>3, <2>4 DEF IsOpen, row
<1>4. ASSUME NEW amount \in Amounts, NEW period \in Periods, NEW adjustNext \in BOOLEAN,
             recalculate(period, amount, adjustNext)
      PROVE  \/ \E row \in ChargeRow : /\ row.period \notin closed /\ Bookable(charges, row)
                                      /\ charges' = Append(charges, row)
             \/ \E old, new \in ChargeRow : /\ old.period \notin closed /\ new.period \notin closed
                                            /\ Bookable(charges, old) /\ Bookable(Append(charges, old), new)
                                            /\ charges' = Append(Append(charges, old), new)
  <2>1. PICK c \in TariffCharges(period) :
          \/ IsOpen(period) /\ reverseAndReplace(c, amount)
          \/ adjustNextPeriod(c, amount)
    BY <1>4 DEF recalculate
  <2>2. c \in DOMAIN charges /\ charges[c].period = period /\ c \in Live(charges)
    BY DEF TariffCharges, Live
  <2>3. CASE IsOpen(period) /\ reverseAndReplace(c, amount)
    <3> DEFINE old == NewCharge("tariff", -1, charges[c].amount, charges[c].period, Now, c, 0)
               new == NewCharge("tariff", 1, amount, charges[c].period, Now, 0, 0)
    <3>1. old \in ChargeRow /\ new \in ChargeRow
      BY <1>1, <2>2, EffectiveType, NewChargeType DEF Kinds
    <3>2. /\ old.period = period /\ old.sign = -1 /\ old.source = c /\ old.amount = charges[c].amount
          /\ new.period = period /\ new.sign = 1 /\ new.source = 0
      BY <1>2, <2>2
    <3>3. charges' = Append(Append(charges, old), new)
      BY <2>3 DEF reverseAndReplace, InsertCharges
    <3> HIDE DEF old, new
    <3>4. Bookable(charges, old) /\ Bookable(Append(charges, old), new)
      BY <2>2, <3>2 DEF Bookable
    <3>5. QED
      BY <2>3, <3>1, <3>2, <3>3, <3>4 DEF IsOpen
  <2>4. CASE adjustNextPeriod(c, amount)
    <3>1. PICK next \in Periods, sign \in {1, -1}, extra \in Nat :
            /\ nextOpenPeriod(charges[c].period, next)
            /\ charges' = Append(charges, NewCharge("adjustment", sign, extra, next, Now, 0, c))
      <4>1. effectiveAmount(c) \in Int
        BY <2>2, EffectiveType
      <4>2. amount - effectiveAmount(c) \in Int
        BY <1>1, <4>1
      <4>3. QED
        BY <2>4, <4>2 DEF adjustNextPeriod, InsertCharges
    <3> DEFINE row == NewCharge("adjustment", sign, extra, next, Now, 0, c)
    <3>2. row \in ChargeRow
      BY <1>1, <2>2, EffectiveType, NewChargeType DEF Kinds
    <3>3. row.period = next /\ row.sign = sign /\ row.source = 0 /\ row.kind = "adjustment"
      BY <1>2
    <3> HIDE DEF row
    <3>4. Bookable(charges, row)
      BY <3>3 DEF Bookable
    <3>5. QED
      BY <3>1, <3>2, <3>3, <3>4 DEF nextOpenPeriod, IsOpen, row
  <2>5. QED
    BY <2>1, <2>3, <2>4
<1>5. ASSUME NEW c \in ChargeId, reverse(c)
      PROVE  \E row \in ChargeRow : /\ row.period \notin closed /\ Bookable(charges, row)
                                   /\ charges' = Append(charges, row)
  <2>1. /\ c \in DOMAIN charges /\ IsOpen(charges[c].period) /\ charges' = Append(charges, ReversalOf(c))
        /\ c \in Live(charges)
    BY <1>5 DEF reverse, InsertCharges, Live, IsReversed
  <2>2. /\ ReversalOf(c) \in ChargeRow /\ ReversalOf(c).period = charges[c].period
        /\ ReversalOf(c).sign = -1 /\ ReversalOf(c).source = c /\ ReversalOf(c).amount = charges[c].amount
    BY <1>1, <2>1, EffectiveType DEF ReversalOf, ChargeRow
  <2>3. QED
    BY <2>1, <2>2 DEF IsOpen, Bookable
<1>6. QED
  BY <1>3, <1>4, <1>5 DEF WritesCharges

\* A closed month stays as it was reported: neither the services nor a
\* correction of its own charges adds a row to it.
THEOREM ClosedMonthsStand == Spec => ClosedPeriodFrozen
<1> DEFINE Frozen == \A period \in closed \cap closed' :
                       {c \in DOMAIN charges' : charges'[c].period = period} \subseteq DOMAIN charges
<1>1. ASSUME TypeOK, Next PROVE Frozen
  <2>1. ASSUME NEW old \in Seq(ChargeRow), NEW row \in ChargeRow, NEW period, row.period # period,
               {c \in DOMAIN old : old[c].period = period} \subseteq DOMAIN charges
        PROVE  {c \in DOMAIN Append(old, row) : Append(old, row)[c].period = period} \subseteq DOMAIN charges
    BY <2>1
  <2>2. charges \in Seq(ChargeRow)
    BY <1>1 DEF TypeOK
  <2>3. CASE WritesCharges
    <3>1. CASE \E row \in ChargeRow : row.period \notin closed /\ charges' = Append(charges, row)
      BY <2>1, <2>2, <3>1
    <3>2. CASE \E old, new \in ChargeRow : /\ old.period \notin closed /\ new.period \notin closed
                                           /\ charges' = Append(Append(charges, old), new)
      <4>1. PICK old \in ChargeRow, new \in ChargeRow :
              /\ old.period \notin closed /\ new.period \notin closed
              /\ charges' = Append(Append(charges, old), new)
        BY <3>2
      <4>2. Append(charges, old) \in Seq(ChargeRow)
        BY <2>2
      <4>3. QED
        BY <2>1, <2>2, <4>1, <4>2
    <3>3. QED
      BY <1>1, <2>3, <3>1, <3>2, RowsWritten
  <2>4. ASSUME NEW amount \in Amounts, NEW period \in Periods, NEW at \in Times,
               commitOpeningBalance(amount, period, at)
        PROVE  Frozen
    <3>1. NewCharge("adjustment", 1, amount, period, at, 0, 0) \in ChargeRow
      BY LedgerConstants, NewChargeType DEF Kinds
    <3>2. /\ NewCharge("adjustment", 1, amount, period, at, 0, 0).period \notin closed
          /\ charges' = Append(charges, NewCharge("adjustment", 1, amount, period, at, 0, 0))
      BY <2>4 DEF commitOpeningBalance, NewCharge, IsOpen
    <3>3. QED
      BY <2>1, <2>2, <3>1, <3>2
  <2>5. ASSUME charges' = charges PROVE Frozen
    BY <2>5
  <2>6. QED
    BY <1>1, <2>3, <2>4, <2>5, ZenonT(60) DEF Next, WritesCharges, cancel, BeginPayment, AbortPayment, CommitPayment,
                              CommitManual, PutPayment, close, reopen
<1>2. TypeOK /\ [Next]_vars => [Frozen]_vars
  BY <1>1
<1>3. QED
  BY <1>2, TypeCorrect, PTL DEF Spec, ClosedPeriodFrozen

-----------------------------------------------------------------------------
\* The balance.

Signed(rows, s) == Total(AmountOf(rows), {x \in DOMAIN rows : rows[x].sign = s})
Net(rows) == Signed(rows, 1) - Signed(rows, -1)

\* One more row adds its amount to the sum of its sign.
LEMMA SignedAppended ==
  ASSUME NEW R, \A r \in R : r.amount \in Nat, NEW rows \in Seq(R), NEW row \in R, NEW s
  PROVE  /\ Signed(rows, s) \in Nat
         /\ row.sign = s => Signed(Append(rows, row), s) = Signed(rows, s) + row.amount
         /\ row.sign # s => Signed(Append(rows, row), s) = Signed(rows, s)
<1> DEFINE S == {x \in DOMAIN rows : rows[x].sign = s}
           more == Append(rows, row)
           T == {x \in DOMAIN more : more[x].sign = s}
           y == Len(rows) + 1
<1>1. /\ Len(rows) \in Nat /\ DOMAIN rows = 1..Len(rows) /\ DOMAIN more = DOMAIN rows \cup {y}
      /\ more[y] = row /\ y \notin DOMAIN rows /\ \A x \in DOMAIN rows : more[x] = rows[x] /\ rows[x] \in R
  OBVIOUS
<1>2. T = IF row.sign = s THEN S \cup {y} ELSE S
  BY <1>1
<1>3. IsFiniteSet(S)
  BY <1>1, UpTo, FS_Subset
<1>4. /\ AmountOf(more)[y] = row.amount /\ row.amount \in Nat
      /\ \A x \in S : AmountOf(rows)[x] = AmountOf(more)[x] /\ AmountOf(rows)[x] \in Nat
  BY <1>1 DEF AmountOf
<1>5. y \notin S
  BY <1>1
<1> HIDE DEF more, y, S, T
<1>6. Total(AmountOf(rows), S) = Total(AmountOf(more), S) /\ Total(AmountOf(rows), S) \in Nat
  BY <1>3, <1>4, TotalSame, TotalType
<1>7. Total(AmountOf(more), S \cup {y}) = Total(AmountOf(more), S) + row.amount
  BY <1>3, <1>4, <1>5, TotalAddRow
<1>8. Signed(rows, s) = Total(AmountOf(rows), S) /\ Signed(more, s) = Total(AmountOf(more), T)
  BY DEF Signed, S, T
<1>9. QED
  BY <1>2, <1>6, <1>7, <1>8 DEF more

LEMMA NetAppended ==
  ASSUME NEW R, \A r \in R : r.amount \in Nat /\ r.sign \in {1, -1}, NEW rows \in Seq(R), NEW row \in R
  PROVE  /\ Net(rows) \in Int
         /\ row.sign = 1 => Net(Append(rows, row)) = Net(rows) + row.amount
         /\ row.sign = -1 => Net(Append(rows, row)) = Net(rows) - row.amount
<1>1. /\ Signed(rows, 1) \in Nat /\ Signed(rows, -1) \in Nat /\ row.amount \in Nat
      /\ row.sign = 1 => Signed(Append(rows, row), 1) = Signed(rows, 1) + row.amount
      /\ row.sign # 1 => Signed(Append(rows, row), 1) = Signed(rows, 1)
      /\ row.sign = -1 => Signed(Append(rows, row), -1) = Signed(rows, -1) + row.amount
      /\ row.sign # -1 => Signed(Append(rows, row), -1) = Signed(rows, -1)
  BY SignedAppended
<1>2. QED
  BY <1>1 DEF Net

LEMMA RowFields ==
  /\ \A r \in ChargeRow : r.amount \in Nat /\ r.sign \in {1, -1}
  /\ \A r \in PaymentRow : r.amount \in Nat /\ r.sign \in {1, -1}
BY DEF ChargeRow, PaymentRow

\* A recalculation changes the child's debt by exactly the difference between
\* what it computed and what the charge with its earlier corrections comes to,
\* by a reversal and a new charge as by an adjustment in a later period.
THEOREM RecalculationsAreExact == Spec => RecalculationExact
<1> DEFINE Exact == \A period \in Periods, amount \in Amounts, adjustNext \in BOOLEAN :
                      recalculate(period, amount, adjustNext) =>
                        \E c \in TariffCharges(period) : Balance' - Balance = amount - effectiveAmount(c)
<1>1. ASSUME TypeOK PROVE Exact
  <2> SUFFICES ASSUME NEW period \in Periods, NEW amount \in Amounts, NEW adjustNext \in BOOLEAN,
                      recalculate(period, amount, adjustNext)
               PROVE  \E c \in TariffCharges(period) : Balance' - Balance = amount - effectiveAmount(c)
    OBVIOUS
  <2>1. PICK c \in TariffCharges(period) :
          \/ Corrections(c) = {} /\ reverseAndReplace(c, amount)
          \/ adjustNextPeriod(c, amount)
    BY DEF recalculate
  <2>2. charges \in Seq(ChargeRow) /\ payments \in Seq(PaymentRow) /\ amount \in Nat /\ Now \in Times /\ 0 \in Nat
    BY <1>1, LedgerConstants DEF TypeOK
  <2>3. c \in DOMAIN charges /\ c \in Nat /\ charges[c].amount \in Nat /\ charges[c].period \in Periods
        /\ effectiveAmount(c) \in Int
    BY <1>1, EffectiveType DEF TariffCharges, Live
  <2>4. Balance = Net(charges) - Net(payments)
    BY DEF Balance, Net, Signed
  <2>5. Balance' = Net(charges') - Net(payments)
    <3>1. payments' = payments
      BY <2>1 DEF reverseAndReplace, adjustNextPeriod, InsertCharges
    <3>2. QED
      BY <3>1 DEF Balance, Net, Signed
  <2>6. Net(payments) \in Int
    <3>1. \E row : row \in PaymentRow
      <4>1. [sign |-> 1, amount |-> 0, at |-> Now, source |-> 0] \in PaymentRow
        BY <2>2 DEF PaymentRow
      <4>2. QED
        BY <4>1
    <3>2. QED
      BY <2>2, <3>1, NetAppended, RowFields
  <2>7. CASE Corrections(c) = {} /\ reverseAndReplace(c, amount)
    <3> DEFINE old == NewCharge("tariff", -1, charges[c].amount, charges[c].period, Now, c, 0)
               new == NewCharge("tariff", 1, amount, charges[c].period, Now, 0, 0)
    <3>1. old \in ChargeRow /\ new \in ChargeRow
      BY <2>2, <2>3, NewChargeType DEF Kinds
    <3>2. old.sign = -1 /\ new.sign = 1 /\ old.amount = charges[c].amount /\ new.amount = amount
      BY DEF NewCharge
    <3>3. charges' = Append(Append(charges, old), new)
      BY <2>7 DEF reverseAndReplace, InsertCharges
    <3> HIDE DEF old, new
    <3>4. Append(charges, old) \in Seq(ChargeRow)
      BY <2>2, <3>1
    <3>5. Net(charges) \in Int /\ Net(Append(charges, old)) = Net(charges) - charges[c].amount
      BY <2>2, <3>1, <3>2, NetAppended, RowFields
    <3>6. Net(charges') = Net(Append(charges, old)) + amount
      BY <3>1, <3>2, <3>3, <3>4, NetAppended, RowFields
    <3>7. effectiveAmount(c) = charges[c].amount
      <4>1. \A s : {r \in Corrections(c) : charges[r].sign = s} = {}
        BY <2>7
      <4>2. \A s : Total(AmountOf(charges), {r \in Corrections(c) : charges[r].sign = s}) = 0
        BY <4>1, TotalZero
      <4>3. effectiveAmount(c) = charges[c].amount + Total(AmountOf(charges), {r \in Corrections(c) : charges[r].sign = 1})
                                 - Total(AmountOf(charges), {r \in Corrections(c) : charges[r].sign = -1})
        BY DEF effectiveAmount
      <4>4. Total(AmountOf(charges), {r \in Corrections(c) : charges[r].sign = 1}) = 0
        BY <4>2
      <4>5. Total(AmountOf(charges), {r \in Corrections(c) : charges[r].sign = -1}) = 0
        BY <4>2
      <4>6. QED
        BY <2>3, <4>3, <4>4, <4>5
    <3>8. QED
      <4>1. PICK a, b, d, e \in Int : /\ a = Net(charges) /\ b = Net(payments) /\ d = charges[c].amount
                                       /\ e = Net(charges')
        BY <2>2, <2>3, <2>6, <3>5, <3>6
      <4>2. e = (a - d) + amount /\ Balance = a - b /\ Balance' = e - b
        BY <2>4, <2>5, <3>5, <3>6, <4>1
      <4>3. Balance' - Balance = amount - d
        <5>1. ASSUME NEW x \in Int PROVE (((a - d) + x) - b) - (a - b) = x - d
          OBVIOUS
        <5>2. amount \in Int
          BY <2>2
        <5>3. (((a - d) + amount) - b) - (a - b) = amount - d
          BY <5>1, <5>2
        <5>4. QED
          BY <4>2, <5>3
      <4>4. QED
        BY <3>7, <4>1, <4>3
  <2>8. CASE adjustNextPeriod(c, amount)
    <3> DEFINE delta == amount - effectiveAmount(c)
               row(next) == NewCharge("adjustment", IF delta < 0 THEN -1 ELSE 1,
                                      IF delta < 0 THEN -delta ELSE delta, next, Now, 0, c)
    <3>1. PICK next \in Periods : charges' = Append(charges, row(next))
      BY <2>8 DEF adjustNextPeriod, InsertCharges
    <3>2. delta \in Int
      BY <2>2, <2>3
    <3> HIDE DEF delta
    <3>3. row(next) \in ChargeRow
      BY <2>2, <2>3, <3>2 DEF NewCharge, ChargeRow, Kinds
    <3>4. \/ row(next).sign = 1 /\ row(next).amount = delta
          \/ row(next).sign = -1 /\ row(next).amount = -delta
      BY <3>2 DEF NewCharge
    <3> HIDE DEF row
    <3>5. Net(charges) \in Int /\ Net(charges') = Net(charges) + delta
      BY <2>2, <3>1, <3>2, <3>3, <3>4, NetAppended, RowFields
    <3>6. Balance' - Balance = delta
      BY <2>4, <2>5, <2>6, <3>2, <3>5
    <3>7. QED
      BY <3>6 DEF delta
  <2>9. QED
    BY <2>1, <2>7, <2>8
<1>2. TypeOK /\ [Next]_vars => [Exact]_vars
  BY <1>1
<1>3. QED
  BY <1>2, TypeCorrect, PTL DEF Spec, RecalculationExact

-----------------------------------------------------------------------------
\* First-in first-out.

\* What a charge owes before a row and what all live rows owe.
LEMMA QueuesSeen ==
  ASSUME NEW cs, NEW ps, NEW al, SeenLedger(cs, ps, al)
  PROVE  /\ Queue(ps, Available(cs, ps, al), Live(ps))
         /\ Queue(cs, Outstanding(cs, ps, al), Live(cs))
         /\ Queue(cs, Remaining(cs, ps, al), Live(cs))
<1>1. /\ Live(cs) \subseteq DOMAIN cs /\ IsFiniteSet(Live(cs)) /\ DOMAIN cs \subseteq ChargeId
      /\ Live(ps) \subseteq DOMAIN ps /\ IsFiniteSet(Live(ps)) /\ DOMAIN ps \subseteq PaymentId
  BY SeenFinite
<1>2. /\ \A c \in DOMAIN cs : cs[c].at \in Int
      /\ \A p \in DOMAIN ps : ps[p].at \in Int
  BY DEF SeenLedger, SeenRows
<1>3. Live(cs) \subseteq Int /\ Live(ps) \subseteq Int
  BY <1>1 DEF ChargeId, PaymentId
<1>4. /\ \A p \in Live(ps) : Available(cs, ps, al)[p] \in Nat
      /\ \A c \in Live(cs) : Remaining(cs, ps, al)[c] \in Nat /\ Outstanding(cs, ps, al)[c] \in Nat
  BY QueriesType
<1>5. QED
  BY <1>1, <1>2, <1>3, <1>4 DEF Queue

LEMMA CreditType ==
  ASSUME NEW cs, NEW ps, NEW al, SeenLedger(cs, ps, al)
  PROVE  Credit(cs) \in Nat
<1> DEFINE rows == {c \in DOMAIN cs : /\ cs[c].sign = -1
                                      /\ cs[c].source = 0
                                      /\ cs[c].kind = "adjustment"}
<1>1. rows \subseteq DOMAIN cs /\ IsFiniteSet(rows)
  <2>1. IsFiniteSet(DOMAIN cs)
    BY LedgerConstants, LiveFinite DEF SeenLedger, SeenRows, ChargeId
  <2>2. QED
    BY <2>1, FS_Subset
<1>2. \A c \in rows : AmountOf(cs)[c] \in Nat
  BY DEF AmountOf, SeenLedger, SeenRows
<1> HIDE DEF rows
<1>3. Total(AmountOf(cs), rows) \in Nat
  BY <1>1, <1>2, TotalType
<1>4. QED
  BY <1>3 DEF Credit, rows

\* What allocateCredit gives to each charge is what the whole of the child's
\* money has in common with it, and what it takes from each payment is what the
\* whole debt has in common with it.
LEMMA AppliedExactly ==
  ASSUME NEW cs, NEW ps, NEW al, SeenLedger(cs, ps, al)
  PROVE  /\ Total(Available(cs, ps, al), Live(ps)) \in Nat
         /\ Total(Outstanding(cs, ps, al), Live(cs)) \in Nat
         /\ \A c \in Live(cs) :
              /\ Outstanding(cs, ps, al)[c] \in Nat
              /\ Total(Outstanding(cs, ps, al), Older(cs, Live(cs), c)) \in Nat
              /\ Total(ToCharge(Applied(cs, ps, al), c), Live(ps))
                   = Common(0, Total(Available(cs, ps, al), Live(ps)),
                            Total(Outstanding(cs, ps, al), Older(cs, Live(cs), c)),
                            Outstanding(cs, ps, al)[c])
         /\ \A p \in Live(ps) :
              /\ Available(cs, ps, al)[p] \in Nat
              /\ Total(Available(cs, ps, al), Older(ps, Live(ps), p)) \in Nat
              /\ Total(Applied(cs, ps, al)[p], Live(cs))
                   = Common(0, Total(Outstanding(cs, ps, al), Live(cs)),
                            Total(Available(cs, ps, al), Older(ps, Live(ps), p)),
                            Available(cs, ps, al)[p])
<1> DEFINE available == Available(cs, ps, al)
           outstanding == Outstanding(cs, ps, al)
           money(p) == Total(available, Older(ps, Live(ps), p))
           debt(c) == Total(outstanding, Older(cs, Live(cs), c))
           applied == Applied(cs, ps, al)
<1>1. Live(cs) \subseteq ChargeId /\ Live(ps) \subseteq PaymentId
  BY SeenFinite
<1>2. Queue(ps, available, Live(ps)) /\ Queue(cs, outstanding, Live(cs))
  BY QueuesSeen
<1>3. ASSUME NEW p \in Live(ps), NEW c \in Live(cs)
      PROVE  applied[p][c] = Common(money(p), available[p], debt(c), outstanding[c])
  BY <1>1 DEF Applied
<1> HIDE DEF available, outstanding, applied
<1>4. ASSUME NEW c \in Live(cs) PROVE outstanding[c] \in Nat /\ debt(c) \in Nat
  BY <1>2, OlderBefore DEF Queue
<1>5. ASSUME NEW p \in Live(ps) PROVE available[p] \in Nat /\ money(p) \in Nat
  BY <1>2, OlderBefore DEF Queue
<1>6. ASSUME NEW p \in Live(ps), NEW c \in Live(cs)
      PROVE  applied[p][c] = Common(debt(c), outstanding[c], money(p), available[p])
  <2>1. ASSUME NEW i \in Nat, NEW j \in Nat, NEW k \in Nat, NEW l \in Nat
        PROVE  Common(i, j, k, l) = Common(k, l, i, j)
    BY DEF Common, AtLeastZero, Lesser, Greater
  <2> HIDE DEF debt, money
  <2>2. QED
    BY <1>3, <1>4, <1>5, <2>1
<1>7. ASSUME NEW c \in Live(cs)
      PROVE  Total(ToCharge(applied, c), Live(ps))
               = Common(0, Total(available, Live(ps)), debt(c), outstanding[c])
  <2>1. \A p \in Live(ps) : ToCharge(applied, c)[p] = Common(money(p), available[p], debt(c), outstanding[c])
    <3>1. \A p \in Live(ps) : ToCharge(applied, c)[p] = applied[p][c]
      BY <1>1 DEF ToCharge
    <3>2. QED
      BY <1>3, <3>1
  <2> HIDE DEF debt
  <2>2. QED
    BY <1>2, <1>4, <2>1, ShareExact
<1>8. ASSUME NEW p \in Live(ps)
      PROVE  Total(applied[p], Live(cs))
               = Common(0, Total(outstanding, Live(cs)), money(p), available[p])
  <2> HIDE DEF money
  <2>1. \A c \in Live(cs) : applied[p][c] = Common(debt(c), outstanding[c], money(p), available[p])
    BY <1>6
  <2>2. QED
    BY <1>2, <1>5, <2>1, ShareExact
<1>9. Total(available, Live(ps)) \in Nat /\ Total(outstanding, Live(cs)) \in Nat
  BY <1>2, TotalType DEF Queue
<1>10. QED
  BY <1>4, <1>5, <1>7, <1>8, <1>9 DEF available, outstanding, applied

\* Money that allocateCredit gives to a charge leaves nothing owed on an older
\* one, with the child's credit counted.
LEMMA OldestPaidFirst ==
  ASSUME NEW cs, NEW ps, NEW al, Sound(cs, ps, al),
         NEW c \in Live(cs), NEW older \in Older(cs, Live(cs), c),
         Allocated(ps, Plus(al, Applied(cs, ps, al)), c) > Allocated(ps, al, c)
  PROVE  Outstanding(cs, ps, Plus(al, Applied(cs, ps, al)))[older] = 0
<1> DEFINE more == Applied(cs, ps, al)
           al2 == Plus(al, more)
           out == Outstanding(cs, ps, al)
           owed == Remaining(cs, ps, al)
           owed2 == Remaining(cs, ps, al2)
           debt(x) == Total(out, Older(cs, Live(cs), x))
           prior == Total(owed, Older(cs, Live(cs), older))
           prior2 == Total(owed2, Older(cs, Live(cs), older))
           money == Total(Available(cs, ps, al), Live(ps))
           given(x) == Total(ToCharge(more, x), Live(ps))
<1>1. /\ SeenLedger(cs, ps, al) /\ more \in Allocation /\ SeenLedger(cs, ps, al2)
      /\ Live(cs) \subseteq ChargeId /\ IsFiniteSet(Live(cs)) /\ Live(cs) \subseteq DOMAIN cs
      /\ older \in Live(cs) /\ Credit(cs) \in Nat
  <2>1. SeenLedger(cs, ps, al)
    BY DEF Sound
  <2>2. more \in Allocation
    BY <2>1, AppliedBounds
  <2>3. older \in Live(cs)
    BY DEF Older
  <2>4. QED
    BY <2>1, <2>2, <2>3, PlusAdds, SeenFinite, CreditType
<1>2. /\ Queue(cs, out, Live(cs)) /\ Queue(cs, owed, Live(cs)) /\ Queue(cs, owed2, Live(cs))
  BY <1>1, QueuesSeen
<1>3. ASSUME NEW x \in Live(cs)
      PROVE  /\ Allocated(ps, al2, x) = Allocated(ps, al, x) + given(x)
             /\ given(x) = Common(0, money, debt(x), out[x])
             /\ given(x) \in Nat /\ Allocated(ps, al, x) \in Nat /\ Allocated(ps, al2, x) \in Nat
             /\ cs[x].amount \in Nat
             /\ owed[x] = AtLeastZero(cs[x].amount - Allocated(ps, al, x))
             /\ owed2[x] = AtLeastZero(cs[x].amount - Allocated(ps, al2, x))
             /\ debt(x) \in Nat /\ out[x] \in Nat /\ money \in Nat
  <2>1. Allocated(ps, al2, x) = Allocated(ps, al, x) + given(x)
    BY <1>1, PlusAdds
  <2>2. /\ given(x) = Common(0, money, debt(x), out[x])
        /\ debt(x) \in Nat /\ out[x] \in Nat /\ money \in Nat
    BY <1>1, AppliedExactly
  <2>3. Allocated(ps, al, x) \in Nat /\ Allocated(ps, al2, x) \in Nat
    BY <1>1, QueriesType
  <2>4. cs[x].amount \in Nat
    BY <1>1 DEF SeenLedger, SeenRows
  <2>5. /\ owed[x] = AtLeastZero(cs[x].amount - Allocated(ps, al, x))
        /\ owed2[x] = AtLeastZero(cs[x].amount - Allocated(ps, al2, x))
    BY DEF Remaining
  <2> HIDE DEF given, money, debt, out
  <2>6. given(x) \in Nat
    BY <2>2 DEF Common, AtLeastZero, Lesser, Greater
  <2>7. QED
    BY <2>1, <2>2, <2>3, <2>4, <2>5, <2>6 DEF given, money, debt, out
<1>4. Outstanding(cs, ps, al2)[older] = AtLeastZero(owed2[older] - AtLeastZero(Credit(cs) - prior2))
  BY <1>1 DEF Outstanding
<1>5. out[older] = AtLeastZero(owed[older] - AtLeastZero(Credit(cs) - prior))
  BY <1>1 DEF Outstanding
<1>6. debt(older) + out[older] <= debt(c)
  BY <1>2, OlderBefore DEF Queue
<1>7. \A x \in Live(cs) : owed[x] \in Nat /\ owed2[x] \in Nat /\ owed2[x] <= owed[x]
  <2> HIDE DEF al2, owed, owed2, given, debt, out, money
  <2>1. QED
    BY <1>3 DEF AtLeastZero
<1>8. prior \in Nat /\ prior2 \in Nat /\ prior2 <= prior
  <2>1. /\ Older(cs, Live(cs), older) \subseteq Live(cs) /\ IsFiniteSet(Older(cs, Live(cs), older))
    BY <1>1, FS_Subset DEF Older
  <2> HIDE DEF owed, owed2
  <2>2. QED
    BY <1>7, <2>1, TotalType, TotalPointwise
<1> HIDE DEF al2, owed, owed2, given, debt, out, money, prior, prior2
<1>9. given(c) > 0
  BY <1>3 DEF al2, more
<1>10. money > debt(c)
  BY <1>3, <1>9 DEF Common, AtLeastZero, Lesser, Greater
<1>11. given(older) = out[older]
  BY <1>1, <1>3, <1>6, <1>10 DEF Common, AtLeastZero, Lesser, Greater
<1>12. owed2[older] <= AtLeastZero(Credit(cs) - prior2)
  <2>1. PICK x, a, g, n \in Nat : /\ x = cs[older].amount /\ a = Allocated(ps, al, older)
                                  /\ g = given(older) /\ n = Credit(cs)
    BY <1>1, <1>3
  <2>2. /\ owed[older] = AtLeastZero(x - a) /\ owed2[older] = AtLeastZero(x - (a + g))
        /\ g = AtLeastZero(owed[older] - AtLeastZero(n - prior))
    BY <1>1, <1>3, <1>5, <1>11, <2>1
  <2>3. QED
    BY <1>8, <2>1, <2>2 DEF AtLeastZero
<1>13. QED
  <2>1. PICK x, y \in Nat : x = owed2[older] /\ y = AtLeastZero(Credit(cs) - prior2)
    BY <1>1, <1>7, <1>8 DEF AtLeastZero
  <2>2. Outstanding(cs, ps, al2)[older] = AtLeastZero(x - y) /\ x <= y
    BY <1>4, <1>12, <2>1
  <2>3. QED
    BY <2>1, <2>2 DEF AtLeastZero, al2, more

\* The steps that run allocateCredit on the ledger they leave behind; the others
\* write neither the rows nor the allocations, but for WithoutCredit.
LEMMA CreditRuns ==
  ASSUME ~Overlap, IInv, Next
  PROVE  \/ /\ alloc' = Plus(alloc, Applied(charges', payments', alloc))
            /\ Sound(charges', payments', alloc)
         \/ WithoutCredit
         \/ UNCHANGED <<charges, payments, alloc>>
<1>1. /\ TypeOK /\ Sound(charges, payments, alloc)
      /\ charges \in Seq(ChargeRow) /\ Len(charges) <= MaxCharges /\ Len(charges) \in Nat
      /\ payments \in Seq(PaymentRow) /\ Len(payments) <= MaxPayments /\ Len(payments) \in Nat
      /\ alloc \in Allocation /\ Extends(charges, charges) /\ Extends(payments, payments)
  BY DEF IInv, TypeInv, TypeOK, Extends
<1>2. Amounts \subseteq Nat /\ Now \in Times
  BY LedgerConstants
<1>3. CASE WritesCharges
  <2>1. PICK rows \in Seq(ChargeRow) : Extends(charges, rows) /\ InsertCharges(rows)
    BY <1>1, <1>3, ChargeRowsAdded
  <2>2. /\ Len(rows) <= MaxCharges /\ charges' = rows
        /\ alloc' = Plus(alloc, Applied(rows, payments, alloc)) /\ payments' = payments
    BY <2>1 DEF InsertCharges, allocateCredit
  <2>3. SeenLedger(rows, payments, alloc)
    BY <1>1, <2>2, TablesSeen
  <2>4. Sound(rows, payments, alloc)
    BY <1>1, <2>1, <2>3, GrowSound
  <2>5. QED
    BY <2>2, <2>4
<1>4. ASSUME NEW p \in PaymentId, cancel(p)
      PROVE  /\ alloc' = Plus(alloc, Applied(charges', payments', alloc))
             /\ Sound(charges', payments', alloc)
  <2> DEFINE row == [payments[p] EXCEPT !.sign = -1, !.source = p, !.at = Now]
             rows == Append(payments, row)
  <2>1. row \in PaymentRow
    <3>1. payments[p] \in PaymentRow /\ p \in Nat
      BY <1>1, <1>4 DEF cancel
    <3>2. QED
      BY <1>2, <3>1 DEF PaymentRow
  <2>2. /\ payments' = rows /\ alloc' = Plus(alloc, Applied(charges, rows, alloc))
        /\ charges' = charges /\ Len(payments) < MaxPayments
    BY <1>4 DEF cancel, allocateCredit
  <2> HIDE DEF row
  <2>3. rows \in Seq(PaymentRow) /\ Extends(payments, rows) /\ Len(rows) <= MaxPayments
    BY <1>1, <2>1, <2>2, RowAppended, LedgerConstants
  <2> HIDE DEF rows
  <2>4. SeenLedger(charges, rows, alloc)
    BY <1>1, <2>3, TablesSeen
  <2>5. Sound(charges, rows, alloc)
    BY <1>1, <2>3, <2>4, GrowSound
  <2>6. QED
    BY <2>2, <2>5
<1>5. ASSUME NEW k \in Clerks, NEW amount \in Amounts, NEW at \in Times, CommitPayment(k, amount, at)
      PROVE  /\ alloc' = Plus(alloc, Applied(charges', payments', alloc))
             /\ Sound(charges', payments', alloc)
  <2> DEFINE rows == Append(payments, NewPayment(amount, at))
             more == Applied(SeenCharges(k), SeenPayments(k, amount, at), tx[k].alloc)
  <2>1. MayCommit(k, amount) /\ PutPayment(k, amount, at, more)
    BY <1>5 DEF CommitPayment
  <2>2. /\ SeenCharges(k) = charges /\ SeenPayments(k, amount, at) = rows
        /\ tx[k].alloc = alloc /\ Sound(charges, rows, alloc)
    BY <1>2, <2>1, SeesCurrent
  <2>3. charges' = charges /\ payments' = rows /\ alloc' = Plus(alloc, more)
    BY <2>1 DEF PutPayment
  <2> HIDE DEF rows
  <2>4. QED
    BY <2>2, <2>3
<1>6. ASSUME \/ \E k \in Clerks : BeginPayment(k) \/ AbortPayment(k)
             \/ \E period \in Periods : close(period) \/ reopen(period)
      PROVE  UNCHANGED <<charges, payments, alloc>>
  BY <1>6 DEF BeginPayment, AbortPayment, close, reopen
<1>7. QED
  BY <1>3, <1>4, <1>5, <1>6 DEF Next, WritesCharges, WithoutCredit

\* Money that allocateCredit applies goes to the oldest charge that still owes,
\* for any number of rows and clerks, under the condition of the amounts.
THEOREM OldestIsPaidFirst ==
  ASSUME ~Overlap
  PROVE  Spec => OldestFirst
<1> DEFINE Fifo == alloc' # alloc =>
             LET owed == Outstanding(charges, payments, alloc)'
                 paidMore == {c \in Live(charges)' :
                   Allocated(payments, alloc, c)' > Total(ToCharge(alloc, c), Live(payments)')}
             IN \/ \A c \in paidMore : \A older \in Older(charges, Live(charges), c)' : owed[older] = 0
                \/ WithoutCredit
<1>1. ASSUME IInv, Next PROVE Fifo
  <2>1. CASE /\ alloc' = Plus(alloc, Applied(charges', payments', alloc))
             /\ Sound(charges', payments', alloc)
    <3>1. PICK cs, ps : cs = charges' /\ ps = payments'
      OBVIOUS
    <3>2. alloc' = Plus(alloc, Applied(cs, ps, alloc)) /\ Sound(cs, ps, alloc)
      BY <2>1, <3>1
    <3>3. SUFFICES ASSUME NEW c \in Live(cs), Allocated(ps, alloc', c) > Allocated(ps, alloc, c),
                          NEW older \in Older(cs, Live(cs), c)
                   PROVE  Outstanding(cs, ps, alloc')[older] = 0
      BY <3>1 DEF Allocated
    <3>4. QED
      BY <3>2, <3>3, OldestPaidFirst
  <2>2. QED
    BY <1>1, <2>1, CreditRuns
<1>2. IInv /\ [Next]_vars => [Fifo]_vars
  BY <1>1
<1>3. QED
  BY <1>2, SoundInit, SoundStep, PTL DEF Spec, OldestFirst

-----------------------------------------------------------------------------
\* The two views of the debt.

\* The view of the charges sums to what they owe less the child's credit.
LEMMA DebtTotal ==
  ASSUME NEW cs, NEW ps, NEW al, SeenLedger(cs, ps, al)
  PROVE  /\ Total(Remaining(cs, ps, al), Live(cs)) \in Nat
         /\ Credit(cs) \in Nat
         /\ Total(Outstanding(cs, ps, al), Live(cs))
              = AtLeastZero(Total(Remaining(cs, ps, al), Live(cs)) - Credit(cs))
<1> DEFINE owed == Remaining(cs, ps, al)
           out == Outstanding(cs, ps, al)
           prior(c) == Total(owed, Older(cs, Live(cs), c))
           credit == Credit(cs)
           covered == [c \in Live(cs) |-> Common(prior(c), owed[c], 0, credit)]
           all == Total(owed, Live(cs))
<1>1. Queue(cs, owed, Live(cs)) /\ credit \in Nat
  BY QueuesSeen, CreditType
<1>2. ASSUME NEW c \in Live(cs)
      PROVE  out[c] = AtLeastZero(owed[c] - AtLeastZero(credit - prior(c)))
  BY DEF Outstanding
<1> HIDE DEF owed, out, credit
<1>3. ASSUME NEW c \in Live(cs) PROVE owed[c] \in Nat /\ prior(c) \in Nat
  BY <1>1, OlderBefore DEF Queue
<1>4. ASSUME NEW c \in Live(cs)
      PROVE  out[c] \in Nat /\ covered[c] \in Nat /\ owed[c] = out[c] + covered[c]
  <2>1. covered[c] = Common(prior(c), owed[c], 0, credit)
    OBVIOUS
  <2> HIDE DEF covered, prior
  <2>2. QED
    BY <1>1, <1>2, <1>3, <2>1 DEF Common, AtLeastZero, Lesser, Greater
<1>5. all \in Nat /\ Total(covered, Live(cs)) = Common(0, all, 0, credit)
  <2>1. \A c \in Live(cs) : covered[c] = Common(prior(c), owed[c], 0, credit)
    OBVIOUS
  <2>2. 0 \in Nat
    OBVIOUS
  <2> HIDE DEF covered
  <2>3. QED
    BY <1>1, <2>1, <2>2, ShareExact
<1> HIDE DEF covered
<1>6. IsFiniteSet(Live(cs))
  BY <1>1 DEF Queue
<1>7. all = Total(out, Live(cs)) + Total(covered, Live(cs)) /\ Total(out, Live(cs)) \in Nat
  BY <1>4, <1>6, TotalPlus, TotalType
<1> HIDE DEF all
<1>8. Total(out, Live(cs)) = AtLeastZero(all - credit)
  <2>1. PICK x \in Nat : x = Total(out, Live(cs))
    BY <1>7
  <2>2. all = x + Common(0, all, 0, credit)
    BY <1>5, <1>7, <2>1
  <2>3. x = AtLeastZero(all - credit)
    BY <1>1, <1>5, <2>2 DEF Common, AtLeastZero, Lesser, Greater
  <2>4. QED
    BY <2>1, <2>3
<1>9. QED
  BY <1>1, <1>5, <1>8 DEF all, out, owed, credit

\* What the standing charges were paid is what the standing payments gave.
LEMMA PaidIsSpent ==
  ASSUME NEW cs, NEW ps, NEW al, SeenLedger(cs, ps, al)
  PROVE  Total([c \in Live(cs) |-> Allocated(ps, al, c)], Live(cs))
           = Total([p \in Live(ps) |-> Spent(cs, al, p)], Live(ps))
<1> DEFINE column == [c \in Live(cs) |-> ToCharge(al, c)]
           paid == [c \in Live(cs) |-> Allocated(ps, al, c)]
           spent == [p \in Live(ps) |-> Spent(cs, al, p)]
<1>1. /\ Live(cs) \subseteq ChargeId /\ IsFiniteSet(Live(cs))
      /\ Live(ps) \subseteq PaymentId /\ IsFiniteSet(Live(ps))
      /\ al \in Allocation
  BY SeenFinite DEF SeenLedger
<1>2. Table(al, Live(ps), Live(cs))
  BY <1>1 DEF Table, Allocation
<1>3. \A c \in Live(cs), p \in Live(ps) : column[c][p] = al[p][c]
  BY <1>1 DEF ToCharge
<1>4. \A p \in Live(ps) : spent[p] = Total(al[p], Live(cs))
  BY DEF Spent
<1>5. \A c \in Live(cs) : paid[c] = Total(column[c], Live(ps))
  BY DEF Allocated
<1> HIDE DEF column, paid, spent
<1>6. Total(spent, Live(ps)) = Total(paid, Live(cs))
  BY <1>2, <1>3, <1>4, <1>5, TotalSwap
<1>7. QED
  BY <1>6 DEF paid, spent

\* What stands of a ledger within its amounts: charges are the part paid and
\* the part owed, payments the part given and the part left.
LEMMA Parted ==
  ASSUME NEW cs, NEW ps, NEW al, Sound(cs, ps, al)
  PROVE  \E paid \in Nat :
           /\ Total(AmountOf(cs), Live(cs)) = Total(Remaining(cs, ps, al), Live(cs)) + paid
           /\ Total(AmountOf(ps), Live(ps)) = Total(Available(cs, ps, al), Live(ps)) + paid
           /\ Total(Remaining(cs, ps, al), Live(cs)) \in Nat
           /\ Total(Available(cs, ps, al), Live(ps)) \in Nat
<1> DEFINE owed == Remaining(cs, ps, al)
           left == Available(cs, ps, al)
           paid == [c \in Live(cs) |-> Allocated(ps, al, c)]
           spent == [p \in Live(ps) |-> Spent(cs, al, p)]
<1>1. SeenLedger(cs, ps, al)
  BY DEF Sound
<1>2. /\ Live(cs) \subseteq DOMAIN cs /\ IsFiniteSet(Live(cs)) /\ DOMAIN cs \subseteq ChargeId
      /\ Live(ps) \subseteq DOMAIN ps /\ IsFiniteSet(Live(ps)) /\ DOMAIN ps \subseteq PaymentId
  BY <1>1, SeenFinite
<1>3. ASSUME NEW c \in Live(cs)
      PROVE  owed[c] \in Nat /\ paid[c] \in Nat /\ AmountOf(cs)[c] = owed[c] + paid[c]
  <2>1. owed[c] = AtLeastZero(cs[c].amount - Allocated(ps, al, c)) /\ paid[c] = Allocated(ps, al, c)
    BY DEF Remaining
  <2>2. cs[c].amount \in Nat /\ Allocated(ps, al, c) \in Nat /\ Allocated(ps, al, c) <= cs[c].amount
    BY <1>1, <1>2, QueriesType DEF Sound, Within, SeenLedger, SeenRows
  <2>3. AmountOf(cs)[c] = cs[c].amount
    BY <1>2 DEF AmountOf
  <2> HIDE DEF owed, paid
  <2>4. QED
    BY <2>1, <2>2, <2>3 DEF AtLeastZero
<1>4. ASSUME NEW p \in Live(ps)
      PROVE  left[p] \in Nat /\ spent[p] \in Nat /\ AmountOf(ps)[p] = left[p] + spent[p]
  <2>1. left[p] = AtLeastZero(ps[p].amount - Spent(cs, al, p)) /\ spent[p] = Spent(cs, al, p)
    BY DEF Available
  <2>2. ps[p].amount \in Nat /\ Spent(cs, al, p) \in Nat /\ Spent(cs, al, p) <= ps[p].amount
    BY <1>1, <1>2, QueriesType DEF Sound, Within, SeenLedger, SeenRows
  <2>3. AmountOf(ps)[p] = ps[p].amount
    BY <1>2 DEF AmountOf
  <2> HIDE DEF left, spent
  <2>4. QED
    BY <2>1, <2>2, <2>3 DEF AtLeastZero
<1>5. Total(paid, Live(cs)) = Total(spent, Live(ps))
  BY <1>1, PaidIsSpent
<1> HIDE DEF owed, left, paid, spent
<1>6. /\ Total(AmountOf(cs), Live(cs)) = Total(owed, Live(cs)) + Total(paid, Live(cs))
      /\ Total(owed, Live(cs)) \in Nat /\ Total(paid, Live(cs)) \in Nat
  BY <1>2, <1>3, TotalPlus, TotalType
<1>7. /\ Total(AmountOf(ps), Live(ps)) = Total(left, Live(ps)) + Total(spent, Live(ps))
      /\ Total(left, Live(ps)) \in Nat
  BY <1>2, <1>4, TotalPlus, TotalType
<1>8. QED
  BY <1>5, <1>6, <1>7 DEF owed, left

\* Once allocateCredit has run, what the view of the charges sums to is the
\* standing charges less the credit and the standing payments, or nothing.
LEMMA CreditSettles ==
  ASSUME NEW cs, NEW ps, NEW al, Sound(cs, ps, al)
  PROVE  /\ Total(AmountOf(cs), Live(cs)) \in Nat /\ Total(AmountOf(ps), Live(ps)) \in Nat
         /\ Credit(cs) \in Nat
         /\ Total(Outstanding(cs, ps, Plus(al, Applied(cs, ps, al))), Live(cs))
              = AtLeastZero((Total(AmountOf(cs), Live(cs)) - Credit(cs)) - Total(AmountOf(ps), Live(ps)))
<1> DEFINE more == Applied(cs, ps, al)
           al2 == Plus(al, more)
           out == Outstanding(cs, ps, al)
           debt(c) == Total(out, Older(cs, Live(cs), c))
           given == [c \in Live(cs) |-> Total(ToCharge(more, c), Live(ps))]
           owed == Remaining(cs, ps, al)
           owed2 == Remaining(cs, ps, al2)
           money == Total(Available(cs, ps, al), Live(ps))
           wanted == Total(out, Live(cs))
<1>1. SeenLedger(cs, ps, al) /\ more \in Allocation
  BY AppliedBounds DEF Sound
<1>2. SeenLedger(cs, ps, al2) /\ Sound(cs, ps, al2)
  BY <1>1, PlusAdds, CreditSound
<1>3. /\ Live(cs) \subseteq DOMAIN cs /\ IsFiniteSet(Live(cs)) /\ DOMAIN cs \subseteq ChargeId
  BY <1>1, SeenFinite
<1>4. /\ money \in Nat /\ wanted \in Nat
      /\ \A c \in Live(cs) : /\ out[c] \in Nat /\ debt(c) \in Nat
                            /\ given[c] = Common(0, money, debt(c), out[c])
  BY <1>1, AppliedExactly
<1>5. Queue(cs, out, Live(cs))
  BY <1>1, QueuesSeen
<1>6. ASSUME NEW c \in Live(cs)
      PROVE  owed[c] \in Nat /\ owed2[c] \in Nat /\ given[c] \in Nat /\ owed[c] = owed2[c] + given[c]
  <2>1. Allocated(ps, al2, c) = Allocated(ps, al, c) + given[c]
    BY <1>1, <1>3, PlusAdds
  <2>2. /\ owed[c] = AtLeastZero(cs[c].amount - Allocated(ps, al, c))
        /\ owed2[c] = AtLeastZero(cs[c].amount - Allocated(ps, al2, c))
    BY DEF Remaining
  <2>3. /\ cs[c].amount \in Nat /\ Allocated(ps, al, c) \in Nat /\ Allocated(ps, al2, c) \in Nat
        /\ Allocated(ps, al2, c) <= cs[c].amount
    BY <1>1, <1>2, <1>3, QueriesType DEF Sound, Within, SeenLedger, SeenRows
  <2>4. given[c] \in Nat
    <3>1. given[c] = Common(0, money, debt(c), out[c]) /\ debt(c) \in Nat /\ out[c] \in Nat
      BY <1>4
    <3> HIDE DEF given, money, debt, out
    <3>2. QED
      BY <1>4, <3>1 DEF Common, AtLeastZero, Lesser, Greater
  <2> HIDE DEF given, owed, owed2, al2
  <2>5. QED
    BY <2>1, <2>2, <2>3, <2>4 DEF AtLeastZero
<1>7. PICK paid \in Nat : /\ Total(AmountOf(cs), Live(cs)) = Total(owed, Live(cs)) + paid
                          /\ Total(AmountOf(ps), Live(ps)) = money + paid
                          /\ Total(owed, Live(cs)) \in Nat
  BY Parted
<1>8. /\ Credit(cs) \in Nat /\ Total(owed2, Live(cs)) \in Nat
      /\ wanted = AtLeastZero(Total(owed, Live(cs)) - Credit(cs))
      /\ Total(Outstanding(cs, ps, al2), Live(cs)) = AtLeastZero(Total(owed2, Live(cs)) - Credit(cs))
  BY <1>1, <1>2, DebtTotal
<1> HIDE DEF given, owed, owed2, money, out
<1>9. Total(owed, Live(cs)) = Total(owed2, Live(cs)) + Total(given, Live(cs))
      /\ Total(given, Live(cs)) \in Nat
  BY <1>3, <1>6, TotalPlus, TotalType
<1>10. Total(given, Live(cs)) = Common(0, wanted, 0, money)
  <2>1. \A c \in Live(cs) : given[c] = Common(debt(c), out[c], 0, money)
    <3>1. ASSUME NEW i \in Nat, NEW j \in Nat, NEW k \in Nat
          PROVE  Common(0, i, j, k) = Common(j, k, 0, i)
      BY DEF Common, AtLeastZero, Lesser, Greater
    <3> HIDE DEF debt
    <3>2. QED
      BY <1>4, <3>1
  <2>2. 0 \in Nat
    OBVIOUS
  <2>3. QED
    BY <1>4, <1>5, <2>1, <2>2, ShareExact
<1> HIDE DEF wanted
<1>11. QED
  <2>1. PICK r, r2, g, n \in Nat : /\ r = Total(owed, Live(cs)) /\ r2 = Total(owed2, Live(cs))
                                  /\ g = Total(given, Live(cs)) /\ n = Credit(cs)
    BY <1>7, <1>8, <1>9
  <2>2. /\ Total(AmountOf(cs), Live(cs)) = r + paid /\ Total(AmountOf(ps), Live(ps)) = money + paid
        /\ r = r2 + g /\ g = Common(0, AtLeastZero(r - n), 0, money)
        /\ Total(Outstanding(cs, ps, al2), Live(cs)) = AtLeastZero(r2 - n)
    BY <1>7, <1>8, <1>9, <1>10, <2>1
  <2>3. AtLeastZero(r2 - n) = AtLeastZero(((r + paid) - n) - (money + paid))
    BY <1>4, <2>1, <2>2 DEF Common, AtLeastZero, Lesser, Greater
  <2>4. QED
    BY <1>4, <1>8, <2>1, <2>2, <2>3 DEF al2, more

-----------------------------------------------------------------------------
\* What a ledger comes to, row by row.

\* A cancelling row refers to a row that is there.
SourcesWithin(rows) == \A x \in DOMAIN rows : rows[x].source \in Nat /\ rows[x].source <= Len(rows)

Standing(rows) == Total(AmountOf(rows), Live(rows))

\* How one more row changes what stands.
LEMMA StandingAppended ==
  ASSUME NEW R, \A r \in R : r.amount \in Nat /\ r.sign \in {1, -1},
         NEW rows \in Seq(R), NEW row \in R, SourcesWithin(rows)
  PROVE  /\ Standing(rows) \in Nat
         /\ row.sign = 1 => Standing(Append(rows, row)) = Standing(rows) + row.amount
         /\ row.sign = -1 /\ row.source \notin DOMAIN rows =>
              Standing(Append(rows, row)) = Standing(rows)
         /\ row.sign = -1 /\ row.source \in Live(rows) =>
              Standing(Append(rows, row)) = Standing(rows) - rows[row.source].amount
<1> DEFINE more == Append(rows, row)
           y == Len(rows) + 1
           S == Live(rows)
           T == Live(more)
<1>1. /\ Len(rows) \in Nat /\ DOMAIN rows = 1..Len(rows) /\ DOMAIN more = DOMAIN rows \cup {y}
      /\ more[y] = row /\ y \notin DOMAIN rows /\ \A x \in DOMAIN rows : more[x] = rows[x] /\ rows[x] \in R
  OBVIOUS
<1>2. \A x \in DOMAIN rows : rows[x].source # y
  BY <1>1 DEF SourcesWithin
<1> HIDE DEF more, y
<1>3. row.sign = 1 => T = S \cup {y}
  BY <1>1, <1>2 DEF Live, IsReversed
<1>4. row.sign = -1 => T = S \ {row.source}
  BY <1>1, <1>2 DEF Live, IsReversed
<1>5. IsFiniteSet(S) /\ S \subseteq DOMAIN rows
  <2>1. IsFiniteSet(1..Len(rows))
    BY <1>1, UpTo
  <2>2. S \subseteq DOMAIN rows
    BY DEF Live
  <2>3. QED
    BY <1>1, <2>1, <2>2, FS_Subset
<1> HIDE DEF S, T
<1>6. /\ \A x \in S : AmountOf(rows)[x] = AmountOf(more)[x] /\ AmountOf(rows)[x] \in Nat
                      /\ AmountOf(rows)[x] = rows[x].amount
      /\ AmountOf(more)[y] = row.amount /\ row.amount \in Nat /\ y \notin S
  BY <1>1, <1>5 DEF AmountOf
<1>7. Total(AmountOf(rows), S) = Total(AmountOf(more), S) /\ Total(AmountOf(rows), S) \in Nat
  BY <1>5, <1>6, TotalSame, TotalType
<1>8. Total(AmountOf(more), S \cup {y}) = Total(AmountOf(more), S) + row.amount
  BY <1>5, <1>6, TotalAddRow
<1>9. ASSUME NEW c \in S
      PROVE  Total(AmountOf(more), S \ {c}) = Total(AmountOf(more), S) - rows[c].amount
  <2> DEFINE D == S \ {c}
  <2>1. IsFiniteSet(D) /\ c \notin D /\ D \cup {c} = S /\ D \subseteq S
    BY <1>5, FS_Subset
  <2> HIDE DEF D
  <2>2. AmountOf(more)[c] = rows[c].amount /\ AmountOf(more)[c] \in Nat
        /\ \A x \in D : AmountOf(more)[x] \in Nat
    BY <1>6, <2>1
  <2>3. Total(AmountOf(more), D \cup {c}) = Total(AmountOf(more), D) + AmountOf(more)[c]
    BY <2>1, <2>2, TotalAddRow
  <2>4. Total(AmountOf(more), D) \in Nat
    BY <2>1, <2>2, TotalType
  <2>5. Total(AmountOf(more), S) = Total(AmountOf(more), D) + rows[c].amount
    BY <2>1, <2>2, <2>3
  <2>6. rows[c].amount \in Nat
    BY <2>2
  <2>7. Total(AmountOf(more), D) = Total(AmountOf(more), S) - rows[c].amount
    BY <2>4, <2>5, <2>6
  <2>8. QED
    BY <2>7 DEF D
<1>10. Standing(rows) = Total(AmountOf(rows), S) /\ Standing(more) = Total(AmountOf(more), T)
  BY DEF Standing, S, T
<1>11. row.source \notin DOMAIN rows => S \ {row.source} = S
  BY <1>5
<1>12. row.source \in Live(rows) => row.source \in S
  BY DEF S
<1>13. QED
  BY <1>3, <1>4, <1>7, <1>8, <1>9, <1>10, <1>11, <1>12 DEF more

\* How one more charge row changes the child's credit.
LEMMA CreditAppended ==
  ASSUME NEW rows \in Seq(ChargeRow), NEW row \in ChargeRow
  PROVE  /\ Credit(rows) \in Nat
         /\ row.sign = -1 /\ row.source = 0 /\ row.kind = "adjustment" =>
              Credit(Append(rows, row)) = Credit(rows) + row.amount
         /\ row.sign = 1 \/ row.source # 0 => Credit(Append(rows, row)) = Credit(rows)
<1> DEFINE more == Append(rows, row)
           y == Len(rows) + 1
           IsCredit(r) == r.sign = -1 /\ r.source = 0 /\ r.kind = "adjustment"
           S == {c \in DOMAIN rows : IsCredit(rows[c])}
           T == {c \in DOMAIN more : IsCredit(more[c])}
<1>1. /\ Len(rows) \in Nat /\ DOMAIN rows = 1..Len(rows) /\ DOMAIN more = DOMAIN rows \cup {y}
      /\ more[y] = row /\ y \notin DOMAIN rows
      /\ \A x \in DOMAIN rows : more[x] = rows[x] /\ rows[x] \in ChargeRow
  OBVIOUS
<1>2. row.amount \in Nat /\ \A x \in DOMAIN rows : rows[x].amount \in Nat
  BY <1>1, RowFields
<1> HIDE DEF more, y
<1>3. Credit(rows) = Total(AmountOf(rows), S) /\ Credit(more) = Total(AmountOf(more), T)
  BY DEF Credit
<1>4. T = IF IsCredit(row) THEN S \cup {y} ELSE S
  BY <1>1
<1>5. IsFiniteSet(S) /\ S \subseteq DOMAIN rows
  <2>1. IsFiniteSet(1..Len(rows))
    BY <1>1, UpTo
  <2>2. QED
    BY <1>1, <2>1, FS_Subset
<1>6. IsCredit(row) <=> row.sign = -1 /\ row.source = 0 /\ row.kind = "adjustment"
  OBVIOUS
<1> HIDE DEF S, T, IsCredit
<1>7. /\ \A x \in S : AmountOf(rows)[x] = AmountOf(more)[x] /\ AmountOf(rows)[x] \in Nat
      /\ AmountOf(more)[y] = row.amount /\ y \notin S
  BY <1>1, <1>2, <1>5 DEF AmountOf
<1>8. Total(AmountOf(rows), S) = Total(AmountOf(more), S) /\ Total(AmountOf(rows), S) \in Nat
  BY <1>5, <1>7, TotalSame, TotalType
<1>9. Total(AmountOf(more), S \cup {y}) = Total(AmountOf(more), S) + row.amount
  BY <1>2, <1>5, <1>7, TotalAddRow
<1>10. QED
  BY <1>3, <1>4, <1>6, <1>8, <1>9 DEF more

\* All the charge rows together come to what stands less the credit.
Booked(rows) == SourcesWithin(rows) /\ Net(rows) = Standing(rows) - Credit(rows)

LEMMA RowBooked ==
  ASSUME NEW rows \in Seq(ChargeRow), NEW row \in ChargeRow, Booked(rows), Bookable(rows, row)
  PROVE  Booked(Append(rows, row))
<1> DEFINE more == Append(rows, row)
<1>1. /\ Len(rows) \in Nat /\ DOMAIN rows = 1..Len(rows) /\ Len(more) = Len(rows) + 1
      /\ \A x \in DOMAIN more : more[x] = row \/ (x \in DOMAIN rows /\ more[x] = rows[x])
  OBVIOUS
<1>2. /\ Net(rows) \in Int
      /\ row.sign = 1 => Net(more) = Net(rows) + row.amount
      /\ row.sign = -1 => Net(more) = Net(rows) - row.amount
  BY RowFields, NetAppended
<1>3. /\ Standing(rows) \in Nat
      /\ row.sign = 1 => Standing(more) = Standing(rows) + row.amount
      /\ row.sign = -1 /\ row.source \notin DOMAIN rows => Standing(more) = Standing(rows)
      /\ row.sign = -1 /\ row.source \in Live(rows) => Standing(more) = Standing(rows) - rows[row.source].amount
  BY RowFields, StandingAppended DEF Booked
<1>4. /\ Credit(rows) \in Nat
      /\ row.sign = -1 /\ row.source = 0 /\ row.kind = "adjustment" => Credit(more) = Credit(rows) + row.amount
      /\ row.sign = 1 \/ row.source # 0 => Credit(more) = Credit(rows)
  BY CreditAppended
<1>5. Net(rows) = Standing(rows) - Credit(rows) /\ row.amount \in Nat
  BY RowFields DEF Booked
<1>6. row.source \in Live(rows) => row.source \in DOMAIN rows
  BY DEF Live
<1> HIDE DEF more
<1>7. Net(more) = Standing(more) - Credit(more)
  <2>1. PICK n \in Int, s, k, a \in Nat : /\ n = Net(rows) /\ s = Standing(rows) /\ k = Credit(rows)
                                         /\ a = row.amount /\ n = s - k
    BY <1>2, <1>3, <1>4, <1>5
  <2>2. CASE row.sign = 1 /\ row.source = 0
    <3>1. Net(more) = n + a /\ Standing(more) = s + a /\ Credit(more) = k
      BY <1>2, <1>3, <1>4, <2>1, <2>2
    <3>2. QED
      BY <2>1, <3>1
  <2>3. CASE row.sign = -1 /\ row.source = 0 /\ row.kind = "adjustment"
    <3>1. Net(more) = n - a /\ Standing(more) = s /\ Credit(more) = k + a
      BY <1>1, <1>2, <1>3, <1>4, <2>1, <2>3
    <3>2. QED
      BY <2>1, <3>1
  <2>4. CASE row.sign = -1 /\ row.source \in Live(rows) /\ row.amount = rows[row.source].amount
    <3>1. row.source # 0
      BY <1>1, <1>6, <2>4
    <3>2. Net(more) = n - a /\ Standing(more) = s - a /\ Credit(more) = k
      BY <1>2, <1>3, <1>4, <2>1, <2>4, <3>1
    <3>3. QED
      BY <2>1, <3>2
  <2>5. QED
    BY <2>2, <2>3, <2>4 DEF Bookable
<1>8. row.source \in Nat /\ row.source <= Len(rows)
  BY <1>1, <1>6 DEF Bookable
<1>9. SourcesWithin(more)
  BY <1>1, <1>8 DEF SourcesWithin, Booked
<1>10. QED
  BY <1>7, <1>9 DEF Booked, more
\* A payment row or the cancellation of a payment that stands, by its amount.
LEMMA PaymentBooked ==
  ASSUME NEW rows \in Seq(PaymentRow), NEW row \in PaymentRow,
         SourcesWithin(rows), Net(rows) = Standing(rows),
         \/ row.sign = 1 /\ row.source = 0
         \/ row.sign = -1 /\ row.source \in Live(rows) /\ row.amount = rows[row.source].amount
  PROVE  SourcesWithin(Append(rows, row)) /\ Net(Append(rows, row)) = Standing(Append(rows, row))
<1> DEFINE more == Append(rows, row)
<1>1. /\ Len(rows) \in Nat /\ DOMAIN rows = 1..Len(rows) /\ Len(more) = Len(rows) + 1
      /\ \A x \in DOMAIN more : more[x] = row \/ (x \in DOMAIN rows /\ more[x] = rows[x])
  OBVIOUS
<1>2. /\ Net(rows) \in Int /\ row.amount \in Nat
      /\ row.sign = 1 => Net(more) = Net(rows) + row.amount
      /\ row.sign = -1 => Net(more) = Net(rows) - row.amount
  BY RowFields, NetAppended
<1>3. /\ row.sign = 1 => Standing(more) = Standing(rows) + row.amount
      /\ row.sign = -1 /\ row.source \in Live(rows) => Standing(more) = Standing(rows) - rows[row.source].amount
  BY RowFields, StandingAppended
<1>4. row.source \in Live(rows) => row.source \in DOMAIN rows
  BY DEF Live
<1> HIDE DEF more
<1>5. Net(more) = Standing(more)
  BY <1>2, <1>3
<1>6. row.source \in Nat /\ row.source <= Len(rows)
  BY <1>1, <1>4
<1>7. SourcesWithin(more)
  BY <1>1, <1>6 DEF SourcesWithin
<1>8. QED
  BY <1>5, <1>7 DEF more

\* The rows of both tables add up to what stands.
BooksBalance == Booked(charges) /\ SourcesWithin(payments) /\ Net(payments) = Standing(payments)

LEMMA BooksInit == Init => BooksBalance
<1> SUFFICES ASSUME Init PROVE BooksBalance
  OBVIOUS
<1>1. charges = <<>> /\ payments = <<>>
  BY DEF Init
<1>2. ASSUME NEW f PROVE Total(f, {}) = 0
  BY TotalZero
<1>3. /\ DOMAIN charges = {} /\ DOMAIN payments = {}
      /\ Live(charges) = {} /\ Live(payments) = {}
      /\ \A s : {x \in DOMAIN charges : charges[x].sign = s} = {}
      /\ \A s : {x \in DOMAIN payments : payments[x].sign = s} = {}
      /\ {c \in DOMAIN charges : /\ charges[c].sign = -1
                                 /\ charges[c].source = 0
                                 /\ charges[c].kind = "adjustment"} = {}
  BY <1>1 DEF Live
<1>4. Net(charges) = 0 - 0 /\ Standing(charges) = 0 /\ Credit(charges) = 0
  BY <1>2, <1>3 DEF Net, Signed, Standing, Credit
<1>5. Net(payments) = 0 - 0 /\ Standing(payments) = 0
  BY <1>2, <1>3 DEF Net, Signed, Standing
<1>6. QED
  BY <1>3, <1>4, <1>5 DEF BooksBalance, Booked, SourcesWithin

LEMMA BooksStep == TypeOK /\ BooksBalance /\ [Next]_vars => BooksBalance'
<1> SUFFICES ASSUME TypeOK, BooksBalance, [Next]_vars PROVE BooksBalance'
  OBVIOUS
<1>1. /\ charges \in Seq(ChargeRow) /\ payments \in Seq(PaymentRow)
      /\ Amounts \subseteq Nat /\ Now \in Times /\ 0 \in Nat
  BY LedgerConstants DEF TypeOK
<1>2. ASSUME payments' = payments, Booked(charges)' PROVE BooksBalance'
  BY <1>2 DEF BooksBalance, Net, Signed, Standing, SourcesWithin
<1>3. CASE WritesCharges
  <2>1. payments' = payments
    BY <1>1, <1>3, ChargeRowsAdded DEF InsertCharges
  <2>2. CASE \E row \in ChargeRow : Bookable(charges, row) /\ charges' = Append(charges, row)
    BY <1>1, <1>2, <2>1, <2>2, RowBooked DEF BooksBalance
  <2>3. CASE \E old, new \in ChargeRow : /\ Bookable(charges, old) /\ Bookable(Append(charges, old), new)
                                         /\ charges' = Append(Append(charges, old), new)
    <3>1. PICK old \in ChargeRow, new \in ChargeRow :
            /\ Bookable(charges, old) /\ Bookable(Append(charges, old), new)
            /\ charges' = Append(Append(charges, old), new)
      BY <2>3
    <3>2. Append(charges, old) \in Seq(ChargeRow) /\ Booked(Append(charges, old))
      BY <1>1, <3>1, RowBooked DEF BooksBalance
    <3>3. Booked(Append(Append(charges, old), new))
      BY <3>1, <3>2, RowBooked
    <3>4. QED
      BY <1>2, <2>1, <3>1, <3>3
  <2>4. QED
    BY <1>3, <2>2, <2>3, RowsWritten
<1>4. ASSUME NEW amount \in Amounts, NEW period \in Periods, NEW at \in Times,
             commitOpeningBalance(amount, period, at)
      PROVE  BooksBalance'
  <2> DEFINE row == NewCharge("adjustment", 1, amount, period, at, 0, 0)
  <2>1. row \in ChargeRow /\ row.sign = 1 /\ row.source = 0
    BY <1>1, NewChargeType DEF Kinds, NewCharge
  <2>2. charges' = Append(charges, row) /\ payments' = payments
    BY <1>4 DEF commitOpeningBalance
  <2> HIDE DEF row
  <2>3. Bookable(charges, row)
    BY <2>1 DEF Bookable
  <2>4. Booked(Append(charges, row))
    BY <1>1, <2>1, <2>3, RowBooked DEF BooksBalance
  <2>5. QED
    BY <1>2, <2>2, <2>4
<1>5. ASSUME NEW row \in PaymentRow, charges' = charges, payments' = Append(payments, row),
             \/ row.sign = 1 /\ row.source = 0
             \/ row.sign = -1 /\ row.source \in Live(payments) /\ row.amount = payments[row.source].amount
      PROVE  BooksBalance'
  <2>1. SourcesWithin(Append(payments, row)) /\ Net(Append(payments, row)) = Standing(Append(payments, row))
    BY <1>1, <1>5, PaymentBooked DEF BooksBalance
  <2>2. Booked(charges)'
    BY <1>5 DEF BooksBalance
  <2>3. QED
    BY <1>5, <2>1, <2>2 DEF BooksBalance
<1>6. ASSUME NEW p \in PaymentId, cancel(p) PROVE BooksBalance'
  <2> DEFINE row == [payments[p] EXCEPT !.sign = -1, !.source = p, !.at = Now]
  <2>1. p \in DOMAIN payments /\ payments[p] \in PaymentRow /\ p \in Nat /\ p \in Live(payments)
    BY <1>1, <1>6 DEF cancel, Live, IsReversed
  <2>2. row \in PaymentRow /\ row.sign = -1 /\ row.source = p /\ row.amount = payments[p].amount
    BY <1>1, <2>1 DEF PaymentRow
  <2>3. charges' = charges /\ payments' = Append(payments, row)
    BY <1>6 DEF cancel
  <2> HIDE DEF row
  <2>4. QED
    BY <1>5, <2>1, <2>2, <2>3
<1>7. ASSUME NEW k \in Clerks, NEW amount \in Amounts, NEW at \in Times, NEW more,
             PutPayment(k, amount, at, more)
      PROVE  BooksBalance'
  <2>1. NewPayment(amount, at) \in PaymentRow /\ NewPayment(amount, at).sign = 1
        /\ NewPayment(amount, at).source = 0
    BY <1>1 DEF NewPayment, PaymentRow
  <2>2. charges' = charges /\ payments' = Append(payments, NewPayment(amount, at))
    BY <1>7 DEF PutPayment
  <2>3. QED
    BY <1>5, <2>1, <2>2
<1>8. ASSUME charges' = charges, payments' = payments PROVE BooksBalance'
  BY <1>2, <1>8 DEF BooksBalance
<1>9. ASSUME NEW k \in Clerks, NEW amount \in Amounts, NEW at \in Times,
             \/ CommitPayment(k, amount, at)
             \/ \E picks \in ManualPicks : CommitManual(k, amount, at, picks)
      PROVE  BooksBalance'
  BY <1>7, <1>9 DEF CommitPayment, CommitManual
<1>10. ASSUME \/ \E k \in Clerks : BeginPayment(k) \/ AbortPayment(k)
              \/ \E period \in Periods : close(period) \/ reopen(period)
              \/ UNCHANGED vars
       PROVE  charges' = charges /\ payments' = payments
  BY <1>10 DEF BeginPayment, AbortPayment, close, reopen, vars
<1>11. QED
  BY <1>3, <1>4, <1>6, <1>8, <1>9, <1>10 DEF Next, WritesCharges

\* Two views of the debt agree after every write that runs allocateCredit: what
\* the view of the charges sums to is the child's balance, or nothing when the
\* balance is an advance.
THEOREM DebtsAgree ==
  ASSUME ~Overlap
  PROVE  Spec => OutstandingIsDebt
<1> DEFINE Agree == charges' # charges \/ payments' # payments =>
                      TotalOutstanding' = AtLeastZero(Balance') \/ WithoutCredit
<1>1. ASSUME IInv, BooksBalance', Next PROVE Agree
  <2>1. CASE /\ alloc' = Plus(alloc, Applied(charges', payments', alloc))
             /\ Sound(charges', payments', alloc)
    <3>1. PICK cs, ps : cs = charges' /\ ps = payments'
      OBVIOUS
    <3>2. alloc' = Plus(alloc, Applied(cs, ps, alloc)) /\ Sound(cs, ps, alloc)
      BY <2>1, <3>1
    <3>3. Net(cs) = Standing(cs) - Credit(cs) /\ Net(ps) = Standing(ps)
      <4>1. /\ Net(charges') = Standing(charges') - Credit(charges')
            /\ Net(payments') = Standing(payments')
        BY <1>1 DEF BooksBalance, Booked
      <4>2. QED
        BY <3>1, <4>1
    <3>4. /\ Standing(cs) \in Nat /\ Standing(ps) \in Nat /\ Credit(cs) \in Nat
          /\ Total(Outstanding(cs, ps, alloc'), Live(cs))
               = AtLeastZero((Standing(cs) - Credit(cs)) - Standing(ps))
      BY <3>2, CreditSettles DEF Standing
    <3>5. TotalOutstanding' = Total(Outstanding(cs, ps, alloc'), Live(cs))
      BY <3>1 DEF TotalOutstanding
    <3>6. Balance' = Net(cs) - Net(ps)
      BY <3>1 DEF Balance, Net, Signed
    <3>7. QED
      BY <3>3, <3>4, <3>5, <3>6
  <2>2. QED
    BY <1>1, <2>1, CreditRuns
<1>2. IInv /\ BooksBalance' /\ [Next]_vars => [Agree]_vars
  BY <1>1
<1>3. QED
  BY <1>2, TypeCorrect, SoundInit, SoundStep, BooksInit, BooksStep, PTL DEF Spec, OutstandingIsDebt
=============================================================================
