------------------------------- MODULE Ledger -------------------------------
(***************************************************************************)
(* The financial ledger of ONE child: charge rows, payment rows and the    *)
(* allocations of payments to charges, in the accounting periods of the    *)
(* kindergarten.                                                           *)
(*                                                                         *)
(* Every write runs in a database transaction that takes the child row FOR *)
(* UPDATE, so two writes of one child never run at the same time.  All of  *)
(* them are READ COMMITTED and see what was committed before they got the  *)
(* lock, so each is one action, except the registration of a payment: it   *)
(* is SERIALIZABLE and its snapshot is taken by the statement that waits   *)
(* for the lock.  BeginPayment is that statement, CommitPayment the rest.  *)
(*                                                                         *)
(* A child has one tariff kind here; charges of other kinds repeat the     *)
(* same loop body.                                                         *)
(***************************************************************************)
EXTENDS Money, Sequences

CONSTANTS
  Clerks,       \* requests that register payments
  NoTx,         \* a clerk with no transaction open
  Amounts,      \* amounts a charge or a payment may have
  Times,        \* dates a user may give: paid_at, and the as-of date of an import
  Now,          \* issued_at of a row the database dates; such rows are in id order
  Periods,      \* accounting periods, in calendar order
  MaxCharges,   \* bound on charge rows
  MaxPayments,  \* bound on payment rows
  ManualPicks,  \* allocations an accountant may choose by hand
  Overlap       \* whether other writes of the child may run while a payment
                \* transaction waits for the child lock

\* An entry of dto.allocations.
Pick == [charge : Nat, amount : Nat]

ASSUME LedgerConstants ==
  /\ Amounts \subseteq Nat
  /\ Times \subseteq Int
  /\ Now \in Times
  /\ Periods \subseteq Int
  /\ ManualPicks \subseteq Seq(Pick)
  /\ MaxCharges \in Nat
  /\ MaxPayments \in Nat
  /\ Overlap \in BOOLEAN

ChargeId == 1..MaxCharges
PaymentId == 1..MaxPayments

Kinds == {"tariff", "manual", "adjustment"}

\* source is the charge a reversal reverses, adjusts the charge an
\* adjustment corrects (adjustment_for_charge_id); 0 is SQL's NULL.
ChargeRow == [kind : Kinds, sign : {1, -1}, amount : Nat, period : Periods,
              at : Times, source : Nat, adjusts : Nat]
PaymentRow == [sign : {1, -1}, amount : Nat, at : Times, source : Nat]
Allocation == [PaymentId -> [ChargeId -> Nat]]

VARIABLES
  charges,   \* rows of table charge, in insertion order
  payments,  \* rows of table payment, in insertion order
  alloc,     \* SUM(amount_tiyin) of payment_allocation by payment and charge
  closed,    \* accounting periods whose status is 'closed'
  tx         \* snapshot of each clerk's payment transaction, or NoTx

vars == <<charges, payments, alloc, closed, tx>>

-----------------------------------------------------------------------------
\* What the SQL of the ledger reads.  cs, ps and al are the charge rows, the
\* payment rows and the allocations a transaction sees.

IsReversed(rows, x) == \E r \in DOMAIN rows : rows[r].sign = -1 /\ rows[r].source = x

\* Rows with sign = 1 that no reversal or cancellation row refers to.
Live(rows) == {x \in DOMAIN rows : rows[x].sign = 1 /\ ~IsReversed(rows, x)}

AmountOf(rows) == [x \in DOMAIN rows |-> rows[x].amount]

ToCharge(al, c) == [p \in PaymentId |-> al[p][c]]

\* What payments that are not cancelled have paid of a charge.
Allocated(ps, al, c) == Total(ToCharge(al, c), Live(ps))

\* MUTANT: reversed charges keep the money they were paid with.
SpentOnReversedToo(cs, al, p) == Total(al[p], DOMAIN cs)

\* What a payment has given to charges that are not reversed.
Spent(cs, al, p) == Total(al[p], Live(cs))

\* MUTANT: forgets what a payment has given already.
AvailableInFull(cs, ps, al) == [p \in Live(ps) |-> ps[p].amount]

Available(cs, ps, al) ==
  [p \in Live(ps) |-> AtLeastZero(ps[p].amount - Spent(cs, al, p))]

\* MUTANT: forgets what a charge was paid already.
RemainingInFull(cs, ps, al) == [c \in Live(cs) |-> cs[c].amount]

Remaining(cs, ps, al) ==
  [c \in Live(cs) |-> AtLeastZero(cs[c].amount - Allocated(ps, al, c))]

\* Negative adjustments that reverse no charge are credit of the child.
Credit(cs) ==
  Total(AmountOf(cs),
        {c \in DOMAIN cs : /\ cs[c].sign = -1
                           /\ cs[c].source = 0
                           /\ cs[c].kind = "adjustment"})

\* View v_charge_outstanding: credit pays the oldest remaining debt first.
Outstanding(cs, ps, al) ==
  LET remaining == Remaining(cs, ps, al)
      prior(c) == Total(remaining, Older(cs, Live(cs), c))
      credit == Credit(cs)
  IN [c \in Live(cs) |->
        AtLeastZero(remaining[c] - AtLeastZero(credit - prior(c)))]

\* MUTANT: pays the newest charge first.
AppliedNewestFirst(cs, ps, al) ==
  LET available == Available(cs, ps, al)
      outstanding == Outstanding(cs, ps, al)
      moneyBefore == [p \in Live(ps) |-> Total(available, Older(ps, Live(ps), p))]
      newer(c) == Live(cs) \ (Older(cs, Live(cs), c) \cup {c})
      debtBefore == [c \in Live(cs) |-> Total(outstanding, newer(c))]
  IN [p \in PaymentId |-> [c \in ChargeId |->
        IF p \in Live(ps) /\ c \in Live(cs)
        THEN Common(moneyBefore[p], available[p], debtBefore[c], outstanding[c])
        ELSE 0]]

\* What allocateCredit adds to the allocations of each payment and charge.
Applied(cs, ps, al) ==
  LET available == Available(cs, ps, al)
      outstanding == Outstanding(cs, ps, al)
      moneyBefore == [p \in Live(ps) |-> Total(available, Older(ps, Live(ps), p))]
      debtBefore == [c \in Live(cs) |-> Total(outstanding, Older(cs, Live(cs), c))]
  IN [p \in PaymentId |-> [c \in ChargeId |->
        IF p \in Live(ps) /\ c \in Live(cs)
        THEN Common(moneyBefore[p], available[p], debtBefore[c], outstanding[c])
        ELSE 0]]

Plus(al, more) == [p \in PaymentId |-> [c \in ChargeId |-> al[p][c] + more[p][c]]]

allocateCredit(cs, ps, al) == Plus(al, Applied(cs, ps, al))

\* View v_child_balance: debt when positive, advance when negative.
Balance ==
  LET net(rows) == Total(AmountOf(rows), {x \in DOMAIN rows : rows[x].sign = 1})
                   - Total(AmountOf(rows), {x \in DOMAIN rows : rows[x].sign = -1})
  IN net(charges) - net(payments)

-----------------------------------------------------------------------------
Init ==
  /\ charges = <<>>
  /\ payments = <<>>
  /\ alloc = [p \in PaymentId |-> [c \in ChargeId |-> 0]]
  /\ closed = {}
  /\ tx = [k \in Clerks |-> NoTx]

\* No payment transaction is waiting for the child lock, unless overlap is
\* being explored.
Uncontended == Overlap \/ \A k \in Clerks : tx[k] = NoTx

\* Trigger reject_closed_period and the checks in the services.
IsOpen(period) == period \in Periods \ closed

NewCharge(kind, sign, amount, period, at, source, adjusts) ==
  [kind |-> kind, sign |-> sign, amount |-> amount, period |-> period,
   at |-> at, source |-> source, adjusts |-> adjusts]

\* Insert charge rows and apply the child's money to what is owed.
InsertCharges(rows) ==
  /\ Len(rows) <= MaxCharges
  /\ charges' = rows
  /\ alloc' = allocateCredit(rows, payments, alloc)
  /\ UNCHANGED <<payments, closed, tx>>

createManual(amount, period) ==
  /\ Uncontended
  /\ amount > 0
  /\ IsOpen(period)
  /\ InsertCharges(Append(charges, NewCharge("manual", 1, amount, period, Now, 0, 0)))

adjustment(sign, amount, period) ==
  /\ Uncontended
  /\ amount > 0
  /\ IsOpen(period)
  /\ InsertCharges(Append(charges, NewCharge("adjustment", sign, amount, period, Now, 0, 0)))

\* The live tariff charge of a period: trigger enforce_active_charge lets
\* there be one.
TariffCharges(period) ==
  {c \in Live(charges) : charges[c].kind = "tariff" /\ charges[c].period = period}

\* One line of a billing run that commits.
chargeTariff(amount, period) ==
  /\ Uncontended
  /\ IsOpen(period)
  /\ TariffCharges(period) = {}
  /\ InsertCharges(Append(charges, NewCharge("tariff", 1, amount, period, Now, 0, 0)))

ReversalOf(c) ==
  [charges[c] EXCEPT !.sign = -1, !.source = c, !.at = Now]

reverse(c) ==
  /\ Uncontended
  /\ c \in DOMAIN charges
  /\ charges[c].sign = 1
  /\ ~\E r \in DOMAIN charges : charges[r].source = c
  /\ IsOpen(charges[c].period)
  /\ InsertCharges(Append(charges, ReversalOf(c)))

-----------------------------------------------------------------------------
\* Recalculation of a period's tariff charge after attendance changed.

Corrections(c) == {r \in DOMAIN charges : charges[r].adjusts = c}

\* The charge and every signed row issued to correct it.
effectiveAmount(c) ==
  LET signed(s) == {r \in Corrections(c) : charges[r].sign = s}
  IN charges[c].amount + Total(AmountOf(charges), signed(1))
                       - Total(AmountOf(charges), signed(-1))

\* MUTANT: the next period, open or not.
nextPeriod(period, next) ==
  next > period /\ next \in Periods /\ \A q \in Periods : ~(period < q /\ q < next)

\* The first open period after the charge's own.
nextOpenPeriod(period, next) ==
  /\ next > period
  /\ IsOpen(next)
  /\ \A q \in Periods : period < q /\ q < next => ~IsOpen(q)

reverseAndReplace(c, amount) ==
  InsertCharges(Append(Append(charges,
    NewCharge("tariff", -1, charges[c].amount, charges[c].period, Now, c, 0)),
    NewCharge("tariff", 1, amount, charges[c].period, Now, 0, 0)))

\* MUTANT: the adjustment is taken from the charge alone.
adjustFromCharge(c, amount) ==
  \E next \in Periods :
    /\ nextOpenPeriod(charges[c].period, next)
    /\ LET delta == amount - charges[c].amount
       IN InsertCharges(Append(charges,
            NewCharge("adjustment", IF delta < 0 THEN -1 ELSE 1,
                      IF delta < 0 THEN -delta ELSE delta, next, Now, 0, c)))

adjustNextPeriod(c, amount) ==
  \E next \in Periods :
    /\ nextOpenPeriod(charges[c].period, next)
    /\ LET delta == amount - effectiveAmount(c)
       IN InsertCharges(Append(charges,
            NewCharge("adjustment", IF delta < 0 THEN -1 ELSE 1,
                      IF delta < 0 THEN -delta ELSE delta, next, Now, 0, c)))

\* adjustNext is the policy 'adjust_next_period'.  A period under policy
\* 'manual_only' changes nothing and is not a step.
recalculate(period, amount, adjustNext) ==
  /\ Uncontended
  /\ \E c \in TariffCharges(period) :
       /\ amount # effectiveAmount(c)
       /\ IF IsOpen(period) /\ ~adjustNext /\ Corrections(c) = {}
          THEN reverseAndReplace(c, amount)
          ELSE adjustNextPeriod(c, amount)

\* Import of a child's debt from before go-live: a backdated charge, and no
\* call of allocateCredit.
commitOpeningBalance(amount, period, at) ==
  /\ Uncontended
  /\ amount > 0
  /\ IsOpen(period)
  /\ Len(charges) < MaxCharges
  /\ charges' = Append(charges, NewCharge("adjustment", 1, amount, period, at, 0, 0))
  /\ UNCHANGED <<payments, alloc, closed, tx>>

-----------------------------------------------------------------------------
\* Payments.

\* The statement that waits for the child lock takes the snapshot the whole
\* transaction reads.
BeginPayment(k) ==
  /\ tx[k] = NoTx
  /\ tx' = [tx EXCEPT ![k] = [charges |-> Len(charges), payments |-> Len(payments),
                              alloc |-> alloc]]
  /\ UNCHANGED <<charges, payments, alloc, closed>>

\* Two SERIALIZABLE payments of one child read what the other inserts: the
\* second to commit is aborted.  READ COMMITTED writes are not detected.
SerializationFailure(k) ==
  \E p \in DOMAIN payments : p > tx[k].payments /\ payments[p].sign = 1

MayCommit(k, amount) ==
  /\ tx[k] # NoTx
  /\ ~SerializationFailure(k)
  /\ amount > 0
  /\ Len(payments) < MaxPayments

NewPayment(amount, at) == [sign |-> 1, amount |-> amount, at |-> at, source |-> 0]

\* Insert the payment with the allocations computed for it, and commit.
PutPayment(k, amount, at, more) ==
  /\ payments' = Append(payments, NewPayment(amount, at))
  /\ alloc' = Plus(alloc, more)
  /\ tx' = [tx EXCEPT ![k] = NoTx]
  /\ UNCHANGED <<charges, closed>>

\* The rows the transaction sees: its snapshot, and the payment it inserts.
SeenCharges(k) == [c \in 1..tx[k].charges |-> charges[c]]
SeenPayments(k, amount, at) ==
  [p \in (1..tx[k].payments) \cup {Len(payments) + 1} |->
     IF p <= tx[k].payments THEN payments[p] ELSE NewPayment(amount, at)]

\* Register a payment and apply the child's money first-in first-out.
CommitPayment(k, amount, at) ==
  /\ MayCommit(k, amount)
  /\ PutPayment(k, amount, at,
       Applied(SeenCharges(k), SeenPayments(k, amount, at), tx[k].alloc))

\* The first i of the allocations the accountant chose, for payment p.
Chosen(picks, i, new) ==
  [p \in PaymentId |-> [c \in ChargeId |->
     IF p = new
     THEN Total(AmountOf(picks), {j \in 1..i : picks[j].charge = c})
     ELSE 0]]

\* Register a payment with allocations chosen by hand (allocateManual): each
\* is checked against what the charge still owes after the ones before it.
\* What is left of the payment stays unallocated.
CommitManual(k, amount, at, picks) ==
  /\ MayCommit(k, amount)
  /\ LET new == Len(payments) + 1
         cs == SeenCharges(k)
         ps == SeenPayments(k, amount, at)
         owed(i) == Outstanding(cs, ps, Plus(tx[k].alloc, Chosen(picks, i - 1, new)))
     IN /\ picks # <<>>
        /\ Total(AmountOf(picks), DOMAIN picks) <= amount
        /\ \A i \in DOMAIN picks :
             /\ picks[i].amount > 0
             /\ picks[i].charge \in Live(cs)
             /\ picks[i].amount <= owed(i)[picks[i].charge]
        /\ PutPayment(k, amount, at, Chosen(picks, Len(picks), new))

\* The transaction rolls back: a serialization failure (CONCURRENT_PAYMENT), a
\* rejected allocation or a lost connection.
AbortPayment(k) ==
  /\ tx[k] # NoTx
  /\ tx' = [tx EXCEPT ![k] = NoTx]
  /\ UNCHANGED <<charges, payments, alloc, closed>>

\* Cancel a payment: a cancellation row, and the child's other money takes
\* over what the payment had paid.
cancel(p) ==
  /\ Uncontended
  /\ p \in DOMAIN payments
  /\ payments[p].sign = 1
  /\ ~\E r \in DOMAIN payments : payments[r].source = p
  /\ Len(payments) < MaxPayments
  /\ LET rows == Append(payments, [payments[p] EXCEPT !.sign = -1, !.source = p, !.at = Now])
     IN /\ payments' = rows
        /\ alloc' = allocateCredit(charges, rows, alloc)
  /\ UNCHANGED <<charges, closed, tx>>

-----------------------------------------------------------------------------
close(period) ==
  /\ IsOpen(period)
  /\ closed' = closed \cup {period}
  /\ UNCHANGED <<charges, payments, alloc, tx>>

reopen(period) ==
  /\ period \in closed
  /\ closed' = closed \ {period}
  /\ UNCHANGED <<charges, payments, alloc, tx>>

Next ==
  \/ \E amount \in Amounts, period \in Periods :
       \/ createManual(amount, period)
       \/ \E sign \in {1, -1} : adjustment(sign, amount, period)
       \/ chargeTariff(amount, period)
       \/ \E adjustNext \in BOOLEAN : recalculate(period, amount, adjustNext)
       \/ \E at \in Times : commitOpeningBalance(amount, period, at)
  \/ \E c \in ChargeId : reverse(c)
  \/ \E p \in PaymentId : cancel(p)
  \/ \E k \in Clerks :
       \/ BeginPayment(k)
       \/ AbortPayment(k)
       \/ \E amount \in Amounts, at \in Times :
            \/ CommitPayment(k, amount, at)
            \/ \E picks \in ManualPicks : CommitManual(k, amount, at, picks)
  \/ \E period \in Periods : close(period) \/ reopen(period)

Spec == Init /\ [][Next]_vars

-----------------------------------------------------------------------------
\* Properties.

Snapshot == [charges : 0..MaxCharges, payments : 0..MaxPayments, alloc : Allocation]

\* Every variable holds rows of its table.
TypeOK ==
  /\ charges \in Seq(ChargeRow) /\ Len(charges) <= MaxCharges
  /\ payments \in Seq(PaymentRow) /\ Len(payments) <= MaxPayments
  /\ alloc \in Allocation
  /\ closed \subseteq Periods
  /\ tx \in [Clerks -> Snapshot \cup {NoTx}]

\* No charge that stands is paid more than its amount, by all the payments
\* that stand together: the promise of "two accountants ... must never both
\* allocate to the same charge", under reversals, cancellations and
\* re-application of the freed money.
NoOverAllocation ==
  \A c \in Live(charges) : Allocated(payments, alloc, c) <= charges[c].amount

\* Every variable keeps its type, and no payment that stands gives more than its
\* amount to charges that stand, although the money a cancellation or a reversal
\* frees is given again, and a payment counts what it has left on its snapshot.
NoOverSpend ==
  /\ TypeOK
  /\ \A p \in Live(payments) : Spent(charges, alloc, p) <= payments[p].amount

\* What the charge view says is owed, in all.
TotalOutstanding ==
  Total(Outstanding(charges, payments, alloc), Live(charges))

\* The steps that write the ledger and do not run allocateCredit.
WithoutCredit ==
  \/ \E amount \in Amounts, period \in Periods, at \in Times :
       commitOpeningBalance(amount, period, at)
  \/ \E k \in Clerks, amount \in Amounts, at \in Times, picks \in ManualPicks :
       CommitManual(k, amount, at, picks)

\* After any write that applies the child's money, the two views of the debt
\* agree: what v_charge_outstanding sums to is the debt of v_child_balance, so
\* no charge is shown as owing while the child has money left over.
OutstandingIsDebt ==
  [][charges' # charges \/ payments' # payments =>
       TotalOutstanding' = AtLeastZero(Balance') \/ WithoutCredit]_vars

\* Money that allocateCredit applies never goes to a charge while an older one
\* still owes (FIFO, oldest unpaid charge first).
OldestFirst ==
  [][alloc' # alloc =>
       LET owed == Outstanding(charges, payments, alloc)'
           paidMore == {c \in Live(charges)' :
             Allocated(payments, alloc, c)' > Total(ToCharge(alloc, c), Live(payments)')}
       IN \/ \A c \in paidMore : \A older \in Older(charges, Live(charges), c)' : owed[older] = 0
          \/ WithoutCredit]_vars

\* While a period stays closed no row is added to it: neither by the services
\* nor by a correction of its own charges.
ClosedPeriodFrozen ==
  [][\A period \in closed \cap closed' :
       {c \in DOMAIN charges' : charges'[c].period = period} \subseteq DOMAIN charges]_vars

\* A recalculation changes the child's debt by exactly the difference between
\* the amount it computed and what the charge and its earlier corrections come
\* to, whichever way it is booked.
RecalculationExact ==
  [][\A period \in Periods, amount \in Amounts, adjustNext \in BOOLEAN :
       recalculate(period, amount, adjustNext) =>
         \E c \in TariffCharges(period) :
           Balance' - Balance = amount - effectiveAmount(c)]_vars

\* A reversed charge leaves no correction behind: reversing cancels the charge.
ReversedNetsToZero ==
  \A c \in DOMAIN charges :
    charges[c].sign = 1 /\ IsReversed(charges, c) =>
      effectiveAmount(c) = charges[c].amount
=============================================================================
