---------------------------- MODULE PeriodBilling ----------------------------
(***************************************************************************)
(* What billing one accounting period promises, without runs, previews,    *)
(* locks or keys.  A request notes, child by child, the tariff a child has *)
(* and the days it attended at that moment.  The period is billed once, in *)
(* one step, with the notes of one request, and only if the days noted are *)
(* still those attended; tariffs may have changed since.  From then on a   *)
(* charge follows the child's attendance, at once or when somebody         *)
(* resolves it, and keeps its tariff.  A child with a late tariff is       *)
(* billed for the days noted even if they have changed.                    *)
(***************************************************************************)
EXTENDS Naturals

CONSTANTS Children, Tariffs, NoTariff, Days, NoCharge, Requests

VARIABLES tariff, days, charge, billed, reading, late

vars == <<tariff, days, charge, billed, reading, late>>

Line(c) == [tariff |-> tariff[c], days |-> days[c]]
Nothing == [c \in {} |-> NoCharge]

Init ==
  /\ tariff \in [Children -> Tariffs \cup {NoTariff}]
  /\ days \in [Children -> Days]
  /\ charge = [c \in Children |-> NoCharge]
  /\ billed = FALSE
  /\ reading = [q \in Requests |-> Nothing]
  /\ late = {}

Note(q, c) ==
  /\ tariff[c] # NoTariff
  /\ LET noted == reading[q]
     IN reading' = [reading EXCEPT ![q] =
          [d \in DOMAIN noted \cup {c} |-> IF d = c THEN Line(c) ELSE noted[d]]]
  /\ UNCHANGED <<tariff, days, charge, billed, late>>

Forget(q) ==
  /\ reading' = [reading EXCEPT ![q] = Nothing]
  /\ UNCHANGED <<tariff, days, charge, billed, late>>

Bill(q) ==
  /\ ~billed
  /\ billed' = TRUE
  /\ \A c \in DOMAIN reading[q] : reading[q][c].days = days[c] \/ c \in late
  /\ charge' = [c \in Children |-> IF c \in DOMAIN reading[q] THEN reading[q][c] ELSE NoCharge]
  /\ reading' = [reading EXCEPT ![q] = Nothing]
  /\ UNCHANGED <<tariff, days, late>>

\* Only a child without a tariff can get one late.
ChangeTariff(c) ==
  /\ \E t \in Tariffs \cup {NoTariff} : tariff' = [tariff EXCEPT ![c] = t]
  /\ late' = late \/ (tariff[c] = NoTariff /\ late' = late \cup {c})
  /\ UNCHANGED <<days, charge, billed, reading>>

Follow(c, d) ==
  charge' = [charge EXCEPT ![c] = IF @ = NoCharge THEN @ ELSE [@ EXCEPT !.days = d]]

Attend(c) ==
  /\ \E d \in Days :
       /\ days' = [days EXCEPT ![c] = d]
       /\ Follow(c, d) \/ UNCHANGED charge
  /\ UNCHANGED <<tariff, billed, reading, late>>

Resolve(c) ==
  /\ Follow(c, days[c])
  /\ UNCHANGED <<tariff, days, billed, reading, late>>

Next ==
  \/ \E q \in Requests : Bill(q) \/ Forget(q) \/ \E c \in Children : Note(q, c)
  \/ \E c \in Children : ChangeTariff(c) \/ Attend(c) \/ Resolve(c)

Spec == Init /\ [][Next]_vars
=============================================================================
