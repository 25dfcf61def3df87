------------------------------- MODULE Money -------------------------------
(***************************************************************************)
(* Arithmetic of the child ledger: whole tiyin, sums over a set of rows,   *)
(* SQL's GREATEST(x, 0), and the amount one payment hands to one charge    *)
(* when money is applied first-in first-out.                               *)
(*                                                                         *)
(* A sum of naturals is defined as the number of units it is made of, so   *)
(* that facts about sums are facts about finite sets and need no           *)
(* induction.                                                              *)
(***************************************************************************)
EXTENDS Integers, FiniteSets

\* The tiyin of the rows in S, each tagged with its row.
Units(f, S) == UNION {{x} \X (1..f[x]) : x \in S}

\* SUM(f) over the rows in S; COALESCE(SUM(..), 0) for no row.
Total(f, S) == Cardinality(Units(f, S))

\* GREATEST(n, 0)
AtLeastZero(n) == IF n > 0 THEN n ELSE 0

Lesser(a, b) == IF a < b THEN a ELSE b
Greater(a, b) == IF a < b THEN b ELSE a

(***************************************************************************)
(* Line the available money of the payments up, oldest payment first, and  *)
(* the outstanding amounts of the charges, oldest charge first.  A payment *)
(* whose money starts at unit a gives a charge whose debt starts at unit b *)
(* exactly the units the two have in common: that is what the two nested   *)
(* loops of allocateCredit compute, each taking the lesser of what is left *)
(* of the payment and what is left of the charge.                          *)
(***************************************************************************)
Common(a, money, b, debt) ==
  AtLeastZero(Lesser(a + money, b + debt) - Greater(a, b))

\* The rows of S that come before row x in the order (at, id).
Older(rows, S, x) ==
  {y \in S : \/ rows[y].at < rows[x].at
             \/ rows[y].at = rows[x].at /\ y < x}
=============================================================================
