---------------------------- MODULE MoneyTheorems ----------------------------
(***************************************************************************)
(* Facts about sums of tiyin and about money applied first-in first-out,   *)
(* and about folds over the parts of a finite set.                         *)
(***************************************************************************)
EXTENDS Money, FiniteSetTheorems, FunctionTheorems, WellFoundedInduction, TLAPS

-----------------------------------------------------------------------------
\* Sums.

\* The units of a finite set of rows are finite in number, so their sum is a
\* natural number.
LEMMA TotalType ==
  ASSUME NEW S, IsFiniteSet(S), NEW f, \A x \in S : f[x] \in Nat
  PROVE  IsFiniteSet(Units(f, S)) /\ Total(f, S) \in Nat
<1> DEFINE unitsOf == [x \in S |-> {x} \X (1..f[x])]
           parts == {{x} \X (1..f[x]) : x \in S}
<1>1. unitsOf \in Surjection(S, parts)
  BY DEF Surjection
<1>2. IsFiniteSet(parts)
  BY <1>1, FS_Surjection
<1>3. ASSUME NEW part \in parts PROVE IsFiniteSet(part)
  <2>1. PICK x \in S : part = {x} \X (1..f[x])
    OBVIOUS
  <2>2. IsFiniteSet({x})
    BY FS_Singleton
  <2>3. IsFiniteSet(1..f[x])
    BY FS_Interval
  <2> HIDE DEF parts
  <2>4. QED
    BY <2>1, <2>2, <2>3, FS_Product
<1>4. IsFiniteSet(UNION parts)
  <2> HIDE DEF parts
  <2> QED BY <1>2, <1>3, FS_UNION
<1>5. QED
  BY <1>4, FS_CardinalityType DEF Units, Total

\* A unit of a set of rows is a row and a number up to the row's amount.
LEMMA UnitsMember ==
  ASSUME NEW S, NEW f, NEW u
  PROVE  u \in Units(f, S) <=> \E x \in S : \E n \in 1..f[x] : u = <<x, n>>
BY DEF Units

\* Rows that agree have the same sum.
LEMMA TotalSame ==
  ASSUME NEW S, NEW f, NEW g, \A x \in S : f[x] = g[x]
  PROVE  Total(f, S) = Total(g, S)
BY DEF Units, Total

\* More rows, larger sum.
LEMMA TotalMonotone ==
  ASSUME NEW T, IsFiniteSet(T), NEW S, S \subseteq T, NEW f, \A x \in T : f[x] \in Nat
  PROVE  Total(f, S) <= Total(f, T)
<1>1. IsFiniteSet(Units(f, T))
  BY TotalType
<1>2. Units(f, S) \in SUBSET Units(f, T)
  BY DEF Units
<1>3. QED
  BY <1>1, <1>2, FS_Subset DEF Total

\* Rows that are no larger one by one have no larger sum.
LEMMA TotalPointwise ==
  ASSUME NEW S, IsFiniteSet(S), NEW f, NEW g, \A x \in S : f[x] \in Nat /\ g[x] \in Nat /\ f[x] <= g[x]
  PROVE  Total(f, S) <= Total(g, S)
<1>1. IsFiniteSet(Units(g, S))
  BY TotalType
<1>2. ASSUME NEW u \in Units(f, S) PROVE u \in Units(g, S)
  <2>1. PICK x \in S : \E n \in 1..f[x] : u = <<x, n>>
    BY UnitsMember
  <2>2. PICK n \in 1..f[x] : u = <<x, n>>
    BY <2>1
  <2>3. n \in 1..g[x]
    OBVIOUS
  <2>4. QED
    BY <2>2, <2>3, UnitsMember
<1>3. QED
  BY <1>1, <1>2, FS_Subset DEF Total

\* Rows that are all zero sum to zero.
LEMMA TotalZero ==
  ASSUME NEW S, NEW f, \A x \in S : f[x] = 0
  PROVE  Total(f, S) = 0
<1>1. Units(f, S) = {}
  BY UnitsMember
<1>2. QED
  BY <1>1, FS_EmptySet DEF Total

\* There are n numbers from 1 to n.
LEMMA UpTo ==
  ASSUME NEW n \in Nat
  PROVE  IsFiniteSet(1..n) /\ Cardinality(1..n) = n
<1>1. IsFiniteSet(1..n) /\ Cardinality(1..n) = IF 1 > n THEN 0 ELSE n - 1 + 1
  BY FS_Interval
<1>2. QED
  BY <1>1

\* One more row adds its amount.
LEMMA TotalAddRow ==
  ASSUME NEW S, IsFiniteSet(S), NEW f, \A x \in S : f[x] \in Nat,
         NEW y, y \notin S, f[y] \in Nat
  PROVE  Total(f, S \cup {y}) = Total(f, S) + f[y]
<1> DEFINE own == {y} \X (1..f[y])
<1>1. IsFiniteSet(Units(f, S)) /\ Total(f, S) \in Nat
  BY TotalType
<1>2. IsFiniteSet(own) /\ Cardinality(own) = f[y]
  <2>1. IsFiniteSet({y}) /\ Cardinality({y}) = 1
    BY FS_Singleton
  <2>2. IsFiniteSet(1..f[y]) /\ Cardinality(1..f[y]) = f[y]
    <3> DEFINE n == f[y]
    <3>1. n \in Nat
      OBVIOUS
    <3> HIDE DEF n
    <3>2. IsFiniteSet(1..n) /\ Cardinality(1..n) = n
      BY <3>1, UpTo
    <3>3. QED
      BY <3>2 DEF n
  <2> DEFINE one == {y}
             units == 1..f[y]
  <2>3. own = one \X units
    OBVIOUS
  <2> HIDE DEF own, one, units
  <2>4. IsFiniteSet(own) /\ Cardinality(own) = Cardinality(one) * Cardinality(units)
    <3>1. IsFiniteSet(one) /\ IsFiniteSet(units)
      BY <2>1, <2>2 DEF one, units
    <3>2. IsFiniteSet(one \X units) /\ Cardinality(one \X units) = Cardinality(one) * Cardinality(units)
      BY <3>1, FS_Product
    <3>3. QED
      BY <2>3, <3>2, Zenon
  <2>5. Cardinality(one) = 1 /\ Cardinality(units) = f[y]
    BY <2>1, <2>2 DEF one, units
  <2>6. QED
    BY <2>4, <2>5
<1>3. Units(f, S \cup {y}) = Units(f, S) \cup own
  BY DEF Units
<1>4. Units(f, S) \cap own = {}
  BY UnitsMember
<1>5. Cardinality(Units(f, S) \cap own) = 0
  BY <1>4, FS_EmptySet
<1> HIDE DEF own
<1>6. Cardinality(Units(f, S) \cup own) =
        Cardinality(Units(f, S)) + Cardinality(own) - Cardinality(Units(f, S) \cap own)
  BY <1>1, <1>2, FS_Union
<1>7. Total(f, S \cup {y}) = Cardinality(Units(f, S) \cup own)
  BY <1>3, Zenon DEF Total
<1>8. QED
  BY <1>1, <1>2, <1>5, <1>6, <1>7 DEF Total

\* The sum of sums.
LEMMA TotalPlus ==
  ASSUME NEW S, IsFiniteSet(S), NEW f, NEW g, NEW h,
         \A x \in S : f[x] \in Nat /\ g[x] \in Nat /\ h[x] = f[x] + g[x]
  PROVE  Total(h, S) = Total(f, S) + Total(g, S)
<1> DEFINE upper == {u \in Units(h, S) : u[2] > f[u[1]]}
           shift == [u \in Units(g, S) |-> <<u[1], f[u[1]] + u[2]>>]
<1>1. /\ IsFiniteSet(Units(f, S)) /\ IsFiniteSet(Units(g, S)) /\ IsFiniteSet(Units(h, S))
      /\ Total(f, S) \in Nat /\ Total(g, S) \in Nat
  <2>1. \A x \in S : h[x] \in Nat
    OBVIOUS
  <2>2. QED
    BY <2>1, TotalType
<1>2. Units(h, S) = Units(f, S) \cup upper
  <2>1. ASSUME NEW u \in Units(h, S) PROVE u \in Units(f, S) \cup upper
    <3>1. PICK x \in S : \E n \in 1..h[x] : u = <<x, n>>
      BY UnitsMember
    <3>2. PICK n \in 1..h[x] : u = <<x, n>>
      BY <3>1
    <3>3. CASE n > f[x]
      BY <3>2, <3>3
    <3>4. CASE ~(n > f[x])
      <4>1. n \in 1..f[x]
        BY <3>4
      <4>2. QED
        BY <4>1, <3>2, UnitsMember
    <3>5. QED
      BY <3>3, <3>4
  <2>2. ASSUME NEW u \in Units(f, S) PROVE u \in Units(h, S)
    <3>1. PICK x \in S : \E n \in 1..f[x] : u = <<x, n>>
      BY UnitsMember
    <3>2. PICK n \in 1..f[x] : u = <<x, n>>
      BY <3>1
    <3>3. n \in 1..h[x]
      OBVIOUS
    <3>4. QED
      BY <3>2, <3>3, UnitsMember
  <2>3. QED
    BY <2>1, <2>2
<1>3. Units(f, S) \cap upper = {}
  <2>1. ASSUME NEW u \in Units(f, S) PROVE ~(u[2] > f[u[1]])
    <3>1. PICK x \in S : \E n \in 1..f[x] : u = <<x, n>>
      BY UnitsMember
    <3>2. PICK n \in 1..f[x] : u = <<x, n>>
      BY <3>1
    <3>3. QED
      BY <3>2
  <2>2. QED
    BY <2>1
<1>4. shift \in Bijection(Units(g, S), upper)
  <2>1. ASSUME NEW u \in Units(g, S) PROVE shift[u] \in upper
    <3>1. PICK x \in S : \E n \in 1..g[x] : u = <<x, n>>
      BY UnitsMember
    <3>2. PICK n \in 1..g[x] : u = <<x, n>>
      BY <3>1
    <3>3. shift[u] = <<x, f[x] + n>>
      BY <3>2
    <3>4. f[x] + n \in 1..h[x] /\ f[x] + n > f[x]
      OBVIOUS
    <3>5. shift[u] \in Units(h, S)
      BY <3>3, <3>4, UnitsMember
    <3>6. QED
      BY <3>3, <3>4, <3>5
  <2>2. ASSUME NEW u \in Units(g, S), NEW v \in Units(g, S), shift[u] = shift[v]
        PROVE  u = v
    <3>1. PICK x \in S : \E n \in 1..g[x] : u = <<x, n>>
      BY UnitsMember
    <3>2. PICK n \in 1..g[x] : u = <<x, n>>
      BY <3>1
    <3>3. PICK y \in S : \E m \in 1..g[y] : v = <<y, m>>
      BY UnitsMember
    <3>4. PICK m \in 1..g[y] : v = <<y, m>>
      BY <3>3
    <3>5. shift[u] = <<x, f[x] + n>> /\ shift[v] = <<y, f[y] + m>>
      BY <3>2, <3>4
    <3>6. x = y /\ f[x] + n = f[y] + m
      BY <2>2, <3>5
    <3>7. n = m
      BY <3>6
    <3>8. QED
      BY <3>2, <3>4, <3>6, <3>7
  <2>3. ASSUME NEW w \in upper PROVE \E u \in Units(g, S) : shift[u] = w
    <3>1. PICK x \in S : \E n \in 1..h[x] : w = <<x, n>>
      BY UnitsMember
    <3>2. PICK n \in 1..h[x] : w = <<x, n>>
      BY <3>1
    <3>3. n > f[x]
      BY <3>2
    <3>4. n - f[x] \in 1..g[x]
      BY <3>3
    <3>5. <<x, n - f[x]>> \in Units(g, S)
      BY <3>4, UnitsMember
    <3>6. shift[<<x, n - f[x]>>] = <<x, f[x] + (n - f[x])>>
      BY <3>5
    <3>7. f[x] + (n - f[x]) = n
      OBVIOUS
    <3>8. QED
      BY <3>2, <3>5, <3>6, <3>7
  <2>4. shift \in [Units(g, S) -> upper]
    BY <2>1
  <2> HIDE DEF shift, upper
  <2>5. QED
    BY <2>2, <2>3, <2>4 DEF Bijection, Injection, Surjection, IsInjective
<1>5. IsFiniteSet(upper) /\ Cardinality(upper) = Cardinality(Units(g, S))
  <2> HIDE DEF shift, upper
  <2> QED BY <1>1, <1>4, FS_Bijection DEF ExistsBijection
<1>6. Cardinality(Units(f, S) \cap upper) = 0
  BY <1>3, FS_EmptySet
<1> HIDE DEF upper, shift
<1>7. Cardinality(Units(f, S) \cup upper) =
        Cardinality(Units(f, S)) + Cardinality(upper) - Cardinality(Units(f, S) \cap upper)
  BY <1>1, <1>5, FS_Union
<1>8. QED
  BY <1>1, <1>2, <1>5, <1>6, <1>7 DEF Total

\* Rows that are zero add nothing.
LEMMA TotalIgnoresZero ==
  ASSUME NEW S, IsFiniteSet(S), NEW T, NEW f, \A x \in S : f[x] \in Nat,
         \A x \in T \ S : f[x] = 0
  PROVE  Total(f, T) <= Total(f, S)
<1>1. IsFiniteSet(Units(f, S))
  BY TotalType
<1>2. ASSUME NEW u \in Units(f, T) PROVE u \in Units(f, S)
  <2>1. PICK x \in T : \E n \in 1..f[x] : u = <<x, n>>
    BY UnitsMember
  <2>2. PICK n \in 1..f[x] : u = <<x, n>>
    BY <2>1
  <2>3. x \in S
    BY <2>2
  <2>4. QED
    BY <2>2, <2>3, UnitsMember
<1>3. QED
  BY <1>1, <1>2, FS_Subset DEF Total

\* When a single row is not zero, the sum is that row's amount, or 0 when the
\* row is not in the set.
LEMMA TotalOneRow ==
  ASSUME NEW S, IsFiniteSet(S), NEW f, NEW y, f[y] \in Nat, \A x \in S \ {y} : f[x] = 0
  PROVE  /\ y \in S => Total(f, S) = f[y]
         /\ y \notin S => Total(f, S) = 0
<1>1. IsFiniteSet(S \ {y})
  BY FS_Subset
<1>2. Total(f, S \ {y}) = 0
  BY TotalZero
<1>3. Total(f, (S \ {y}) \cup {y}) = Total(f, S \ {y}) + f[y]
  BY <1>1, TotalAddRow
<1>4. CASE y \in S
  <2>1. (S \ {y}) \cup {y} = S
    BY <1>4
  <2>2. Total(f, S) = Total(f, S \ {y}) + f[y]
    BY <1>3, <2>1, Zenon
  <2>3. Total(f, S) = f[y]
    BY <1>2, <2>2
  <2>4. QED
    BY <1>4, <2>3
<1>5. CASE y \notin S
  <2>1. S \ {y} = S
    BY <1>5
  <2>2. QED
    BY <1>2, <1>5, <2>1
<1>6. QED
  BY <1>4, <1>5

\* Groups of the rows of D that share no row, and groups that leave none out.
Groups(D, S, group) ==
  /\ \A c \in S : group[c] \subseteq D
  /\ \A c, e \in S : c # e => group[c] \cap group[e] = {}
Covered(D, S, group) == \A j \in D : \E c \in S : j \in group[c]

\* Sums of disjoint groups of rows together are no more than the whole sum,
\* and are the whole sum when no row is left out.
LEMMA TotalByGroup ==
  ASSUME NEW D, IsFiniteSet(D), NEW f, \A j \in D : f[j] \in Nat,
         NEW S, NEW group, Groups(D, S, group)
  PROVE  \A sum : (\A c \in S : sum[c] = Total(f, group[c])) =>
           /\ Total(sum, S) <= Total(f, D)
           /\ Covered(D, S, group) => Total(sum, S) = Total(f, D)
<1>0. /\ \A c \in S : group[c] \subseteq D
      /\ \A c, e \in S : c # e => group[c] \cap group[e] = {}
  BY DEF Groups
<1> SUFFICES ASSUME NEW sum, \A c \in S : sum[c] = Total(f, group[c])
             PROVE  /\ Total(sum, S) <= Total(f, D)
                    /\ Covered(D, S, group) => Total(sum, S) = Total(f, D)
  OBVIOUS
<1> DEFINE rows(c) == group[c]
           unit(c) == CHOOSE b : b \in Bijection(1..sum[c], Units(f, rows(c)))
           place == [u \in Units(sum, S) |-> unit(u[1])[u[2]]]
<1>1. ASSUME NEW c \in S
      PROVE  unit(c) \in Bijection(1..sum[c], Units(f, rows(c)))
  <2>1. rows(c) \subseteq D /\ IsFiniteSet(rows(c))
    BY <1>0, FS_Subset
  <2>2. IsFiniteSet(Units(f, rows(c)))
    BY <2>1, TotalType
  <2>3. sum[c] = Cardinality(Units(f, rows(c)))
    BY DEF Total
  <2> HIDE DEF rows
  <2>4. \E b : b \in Bijection(1..sum[c], Units(f, rows(c)))
    BY <2>2, <2>3, FS_CardinalityType DEF ExistsBijection
  <2>5. QED
    BY <2>4, Zenon
<1>2. ASSUME NEW c \in S, NEW n \in 1..sum[c]
      PROVE  /\ <<c, n>> \in Units(sum, S)
             /\ place[<<c, n>>] = unit(c)[n]
             /\ place[<<c, n>>] \in Units(f, rows(c))
  <2>1. <<c, n>> \in Units(sum, S)
    BY UnitsMember
  <2> HIDE DEF unit, rows
  <2>2. place[<<c, n>>] = unit(c)[n]
    BY <2>1
  <2>3. unit(c) \in [1..sum[c] -> Units(f, rows(c))]
    BY <1>1 DEF Bijection, Injection
  <2>4. QED
    BY <2>1, <2>2, <2>3
<1> HIDE DEF place, unit
<1>3. ASSUME NEW c \in S, NEW w \in Units(f, rows(c))
      PROVE  w \in Units(f, D) /\ w[1] \in group[c]
  <2>1. PICK j \in rows(c) : \E m \in 1..f[j] : w = <<j, m>>
    <3> HIDE DEF rows
    <3> QED BY UnitsMember
  <2>2. PICK m \in 1..f[j] : w = <<j, m>>
    BY <2>1
  <2>3. QED
    BY <1>0, <2>1, <2>2, UnitsMember
<1> HIDE DEF rows
<1>4. ASSUME NEW u \in Units(sum, S)
      PROVE  \E c \in S : \E n \in 1..sum[c] : u = <<c, n>>
  BY UnitsMember
<1>5. place \in [Units(sum, S) -> Units(f, D)]
  <2>1. ASSUME NEW u \in Units(sum, S) PROVE place[u] \in Units(f, D)
    BY <1>2, <1>3, <1>4
  <2>2. QED
    BY <2>1 DEF place
<1>6. ASSUME NEW u \in Units(sum, S), NEW v \in Units(sum, S), place[u] = place[v]
      PROVE  u = v
  <2>1. PICK c \in S : \E n \in 1..sum[c] : u = <<c, n>>
    BY <1>4
  <2>2. PICK n \in 1..sum[c] : u = <<c, n>>
    BY <2>1
  <2>3. PICK e \in S : \E m \in 1..sum[e] : v = <<e, m>>
    BY <1>4
  <2>4. PICK m \in 1..sum[e] : v = <<e, m>>
    BY <2>3
  <2>5. c = e
    <3>1. place[u][1] \in group[c] /\ place[v][1] \in group[e]
      BY <1>2, <1>3, <2>2, <2>4
    <3>2. QED
      BY <1>0, <1>6, <3>1
  <2>6. unit(c)[n] = unit(c)[m]
    BY <1>2, <1>6, <2>2, <2>4, <2>5
  <2>7. n = m
    BY <1>1, <2>5, <2>6 DEF Bijection, Injection, IsInjective
  <2>8. QED
    BY <2>2, <2>4, <2>5, <2>7
<1>7. place \in Injection(Units(sum, S), Units(f, D))
  BY <1>5, <1>6 DEF Injection, IsInjective
<1>8. IsFiniteSet(Units(f, D))
  BY TotalType
<1>9. ASSUME Covered(D, S, group), NEW w \in Units(f, D)
      PROVE  \E u \in Units(sum, S) : place[u] = w
  <2>1. PICK j \in D : \E m \in 1..f[j] : w = <<j, m>>
    BY UnitsMember
  <2>2. PICK m \in 1..f[j] : w = <<j, m>>
    BY <2>1
  <2>3. PICK c \in S : j \in group[c]
    BY <1>9 DEF Covered
  <2>4. w \in Units(f, rows(c))
    BY <2>2, <2>3, UnitsMember DEF rows
  <2>5. PICK n \in 1..sum[c] : unit(c)[n] = w
    BY <1>1, <2>4 DEF Bijection, Surjection
  <2>6. QED
    BY <1>2, <2>5
<1>10. ASSUME Covered(D, S, group)
       PROVE  Total(sum, S) = Total(f, D)
  <2>1. place \in Surjection(Units(sum, S), Units(f, D))
    BY <1>5, <1>9, <1>10 DEF Surjection
  <2>2. place \in Bijection(Units(sum, S), Units(f, D))
    BY <1>7, <2>1 DEF Bijection
  <2>3. IsFiniteSet(Units(sum, S))
    BY <1>7, <1>8, FS_Injection
  <2>4. QED
    BY <1>8, <2>2, <2>3, FS_Bijection DEF Total, ExistsBijection
<1>11. QED
  BY <1>7, <1>8, <1>10, FS_Injection DEF Total

\* Rows under other names have the same sum.
LEMMA TotalRenamed ==
  ASSUME NEW S, IsFiniteSet(S), NEW f, \A x \in S : f[x] \in Nat,
         NEW T, NEW g, NEW name, name \in Bijection(S, T), \A x \in S : g[name[x]] = f[x]
  PROVE  Total(g, T) = Total(f, S)
<1> DEFINE place == [u \in Units(f, S) |-> <<name[u[1]], u[2]>>]
<1>1. ASSUME NEW x \in S, NEW n \in 1..f[x]
      PROVE  /\ <<x, n>> \in Units(f, S)
             /\ place[<<x, n>>] = <<name[x], n>>
             /\ place[<<x, n>>] \in Units(g, T)
  <2>1. <<x, n>> \in Units(f, S)
    BY UnitsMember
  <2>2. place[<<x, n>>] = <<name[x], n>>
    BY <2>1
  <2> HIDE DEF place
  <2>3. name[x] \in T /\ n \in 1..g[name[x]]
    BY DEF Bijection, Surjection
  <2>4. QED
    BY <2>1, <2>2, <2>3, UnitsMember
<1>2. ASSUME NEW u \in Units(f, S)
      PROVE  \E x \in S : \E n \in 1..f[x] : u = <<x, n>>
  BY UnitsMember
<1>3. place \in [Units(f, S) -> Units(g, T)]
  <2>1. ASSUME NEW u \in Units(f, S) PROVE place[u] \in Units(g, T)
    <3> HIDE DEF place
    <3>1. QED
      BY <1>1, <1>2
  <2>2. QED
    BY <2>1
<1> HIDE DEF place
<1>4. ASSUME NEW u \in Units(f, S), NEW v \in Units(f, S), place[u] = place[v]
      PROVE  u = v
  <2>1. PICK x \in S : \E n \in 1..f[x] : u = <<x, n>>
    BY <1>2
  <2>2. PICK n \in 1..f[x] : u = <<x, n>>
    BY <2>1
  <2>3. PICK y \in S : \E m \in 1..f[y] : v = <<y, m>>
    BY <1>2
  <2>4. PICK m \in 1..f[y] : v = <<y, m>>
    BY <2>3
  <2>5. name[x] = name[y] /\ n = m
    BY <1>1, <1>4, <2>2, <2>4
  <2>6. x = y
    BY <2>5 DEF Bijection, Injection, IsInjective
  <2>7. QED
    BY <2>2, <2>4, <2>5, <2>6
<1>5. ASSUME NEW w \in Units(g, T) PROVE \E u \in Units(f, S) : place[u] = w
  <2>1. PICK y \in T : \E n \in 1..g[y] : w = <<y, n>>
    BY UnitsMember
  <2>2. PICK n \in 1..g[y] : w = <<y, n>>
    BY <2>1
  <2>3. PICK x \in S : name[x] = y
    BY DEF Bijection, Surjection
  <2>4. n \in 1..f[x]
    BY <2>3
  <2>5. QED
    BY <1>1, <2>2, <2>3, <2>4
<1>6. place \in Bijection(Units(f, S), Units(g, T))
  BY <1>3, <1>4, <1>5 DEF Bijection, Injection, Surjection, IsInjective
<1>7. IsFiniteSet(Units(f, S))
  BY TotalType
<1>8. QED
  BY <1>6, <1>7, FS_Bijection DEF Total, ExistsBijection

\* Amounts in rows P and columns C.
Table(f, P, C) == IsFiniteSet(P) /\ IsFiniteSet(C) /\ \A p \in P, c \in C : f[p][c] \in Nat

\* A table has one sum, added up by rows or by columns.
LEMMA TotalSwap ==
  ASSUME NEW P, NEW C, NEW f, Table(f, P, C)
  PROVE  \A column : (\A c \in C, p \in P : column[c][p] = f[p][c]) =>
           \A byRow, byColumn :
             /\ \A p \in P : byRow[p] = Total(f[p], C)
             /\ \A c \in C : byColumn[c] = Total(column[c], P)
             => Total(byRow, P) = Total(byColumn, C)
<1> DEFINE cells == P \X C
           cell == [w \in cells |-> f[w[1]][w[2]]]
           row == [p \in P |-> {p} \X C]
           col == [c \in C |-> P \X {c}]
<1>1. /\ IsFiniteSet(P) /\ IsFiniteSet(C)
      /\ \A p \in P, c \in C : f[p][c] \in Nat
      /\ IsFiniteSet(cells) /\ \A w \in cells : cell[w] \in Nat
  BY FS_Product DEF Table
<1>2. ASSUME NEW p \in P PROVE Total(f[p], C) = Total(cell, row[p])
  <2> DEFINE name == [c \in C |-> <<p, c>>]
  <2>1. name \in Bijection(C, row[p]) /\ \A c \in C : cell[name[c]] = f[p][c]
    <3>1. name \in [C -> row[p]]
      OBVIOUS
    <3>2. \A d, e \in C : name[d] = name[e] => d = e
      OBVIOUS
    <3>3. \A w \in row[p] : \E d \in C : name[d] = w
      OBVIOUS
    <3>4. \A d \in C : cell[name[d]] = f[p][d]
      OBVIOUS
    <3> HIDE DEF name, row
    <3>5. QED
      BY <3>1, <3>2, <3>3, <3>4 DEF Bijection, Injection, Surjection, IsInjective
  <2> HIDE DEF name, cell, row
  <2>2. QED
    BY <1>1, <2>1, TotalRenamed
<1>3. ASSUME NEW c \in C, NEW g, \A p \in P : g[p] = f[p][c]
      PROVE  Total(g, P) = Total(cell, col[c])
  <2> DEFINE name == [p \in P |-> <<p, c>>]
  <2>1. name \in Bijection(P, col[c]) /\ \A p \in P : cell[name[p]] = g[p]
    <3>1. name \in [P -> col[c]]
      OBVIOUS
    <3>2. \A q, r \in P : name[q] = name[r] => q = r
      OBVIOUS
    <3>3. \A w \in col[c] : \E q \in P : name[q] = w
      OBVIOUS
    <3>4. \A q \in P : cell[name[q]] = g[q]
      BY <1>3
    <3> HIDE DEF name, col
    <3>5. QED
      BY <3>1, <3>2, <3>3, <3>4 DEF Bijection, Injection, Surjection, IsInjective
  <2>2. \A p \in P : g[p] \in Nat
    BY <1>1, <1>3
  <2> HIDE DEF name, cell, col
  <2>3. QED
    BY <1>1, <2>1, <2>2, TotalRenamed
<1>4. Groups(cells, P, row) /\ Covered(cells, P, row) /\ Groups(cells, C, col) /\ Covered(cells, C, col)
  BY DEF Groups, Covered
<1> HIDE DEF cells, cell, row, col
<1>5. /\ \A sum : (\A p \in P : sum[p] = Total(cell, row[p])) => Total(sum, P) = Total(cell, cells)
      /\ \A sum : (\A c \in C : sum[c] = Total(cell, col[c])) => Total(sum, C) = Total(cell, cells)
  BY <1>1, <1>4, TotalByGroup
<1>6. ASSUME NEW column, \A c \in C, p \in P : column[c][p] = f[p][c],
             NEW byRow, \A p \in P : byRow[p] = Total(f[p], C),
             NEW byColumn, \A c \in C : byColumn[c] = Total(column[c], P)
      PROVE  Total(byRow, P) = Total(byColumn, C)
  <2>1. \A p \in P : byRow[p] = Total(cell, row[p])
    BY <1>2, <1>6
  <2>2. \A c \in C : byColumn[c] = Total(cell, col[c])
    BY <1>3, <1>6
  <2>3. QED
    BY <1>5, <2>1, <2>2
<1>7. QED
  BY <1>6

\* A set of numbers from 1 to n that is not empty has a largest one.
LEMMA Largest ==
  ASSUME NEW n \in Nat, NEW T \in SUBSET (1..n), T # {}
  PROVE  \E x \in T : \A y \in T : y <= x
<1> DEFINE R == {ss \in Nat \X Nat : ss[1] < ss[2]}
           gaps == {m \in Nat : n - m \in T}
<1>1. IsWellFoundedOn(R, Nat)
  BY NatLessThanWellFounded DEF OpToRel
<1>2. ASSUME NEW x \in T PROVE n - x \in gaps
  <2>1. n - x \in Nat /\ n - (n - x) = x
    OBVIOUS
  <2>2. QED
    BY <2>1
<1>3. gaps \subseteq Nat /\ gaps # {}
  BY <1>2
<1> HIDE DEF R
<1>4. PICK m \in gaps : \A k \in gaps : ~(<<k, m>> \in R)
  <2> HIDE DEF gaps
  <2> QED BY <1>1, <1>3, WFMin
<1>5. ASSUME NEW y \in T PROVE y <= n - m
  <2>1. ~(n - y < m)
    BY <1>2, <1>3, <1>4 DEF R
  <2>2. QED
    BY <2>1
<1>6. QED
  BY <1>5

-----------------------------------------------------------------------------
\* First-in first-out.

\* What a stretch of money and a stretch of debt have in common is no more
\* than either.
LEMMA CommonBounds ==
  ASSUME NEW a \in Nat, NEW money \in Nat, NEW b \in Nat, NEW debt \in Nat
  PROVE  /\ Common(a, money, b, debt) \in Nat
         /\ Common(a, money, b, debt) <= money
         /\ Common(a, money, b, debt) <= debt
BY DEF Common, AtLeastZero, Lesser, Greater

\* Stretches that do not overlap share no more than all of a stretch d of debt.
LEMMA ShareBound ==
  ASSUME NEW S, IsFiniteSet(S), NEW before, NEW money,
         \A x \in S : before[x] \in Nat /\ money[x] \in Nat,
         \A x, y \in S : x # y => \/ before[x] + money[x] <= before[y]
                                  \/ before[y] + money[y] <= before[x]
  PROVE  \A b, d \in Nat : \A share :
           (\A x \in S : share[x] = Common(before[x], money[x], b, d)) => Total(share, S) <= d
<1> SUFFICES ASSUME NEW b \in Nat, NEW d \in Nat, NEW share,
                    \A x \in S : share[x] = Common(before[x], money[x], b, d)
             PROVE  Total(share, S) <= d
  OBVIOUS
<1> DEFINE place == [u \in Units(share, S) |-> Greater(before[u[1]], b) + u[2]]
<1>1. ASSUME NEW x \in S, NEW n \in 1..share[x]
      PROVE  /\ <<x, n>> \in Units(share, S)
             /\ place[<<x, n>>] = Greater(before[x], b) + n
             /\ place[<<x, n>>] \in (b + 1)..(b + d)
             /\ place[<<x, n>>] \in (before[x] + 1)..(before[x] + money[x])
  <2>1. <<x, n>> \in Units(share, S)
    BY UnitsMember
  <2>2. place[<<x, n>>] = Greater(before[x], b) + n
    BY <2>1
  <2> HIDE DEF place
  <2>3. share[x] = Common(before[x], money[x], b, d) /\ share[x] \in Nat
    <3>1. before[x] \in Nat /\ money[x] \in Nat
      OBVIOUS
    <3>2. Common(before[x], money[x], b, d) \in Nat
      BY <3>1, CommonBounds
    <3>3. QED
      BY <3>2
  <2>4. QED
    BY <2>1, <2>2, <2>3 DEF Common, AtLeastZero, Lesser, Greater
<1>2. place \in [Units(share, S) -> (b + 1)..(b + d)]
  <2>1. ASSUME NEW u \in Units(share, S) PROVE place[u] \in (b + 1)..(b + d)
    <3>1. PICK x \in S : \E n \in 1..share[x] : u = <<x, n>>
      BY UnitsMember
    <3>2. PICK n \in 1..share[x] : u = <<x, n>>
      BY <3>1
    <3> HIDE DEF place
    <3>3. QED
      BY <1>1, <3>2
  <2>2. QED
    BY <2>1
<1>3. ASSUME NEW u \in Units(share, S), NEW v \in Units(share, S), place[u] = place[v]
      PROVE  u = v
  <2>1. PICK x \in S : \E n \in 1..share[x] : u = <<x, n>>
    BY UnitsMember
  <2>2. PICK n \in 1..share[x] : u = <<x, n>>
    BY <2>1
  <2>3. PICK y \in S : \E m \in 1..share[y] : v = <<y, m>>
    BY UnitsMember
  <2>4. PICK m \in 1..share[y] : v = <<y, m>>
    BY <2>3
  <2> HIDE DEF place
  <2>5. x = y
    BY <1>1, <1>3, <2>2, <2>4
  <2>6. before[x] \in Nat /\ n \in Int /\ m \in Int
    OBVIOUS
  <2>7. Greater(before[x], b) + n = Greater(before[x], b) + m
    BY <1>1, <1>3, <2>2, <2>4, <2>5
  <2>8. n = m
    BY <2>6, <2>7 DEF Greater
  <2>9. QED
    BY <2>2, <2>4, <2>5, <2>8
<1> HIDE DEF place
<1>4. place \in Injection(Units(share, S), (b + 1)..(b + d))
  BY <1>2, <1>3 DEF Injection, IsInjective
<1>5. IsFiniteSet((b + 1)..(b + d)) /\ Cardinality((b + 1)..(b + d)) = d
  BY FS_Interval
<1>6. QED
  BY <1>4, <1>5, FS_Injection DEF Total

\* What is summed before an older row, and the older row itself, is summed
\* before the newer one; and all of it is part of the sum.
LEMMA OlderBefore ==
  ASSUME NEW S, IsFiniteSet(S), S \subseteq Int, NEW rows, NEW f,
         \A x \in S : f[x] \in Nat /\ rows[x].at \in Int,
         NEW q \in S
  PROVE  /\ Older(rows, S, q) \subseteq S /\ IsFiniteSet(Older(rows, S, q))
         /\ Total(f, Older(rows, S, q)) \in Nat
         /\ Total(f, Older(rows, S, q)) + f[q] <= Total(f, S)
         /\ \A p \in Older(rows, S, q) :
              Total(f, Older(rows, S, p)) + f[p] <= Total(f, Older(rows, S, q))
<1>1. \A z \in S : z \in Int /\ rows[z].at \in Int
  OBVIOUS
<1>2. ASSUME NEW p \in S
      PROVE  /\ Older(rows, S, p) \subseteq S /\ IsFiniteSet(Older(rows, S, p))
             /\ p \notin Older(rows, S, p)
             /\ Total(f, Older(rows, S, p)) \in Nat
             /\ Total(f, Older(rows, S, p) \cup {p}) = Total(f, Older(rows, S, p)) + f[p]
  <2>1. Older(rows, S, p) \subseteq S /\ p \notin Older(rows, S, p)
    <3>1. p \in Int /\ rows[p].at \in Int
      BY <1>1
    <3>2. ~(rows[p].at < rows[p].at) /\ ~(p < p)
      BY <3>1
    <3>3. p \notin Older(rows, S, p)
      BY <3>2 DEF Older
    <3>4. QED
      BY <3>3 DEF Older
  <2>2. IsFiniteSet(Older(rows, S, p))
    BY <2>1, FS_Subset
  <2>3. QED
    BY <2>1, <2>2, TotalType, TotalAddRow
<1>3. Total(f, Older(rows, S, q) \cup {q}) <= Total(f, S)
  <2>1. Older(rows, S, q) \cup {q} \subseteq S
    BY <1>2
  <2>2. QED
    BY <2>1, TotalMonotone
<1>4. ASSUME NEW p \in Older(rows, S, q)
      PROVE  Total(f, Older(rows, S, p)) + f[p] <= Total(f, Older(rows, S, q))
  <2>1. p \in S
    BY <1>2
  <2>2. \/ rows[p].at < rows[q].at
        \/ rows[p].at = rows[q].at /\ p < q
    BY <1>4 DEF Older
  <2>3. ASSUME NEW z \in Older(rows, S, p) PROVE z \in Older(rows, S, q)
    BY <1>1, <2>1, <2>2 DEF Older
  <2>4. Older(rows, S, p) \cup {p} \subseteq Older(rows, S, q)
    BY <1>4, <2>3
  <2>5. Total(f, Older(rows, S, p) \cup {p}) <= Total(f, Older(rows, S, q))
    BY <1>2, <2>4, TotalMonotone
  <2>6. QED
    BY <1>2, <2>1, <2>5
<1>5. QED
  BY <1>2, <1>3, <1>4

\* Of two rows, one is older; what is summed before it and the row itself is
\* all summed before the other.
LEMMA OlderFirst ==
  ASSUME NEW S, IsFiniteSet(S), S \subseteq Int, NEW rows, NEW f,
         \A x \in S : f[x] \in Nat /\ rows[x].at \in Int,
         NEW x \in S, NEW y \in S, x # y
  PROVE  \/ Total(f, Older(rows, S, x)) + f[x] <= Total(f, Older(rows, S, y))
         \/ Total(f, Older(rows, S, y)) + f[y] <= Total(f, Older(rows, S, x))
<1>1. x \in Older(rows, S, y) \/ y \in Older(rows, S, x)
  BY DEF Older
<1>2. QED
  BY <1>1, OlderBefore

\* Money in line, of which a stretch of debt takes a part: nothing is lost
\* between one row and the next.
LEMMA LineShares ==
  ASSUME NEW S, IsFiniteSet(S), NEW before, NEW f,
         \A x \in S : before[x] \in Nat /\ f[x] \in Nat /\ before[x] + f[x] <= Total(f, S),
         \A x, y \in S : x # y => \/ before[x] + f[x] <= before[y]
                                  \/ before[y] + f[y] <= before[x]
  PROVE  \A b, d \in Nat : \A share : (\A x \in S : share[x] = Common(before[x], f[x], b, d))
            => Total(share, S) = Common(0, Total(f, S), b, d)
<1> DEFINE all == Total(f, S)
<1>1. all \in Nat /\ all = Total(f, S) /\ \A x \in S : before[x] + f[x] <= all
  BY TotalType
<1> HIDE DEF all
<1> SUFFICES ASSUME NEW b \in Nat, NEW d \in Nat, NEW share,
                    \A x \in S : share[x] = Common(before[x], f[x], b, d)
             PROVE  Total(share, S) = Common(0, all, b, d)
  BY <1>1
<1> DEFINE low == Lesser(b, all)
           high == Lesser(b + d, all)
           none == 0
           wide == high - low
           left == all - high
           first == [x \in S |-> Common(before[x], f[x], none, low)]
           mid == [x \in S |-> Common(before[x], f[x], low, wide)]
           last == [x \in S |-> Common(before[x], f[x], high, left)]
           rest == [x \in S |-> first[x] + mid[x]]
<1>2. /\ low \in Nat /\ high \in Nat /\ low <= high /\ high <= all
      /\ none \in Nat /\ wide \in Nat /\ left \in Nat
  BY <1>1 DEF Lesser
<1>3. ASSUME NEW p \in Nat, NEW n \in Nat, p + n <= all
      PROVE  /\ Common(p, n, none, low) \in Nat /\ Common(p, n, low, wide) \in Nat
             /\ Common(p, n, high, left) \in Nat
             /\ n = (Common(p, n, none, low) + Common(p, n, low, wide)) + Common(p, n, high, left)
             /\ Common(p, n, b, d) = Common(p, n, low, wide)
  <2>1. /\ Common(p, n, none, low) \in Nat /\ Common(p, n, low, wide) \in Nat
        /\ Common(p, n, high, left) \in Nat
    <3> HIDE DEF none, low, high, wide, left
    <3>1. QED
      BY <1>1, <1>2, CommonBounds
  <2>2. \A l, h \in Nat : l <= h /\ h <= all =>
          n = (Common(p, n, 0, l) + Common(p, n, l, h - l)) + Common(p, n, h, all - h)
    BY <1>1, <1>3 DEF Common, AtLeastZero, Lesser, Greater
  <2>3. Common(p, n, b, d) = Common(p, n, low, wide)
    BY <1>1, <1>3 DEF Common, AtLeastZero, Lesser, Greater
  <2>4. n = (Common(p, n, none, low) + Common(p, n, low, wide)) + Common(p, n, high, left)
    <3> HIDE DEF low, high
    <3>1. QED
      BY <1>1, <1>2, <2>2
  <2>5. QED
    BY <2>1, <2>3, <2>4
<1>4. \A l, w \in Nat : \A part : (\A x \in S : part[x] = Common(before[x], f[x], l, w)) => Total(part, S) <= w
  BY ShareBound
<1>5. \A x \in S : /\ first[x] = Common(before[x], f[x], none, low)
                    /\ mid[x] = Common(before[x], f[x], low, wide)
                    /\ last[x] = Common(before[x], f[x], high, left)
  OBVIOUS
<1> HIDE DEF none, low, high, wide, left
<1>6. Total(first, S) <= low /\ Total(mid, S) <= wide /\ Total(last, S) <= left
  <2> HIDE DEF first, mid, last
  <2>1. QED
    BY <1>2, <1>4, <1>5
<1>7. ASSUME NEW x \in S
      PROVE  /\ first[x] \in Nat /\ mid[x] \in Nat /\ last[x] \in Nat
             /\ rest[x] \in Nat /\ rest[x] = first[x] + mid[x]
             /\ f[x] = rest[x] + last[x]
             /\ share[x] = mid[x]
  <2>1. /\ first[x] = Common(before[x], f[x], none, low)
        /\ mid[x] = Common(before[x], f[x], low, wide)
        /\ last[x] = Common(before[x], f[x], high, left)
        /\ share[x] = Common(before[x], f[x], b, d)
        /\ rest[x] = first[x] + mid[x]
    OBVIOUS
  <2> HIDE DEF first, mid, last, rest
  <2>2. before[x] \in Nat /\ f[x] \in Nat /\ before[x] + f[x] <= all
    BY <1>1
  <2>3. first[x] \in Nat /\ mid[x] \in Nat /\ last[x] \in Nat /\ share[x] = mid[x]
    BY <1>3, <2>1, <2>2
  <2>4. f[x] = (first[x] + mid[x]) + last[x]
    BY <1>3, <2>1, <2>2
  <2>5. QED
    BY <2>1, <2>3, <2>4
<1>8. Total(share, S) = Total(mid, S)
  <2> HIDE DEF mid
  <2> QED BY <1>7, TotalSame
<1> HIDE DEF first, mid, last, rest
<1>9. /\ all = Total(rest, S) + Total(last, S)
      /\ Total(rest, S) = Total(first, S) + Total(mid, S)
  BY <1>1, <1>7, TotalPlus
<1>10. Total(first, S) \in Nat /\ Total(mid, S) \in Nat /\ Total(last, S) \in Nat
  BY <1>7, TotalType
<1>11. Total(mid, S) = wide
  <2>1. PICK i, j, k \in Nat : i = Total(first, S) /\ j = Total(mid, S) /\ k = Total(last, S)
    BY <1>10
  <2>2. all = (i + j) + k /\ i <= low /\ j <= wide /\ k <= left
    BY <1>6, <1>9, <2>1
  <2>3. j = wide
    BY <1>1, <1>2, <2>2 DEF wide, left
  <2>4. QED
    BY <2>1, <2>3
<1>12. Common(0, all, b, d) = wide
  BY <1>1 DEF wide, low, high, Common, AtLeastZero, Lesser, Greater
<1>13. QED
  BY <1>8, <1>11, <1>12

\* Rows that can be put in the order (at, id), with an amount f each.
Queue(rows, f, S) ==
  IsFiniteSet(S) /\ S \subseteq Int /\ \A x \in S : f[x] \in Nat /\ rows[x].at \in Int

\* A stretch of debt takes from the whole line of money, oldest row first, what
\* it has in common with it.
LEMMA ShareExact ==
  ASSUME NEW S, NEW rows, NEW f, Queue(rows, f, S)
  PROVE  /\ Total(f, S) \in Nat
         /\ \A b, d \in Nat : \A share :
              (\A x \in S : share[x] = Common(Total(f, Older(rows, S, x)), f[x], b, d))
                => Total(share, S) = Common(0, Total(f, S), b, d)
<1> DEFINE before == [x \in S |-> Total(f, Older(rows, S, x))]
<1>1. Total(f, S) \in Nat /\ IsFiniteSet(S)
  BY TotalType DEF Queue
<1>2. \A x \in S : before[x] \in Nat /\ f[x] \in Nat /\ before[x] + f[x] <= Total(f, S)
  BY OlderBefore DEF Queue
<1>3. \A x, y \in S : x # y => \/ before[x] + f[x] <= before[y]
                               \/ before[y] + f[y] <= before[x]
  BY OlderFirst DEF Queue
<1>4. \A x \in S : before[x] = Total(f, Older(rows, S, x))
  OBVIOUS
<1> HIDE DEF before
<1>5. \A b, d \in Nat : \A share : (\A x \in S : share[x] = Common(before[x], f[x], b, d))
        => Total(share, S) = Common(0, Total(f, S), b, d)
  BY <1>1, <1>2, <1>3, LineShares
<1>6. QED
  BY <1>1, <1>4, <1>5

-----------------------------------------------------------------------------
\* Folds.

\* Induction from 0 to n, for a set of numbers.
LEMMA InductionUpTo ==
  ASSUME NEW n \in Nat, NEW T, 0 \in T, \A i \in 1..n : i - 1 \in T => i \in T
  PROVE  \A i \in 0..n : i \in T
<1> DEFINE R == {ss \in Nat \X Nat : ss[1] < ss[2]}
           bad == {i \in 0..n : i \notin T}
<1>1. IsWellFoundedOn(R, Nat)
  BY NatLessThanWellFounded DEF OpToRel
<1>2. SUFFICES ASSUME bad # {} PROVE FALSE
  OBVIOUS
<1>3. bad \subseteq Nat
  OBVIOUS
<1>4. PICK m \in bad : \A k \in bad : ~(<<k, m>> \in R)
  <2> HIDE DEF bad, R
  <2> QED BY <1>1, <1>2, <1>3, WFMin
<1>5. m \in 1..n
  OBVIOUS
<1>6. m - 1 \notin bad
  <2>1. <<m - 1, m>> \in R
    BY <1>5
  <2> QED  BY <2>1, <1>4
<1> QED
  BY <1>5, <1>6

\* What the elements of S do to values of V leaves them in V.
Acts(G, S, V) == \A x \in S, v \in V : G[x][v] \in V

\* One element of each part of S.
Chooses(ch, S) == \A s \in SUBSET S : s # {} => ch[s] \in s

\* F has the value of each part of S: what the chosen element does to the value
\* of the others.
FoldOf(F, S, base, G, ch) ==
  \A s \in SUBSET S : F[s] = IF s = {} THEN base ELSE G[ch[s]][F[s \ {ch[s]}]]

\* A finite set can be folded.
LEMMA FoldExists ==
  ASSUME NEW S, IsFiniteSet(S), NEW V, NEW base \in V, NEW G, Acts(G, S, V),
         NEW ch, Chooses(ch, S)
  PROVE  \E F \in [SUBSET S -> V] : FoldOf(F, S, base, G, ch)
<1> DEFINE Step(F, s) == IF s = {} THEN base ELSE G[ch[s]][F[s \ {ch[s]}]]
           T == {k \in Nat : \E F \in [SUBSET S -> V] :
                    \A s \in SUBSET S : Cardinality(s) <= k => F[s] = Step(F, s)}
           n == Cardinality(S)
<1>1. n \in Nat /\ \A s \in SUBSET S : IsFiniteSet(s) /\ Cardinality(s) \in Nat /\ Cardinality(s) <= n
                                       /\ (Cardinality(s) = 0 <=> s = {})
  <2>1. \A s \in SUBSET S : IsFiniteSet(s) /\ Cardinality(s) <= n
    BY FS_Subset
  <2>2. n \in Nat /\ \A s \in SUBSET S : Cardinality(s) \in Nat
    BY <2>1, FS_CardinalityType
  <2> QED  BY <2>1, <2>2, FS_EmptySet
<1>2. 0 \in T
  <2> DEFINE F == [s \in SUBSET S |-> base]
  <2>1. F \in [SUBSET S -> V]
    OBVIOUS
  <2>2. \A s \in SUBSET S : Cardinality(s) <= 0 => F[s] = Step(F, s)
    BY <1>1
  <2> QED  BY <2>1, <2>2
<1>3. ASSUME NEW k \in 1..n, k - 1 \in T PROVE k \in T
  <2>1. PICK F \in [SUBSET S -> V] : \A s \in SUBSET S : Cardinality(s) <= k - 1 => F[s] = Step(F, s)
    BY <1>3
  <2> DEFINE H == [s \in SUBSET S |-> Step(F, s)]
  <2>2. ASSUME NEW s \in SUBSET S, s # {} PROVE ch[s] \in S /\ s \ {ch[s]} \in SUBSET S
    BY <2>2 DEF Chooses
  <2>3. H \in [SUBSET S -> V]
    <3>1. ASSUME NEW s \in SUBSET S PROVE Step(F, s) \in V
      BY <2>2 DEF Acts
    <3> HIDE DEF Step
    <3> QED BY <3>1
  <2>4. ASSUME NEW s \in SUBSET S, Cardinality(s) <= k PROVE H[s] = Step(H, s)
    <3>1. CASE s = {}
      BY <3>1
    <3>2. CASE s # {}
      <4> DEFINE t == s \ {ch[s]}
      <4>1. t \in SUBSET S /\ ch[s] \in s
        BY <3>2, <2>2 DEF Chooses
      <4>2. Cardinality(t) = Cardinality(s) - 1
        BY <4>1, <1>1, FS_RemoveElement
      <4>3. Cardinality(t) <= k - 1
        BY <4>1, <4>2, <2>4, <1>1
      <4>4. H[t] = F[t]
        <5>1. F[t] = Step(F, t)
          BY <4>1, <4>3, <2>1
        <5> HIDE DEF Step, t
        <5> QED BY <5>1, <4>1
      <4>5. H[s] = G[ch[s]][F[t]]
        BY <3>2
      <4> HIDE DEF H
      <4> QED BY <4>4, <4>5, <3>2
    <3> QED BY <3>1, <3>2
  <2> HIDE DEF H, Step
  <2>5. k \in Nat
    BY <1>1
  <2> QED  BY <2>3, <2>4, <2>5
<1> HIDE DEF T
<1>4. n \in T
  BY <1>1, <1>2, <1>3, InductionUpTo
<1> USE DEF T
<1> QED
  BY <1>1, <1>4 DEF FoldOf
=============================================================================
