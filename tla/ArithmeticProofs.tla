-------------------------- MODULE ArithmeticProofs --------------------------
(***************************************************************************)
(* What the contracts' integer arithmetic guarantees for every principal,  *)
(* rate and repayment, however the divisions round, and how the sums over  *)
(* guarantors and loans move when one guarantor or one loan does.          *)
(***************************************************************************)
EXTENDS LoanMath, FiniteSets, FiniteSetsExt, FiniteSetTheorems,
        WellFoundedInduction, TLAPS

-----------------------------------------------------------------------------
\* Products and quotients.

\* Division rounds down to an integer.
LEMMA DivisionRoundsDown ==
    ASSUME NEW a \in Int, NEW b \in Int, b > 0
    PROVE  /\ a \div b \in Int
           /\ (a \div b) * b <= a
           /\ a < (a \div b) * b + b
OBVIOUS

\* A quotient of naturals is a natural.
LEMMA QuotientIsNat ==
    ASSUME NEW a \in Nat, NEW b \in Nat, b > 0
    PROVE  a \div b \in Nat
OBVIOUS

\* A product of naturals is a natural.
LEMMA ProductIsNat ==
    ASSUME NEW a \in Nat, NEW b \in Nat
    PROVE  a * b \in Nat
OBVIOUS

\* Products with the same natural keep the order.
LEMMA ProductMonotone ==
    ASSUME NEW a \in Nat, NEW b \in Int, NEW c \in Int, b <= c
    PROVE  a * b <= a * c
OBVIOUS

\* Quotients by the same divisor keep the order of their dividends.
LEMMA QuotientMonotone ==
    ASSUME NEW a \in Int, NEW b \in Int, NEW d \in Int, d > 0, a <= b
    PROVE  a \div d <= b \div d
<1> DEFINE p == a \div d
           q == b \div d
<1>1. p \in Int /\ p * d <= a
  BY DivisionRoundsDown
<1>2. q \in Int /\ b < q * d + d
  BY DivisionRoundsDown
<1> HIDE DEF p, q
<1>3. SUFFICES ASSUME p >= q + 1 PROVE FALSE
  BY <1>1, <1>2 DEF p, q
<1>4. d * (q + 1) <= d * p
  BY <1>1, <1>2, <1>3, ProductMonotone
<1> QED
  BY <1>1, <1>2, <1>4

\* The LTV lies between the floor and the base rate for every valid score.
LEMMA RequiredLtvInBand ==
    ASSUME NEW base \in Nat, NEW floor \in Nat, floor <= base,
           NEW score \in 0 .. BPS
    PROVE  RequiredLtvBps(base, floor, score) \in floor .. base
<1> DEFINE span == base - floor
           q == (span * score) \div BPS
<1>1. span \in Nat /\ BPS \in Nat /\ BPS > 0 /\ score \in Nat
  BY DEF BPS
<1>2. span * score \in Nat
  BY <1>1, ProductIsNat
<1>3. q \in Nat /\ q * BPS <= span * score
  BY <1>1, <1>2, QuotientIsNat, DivisionRoundsDown
<1>4. span * score <= span * BPS
  BY <1>1, ProductMonotone
<1> HIDE DEF span, q
<1>5. q * BPS <= span * BPS
  BY <1>1, <1>2, <1>3, <1>4
<1>6. q <= span
  BY <1>1, <1>3, <1>5 DEF BPS
<1> QED
  BY <1>1, <1>3, <1>6 DEF RequiredLtvBps, span, q

\* With an LTV of at least 100% the collateral covers the principal.
LEMMA CollateralCoversPrincipal ==
    ASSUME NEW principal \in Nat, NEW ltv \in Nat, ltv >= BPS
    PROVE  CollateralFor(principal, ltv) >= principal
<1> DEFINE q == (principal * ltv) \div BPS
<1>1. principal * BPS <= principal * ltv
  BY ProductMonotone DEF BPS
<1>2. principal * ltv \in Nat
  BY ProductIsNat
<1>3. q \in Int /\ principal * ltv < q * BPS + BPS
  BY <1>2, DivisionRoundsDown DEF BPS
<1> HIDE DEF q
<1>4. principal * BPS < q * BPS + BPS
  BY <1>1, <1>2, <1>3 DEF BPS
<1>5. principal <= q
  BY <1>3, <1>4 DEF BPS
<1> QED
  BY <1>5 DEF CollateralFor, q

\* What was earned is at most the proportional share.
LEMMA EarnedAtMostShare ==
    ASSUME NEW locked \in Nat, NEW repaid \in Nat, NEW principal \in Nat,
           principal > 0, NEW buffer \in Nat, buffer < BPS
    PROVE  /\ Earned(locked, repaid, principal, buffer) \in Nat
           /\ Earned(locked, repaid, principal, buffer) * principal
                  <= locked * repaid
<1> DEFINE share == locked * repaid
           a == share * (BPS - buffer)
           d == principal * BPS
           q == a \div d
<1>1. BPS - buffer \in Nat /\ BPS - buffer <= BPS /\ BPS \in Nat
  BY DEF BPS
<1>2. share \in Nat
  BY ProductIsNat
<1> HIDE DEF share
<1>3. a \in Nat /\ a <= share * BPS
  BY <1>1, <1>2, ProductIsNat, ProductMonotone
<1>4. d \in Nat /\ d > 0
  BY ProductIsNat DEF BPS
<1>5. q \in Nat /\ q * d <= a
  BY <1>3, <1>4, QuotientIsNat, DivisionRoundsDown
<1> HIDE DEF a, q
<1>6. q * d = (q * principal) * BPS
  BY <1>5 DEF BPS, d
<1>7. (q * principal) * BPS <= share * BPS
  BY <1>2, <1>3, <1>4, <1>5, <1>6 DEF BPS
<1>8. q * principal <= share
  BY <1>2, <1>5, <1>7, ProductIsNat DEF BPS
<1> QED
  BY <1>5, <1>8 DEF Earned, q, a, d, share

\* More repaid earns at least as much back.
LEMMA EarnedMonotone ==
    ASSUME NEW locked \in Nat, NEW r \in Nat, NEW s \in Nat, r <= s,
           NEW principal \in Nat, principal > 0,
           NEW buffer \in Nat, buffer < BPS
    PROVE  Earned(locked, r, principal, buffer)
               <= Earned(locked, s, principal, buffer)
<1> DEFINE keep == BPS - buffer
<1>1. keep \in Nat
  BY DEF BPS
<1>2. locked * r \in Nat /\ locked * s \in Nat /\ locked * r <= locked * s
  BY ProductIsNat, ProductMonotone
<1>3. keep * (locked * r) <= keep * (locked * s)
  BY <1>1, <1>2, ProductMonotone
<1>4. principal * BPS \in Nat /\ principal * BPS > 0
  BY ProductIsNat DEF BPS
<1> HIDE DEF keep
<1>5. (locked * r) * keep \in Int /\ (locked * s) * keep \in Int
      /\ (locked * r) * keep <= (locked * s) * keep
  BY <1>1, <1>2, <1>3
<1>6. ((locked * r) * keep) \div (principal * BPS)
          <= ((locked * s) * keep) \div (principal * BPS)
  BY <1>4, <1>5, QuotientMonotone
<1> QED
  BY <1>6 DEF Earned, keep

\* Before the loan closes, less than everything has been earned back, and
\* when the collateral covered the principal, what is left covers the debt.
LEMMA EarnedLeavesTheDebtCovered ==
    ASSUME NEW locked \in Nat, NEW repaid \in Nat, NEW principal \in Nat,
           repaid < principal, locked >= principal,
           NEW buffer \in Nat, buffer < BPS
    PROVE  principal - repaid
               <= locked - Earned(locked, repaid, principal, buffer)
<1> DEFINE q == Earned(locked, repaid, principal, buffer)
           surplus == locked - principal
           debt == principal - repaid
<1>0. principal > 0
  OBVIOUS
<1>1. q \in Nat /\ q * principal <= locked * repaid
  BY <1>0, EarnedAtMostShare
<1>2. surplus \in Nat /\ debt \in Nat
  OBVIOUS
<1> HIDE DEF q
<1>3. SUFFICES ASSUME q >= surplus + repaid + 1 PROVE FALSE
  BY <1>1 DEF q
<1>4. principal * (surplus + repaid + 1) <= principal * q
  BY <1>1, <1>2, <1>3, ProductMonotone
<1>5. debt * surplus \in Nat
  BY <1>2, ProductIsNat
<1>6. principal * (surplus + repaid + 1)
          = locked * repaid + principal + debt * surplus
  OBVIOUS
<1> QED
  BY <1>1, <1>4, <1>5, <1>6

\* Less than everything repaid covers less than every installment.
LEMMA CoveredBelowCount ==
    ASSUME NEW repaid \in Nat, NEW count \in Nat, count > 0,
           NEW principal \in Nat, repaid < principal
    PROVE  InstallmentsCovered(repaid, count, principal) \in 0 .. count - 1
<1> DEFINE q == (repaid * count) \div principal
<1>1. repaid * count \in Nat
  BY ProductIsNat
<1>2. q \in Nat /\ q * principal <= repaid * count
  BY <1>1, QuotientIsNat, DivisionRoundsDown
<1>3. (repaid + 1) * count <= principal * count
  BY ProductMonotone
<1> HIDE DEF q
<1>4. SUFFICES ASSUME q >= count PROVE FALSE
  BY <1>2 DEF InstallmentsCovered, q
<1>5. principal * count <= principal * q
  BY <1>2, <1>4, ProductMonotone
<1> QED
  BY <1>1, <1>2, <1>3, <1>5

\* What was earned leaves at least the safety buffer's share behind.
LEMMA EarnedWithholdsBuffer ==
    ASSUME NEW locked \in Nat, NEW repaid \in Nat, NEW principal \in Nat,
           repaid < principal, NEW buffer \in Nat, buffer < BPS
    PROVE  Earned(locked, repaid, principal, buffer) * BPS
               <= locked * (BPS - buffer)
<1> DEFINE keep == BPS - buffer
           d == principal * BPS
           q == ((locked * repaid) * keep) \div d
           share == locked * keep
<1>1. keep \in Nat /\ principal \in Nat /\ principal > 0
  BY DEF BPS
<1>2. locked * repaid \in Nat /\ share \in Nat
  BY <1>1, ProductIsNat
<1> HIDE DEF keep
<1>3. (locked * repaid) * keep \in Nat
  BY <1>1, <1>2, ProductIsNat
<1>4. d \in Nat /\ d > 0
  BY <1>1, ProductIsNat DEF BPS
<1>5. q \in Nat /\ q * d <= (locked * repaid) * keep
  BY <1>3, <1>4, QuotientIsNat, DivisionRoundsDown
<1> HIDE DEF q
<1>6. (locked * repaid) * keep = share * repaid
  BY <1>1
<1>7. share * repaid <= share * principal
  BY <1>2, ProductMonotone
<1> HIDE DEF share
<1>8. q * d = (q * BPS) * principal
  BY <1>5 DEF BPS
<1>9. q * BPS \in Nat
  BY <1>5 DEF BPS
<1>10. (q * BPS) * principal <= share * principal
  BY <1>2, <1>3, <1>5, <1>6, <1>7, <1>8, <1>9, ProductIsNat
<1> DEFINE e == q * BPS
<1> HIDE DEF e
<1>11. e <= share
  BY <1>1, <1>2, <1>9, <1>10 DEF e
<1> QED
  BY <1>11 DEF Earned, e, q, d, share, keep

-----------------------------------------------------------------------------
\* Sums over finite sets.  The library defines a sum by a fold, a function
\* that calls itself on smaller sets; a set on which a law of sums fails would
\* have a smallest subset on which it does, and taking one element out of that
\* one refutes it.

\* The element that a sum over a set takes first.
FirstOf(S) == CHOOSE x \in S : TRUE

\* What the library's fold computes of one subset, the rest being known.
OneMore(f, sum, S) == IF S = {} THEN 0 ELSE f[FirstOf(S)] + sum[S \ {FirstOf(S)}]

\* `sum` is the table of sums that the fold over S is defined by.
Sums(sum, f, S) == sum = [T \in SUBSET S |-> OneMore(f, sum, T)]

\* The library's sum is that table's value at the whole set.
LEMMA SumIsChosen ==
    ASSUME NEW f, NEW S
    PROVE  SumFunctionOnSet(f, S) = (CHOOSE sum : Sums(sum, f, S))[S]
BY Zenon DEF SumFunctionOnSet, FoldFunctionOnSet, MapThenFoldSet, Sums, OneMore, FirstOf

\* Among subsets of a finite set there is a minimal one: what the proofs below
\* use in the place of induction over the set.
LEMMA SmallestSubset ==
    ASSUME NEW S, IsFiniteSet(S), NEW bad \in SUBSET SUBSET S, bad # {}
    PROVE  \E T \in bad : \A U \in SUBSET T : U # T => U \notin bad
<1>1. IsWellFoundedOn(StrictSubsetOrdering(S), FiniteSubsetsOf(S))
  BY FS_StrictSubsetOrderingWellFounded
<1>2. bad \subseteq FiniteSubsetsOf(S)
  BY FS_FiniteSubsetsOfFinite
<1>3. PICK T \in bad : \A U \in bad : ~(<<U, T>> \in StrictSubsetOrdering(S))
  BY <1>1, <1>2, WFMin
<1>4. \A U \in bad : U \subseteq T /\ U # T => <<U, T>> \in StrictSubsetOrdering(S)
  BY DEF StrictSubsetOrdering
<1>5. \A U \in SUBSET T : U # T => U \notin bad
  BY <1>3, <1>4
<1> QED
  BY <1>5

\* The element taken first is one of the set, and less is left.
LEMMA FirstIsIn ==
    ASSUME NEW S, S # {}
    PROVE  FirstOf(S) \in S /\ S \ {FirstOf(S)} \in SUBSET S /\ S \ {FirstOf(S)} # S
<1>1. FirstOf(S) \in S
  BY Zenon DEF FirstOf
<1> QED
  BY <1>1

\* Tables of sums agree where they are both defined.
LEMMA SumsAgree ==
    ASSUME NEW f, NEW S, IsFiniteSet(S), NEW T \in SUBSET S,
           NEW sum, Sums(sum, f, S), NEW other, Sums(other, f, T)
    PROVE  sum[T] = other[T]
<1> DEFINE bad == {U \in SUBSET T : sum[U] # other[U]}
<1>1. SUFFICES ASSUME bad # {} PROVE FALSE
  OBVIOUS
<1>2. IsFiniteSet(T)
  BY FS_Subset
<1>3. PICK U \in bad : \A V \in SUBSET U : V # U => V \notin bad
  <2>1. bad \in SUBSET SUBSET T
    OBVIOUS
  <2> HIDE DEF bad
  <2> QED
    BY <1>1, <1>2, <2>1, SmallestSubset
<1>4. sum[U] = OneMore(f, sum, U) /\ other[U] = OneMore(f, other, U)
  BY DEF Sums
<1>5. CASE U = {}
  BY <1>4, <1>5 DEF OneMore
<1>6. CASE U # {}
  <2> DEFINE V == U \ {FirstOf(U)}
  <2>1. V \in SUBSET U /\ V # U
    BY <1>6, FirstIsIn
  <2>2. sum[V] = other[V]
    BY <1>3, <2>1
  <2>3. sum[U] = f[FirstOf(U)] + sum[V] /\ other[U] = f[FirstOf(U)] + other[V]
    BY <1>4, <1>6 DEF OneMore
  <2> HIDE DEF V
  <2> QED
    BY <2>2, <2>3
<1> QED
  BY <1>5, <1>6

\* There is one for every finite set.
LEMMA SumsExist ==
    ASSUME NEW f, NEW S, IsFiniteSet(S)
    PROVE  \E sum : Sums(sum, f, S)
<1> DEFINE bad == {T \in SUBSET S : ~ \E sum : Sums(sum, f, T)}
<1>1. SUFFICES ASSUME bad # {} PROVE FALSE
  OBVIOUS
<1>2. PICK T \in bad : \A U \in SUBSET T : U # T => U \notin bad
  <2>1. bad \in SUBSET SUBSET S
    OBVIOUS
  <2> HIDE DEF bad
  <2> QED
    BY <1>1, <2>1, SmallestSubset
<1> DEFINE tableOf(U) == CHOOSE sum : Sums(sum, f, U)
           below == [U \in SUBSET T |-> tableOf(U)[U]]
           table == [U \in SUBSET T |-> OneMore(f, below, U)]
<1>3. \A U \in SUBSET T : U # T => Sums(tableOf(U), f, U)
  <2>1. \A U \in SUBSET T : U # T => \E sum : Sums(sum, f, U)
    BY <1>2
  <2> QED
    BY <2>1
<1>4. ASSUME NEW U \in SUBSET T, U # T PROVE table[U] = below[U]
  <2>1. Sums(tableOf(U), f, U) /\ IsFiniteSet(U)
    BY <1>3, <1>4, FS_Subset
  <2>2. below[U] = OneMore(f, tableOf(U), U)
    <3>1. below[U] = tableOf(U)[U]
      OBVIOUS
    <3> HIDE DEF tableOf, below
    <3> QED
      BY <2>1, <3>1 DEF Sums
  <2>3. CASE U = {}
    BY <2>2, <2>3 DEF OneMore
  <2>4. CASE U # {}
    <3> DEFINE V == U \ {FirstOf(U)}
    <3>1. V \in SUBSET U /\ V # U /\ V \in SUBSET T /\ V # T
      BY <1>4, <2>4, FirstIsIn
    <3>2. Sums(tableOf(V), f, V)
      BY <1>3, <3>1
    <3>3. tableOf(U)[V] = tableOf(V)[V]
      <4> HIDE DEF tableOf, V
      <4> QED
        BY <2>1, <3>1, <3>2, SumsAgree
    <3>4. below[V] = tableOf(V)[V]
      BY <3>1
    <3>5. OneMore(f, below, U) = f[FirstOf(U)] + below[V]
      BY <2>4 DEF OneMore
    <3>6. OneMore(f, tableOf(U), U) = f[FirstOf(U)] + tableOf(U)[V]
      BY <2>4 DEF OneMore
    <3>7. table[U] = OneMore(f, below, U)
      OBVIOUS
    <3> HIDE DEF tableOf, V, below, table
    <3> QED
      BY <2>2, <3>3, <3>4, <3>5, <3>6, <3>7
  <2> QED
    BY <2>3, <2>4
<1>5. ASSUME NEW U \in SUBSET T PROVE OneMore(f, below, U) = OneMore(f, table, U)
  <2>1. CASE U = {}
    BY <2>1 DEF OneMore
  <2>2. CASE U # {}
    <3>1. U \ {FirstOf(U)} \in SUBSET T /\ U \ {FirstOf(U)} # T
      BY <2>2, FirstIsIn
    <3> HIDE DEF below, table
    <3> QED
      BY <1>4, <3>1 DEF OneMore
  <2> QED
    BY <2>1, <2>2
<1>6. Sums(table, f, T)
  <2>1. table = [U \in SUBSET T |-> OneMore(f, below, U)]
    OBVIOUS
  <2> HIDE DEF below, table
  <2> QED
    BY <1>5, <2>1 DEF Sums
<1> QED
  BY <1>2, <1>6

\* The sum of a finite set takes its elements one by one.
LEMMA SumRecursion ==
    ASSUME NEW f, NEW S, IsFiniteSet(S)
    PROVE  SumFunctionOnSet(f, S) =
             IF S = {} THEN 0
             ELSE f[FirstOf(S)] + SumFunctionOnSet(f, S \ {FirstOf(S)})
<1> DEFINE tableOf(T) == CHOOSE sum : Sums(sum, f, T)
<1>1. \A T : IsFiniteSet(T) => Sums(tableOf(T), f, T)
  BY SumsExist
<1>2. \A T : SumFunctionOnSet(f, T) = tableOf(T)[T]
  BY SumIsChosen
<1> HIDE DEF tableOf
<1>3. SumFunctionOnSet(f, S) = OneMore(f, tableOf(S), S)
  BY <1>1, <1>2 DEF Sums
<1>4. CASE S = {}
  BY <1>3, <1>4 DEF OneMore
<1>5. CASE S # {}
  <2> DEFINE T == S \ {FirstOf(S)}
  <2>1. T \in SUBSET S /\ IsFiniteSet(T)
    BY <1>5, FirstIsIn, FS_Subset
  <2>2. tableOf(S)[T] = SumFunctionOnSet(f, T)
    <3> HIDE DEF T
    <3> QED
      BY <1>1, <1>2, <2>1, SumsAgree
  <2>3. SumFunctionOnSet(f, S) = f[FirstOf(S)] + tableOf(S)[T]
    BY <1>3, <1>5 DEF OneMore
  <2> QED
    BY <1>5, <2>2, <2>3
<1> QED
  BY <1>4, <1>5

\* It does not matter which element goes first.
LEMMA SumTakeOut ==
    ASSUME NEW S, IsFiniteSet(S), NEW f, \A y \in S : f[y] \in Int, NEW x \in S
    PROVE  /\ SumFunctionOnSet(f, S) = f[x] + SumFunctionOnSet(f, S \ {x})
           /\ SumFunctionOnSet(f, S) \in Int
           /\ SumFunctionOnSet(f, S \ {x}) \in Int
<1> DEFINE sum(T) == SumFunctionOnSet(f, T)
           good(T) == /\ sum(T) \in Int
                      /\ \A y \in T : sum(T) = f[y] + sum(T \ {y})
           bad == {T \in SUBSET S : ~good(T)}
<1>1. bad = {}
  <2>1. SUFFICES ASSUME bad # {} PROVE FALSE
    OBVIOUS
  <2>2. PICK T \in bad : \A U \in SUBSET T : U # T => U \notin bad
    <3>1. bad \in SUBSET SUBSET S
      OBVIOUS
    <3> HIDE DEF bad
    <3> QED
      BY <2>1, <3>1, SmallestSubset
  <2>3. \A U \in SUBSET T : U # T => good(U)
    BY <2>2
  <2>4. IsFiniteSet(T)
    BY FS_Subset
  <2>5. T # {}
    <3>1. CASE T = {}
      <4>1. sum({}) = 0
        BY FS_EmptySet, SumRecursion
      <4> QED
        BY <3>1, <4>1
    <3> QED
      BY <3>1
  <2> DEFINE c == FirstOf(T)
  <2>6. c \in T /\ f[c] \in Int
    BY <2>5, FirstIsIn
  <2>7. sum(T) = f[c] + sum(T \ {c})
    BY <2>4, <2>5, SumRecursion
  <2>8. T \ {c} \in SUBSET T /\ T \ {c} # T
    BY <2>6
  <2>9. sum(T \ {c}) \in Int
    BY <2>3, <2>8
  <2>10. ASSUME NEW y \in T PROVE sum(T) = f[y] + sum(T \ {y})
    <3>1. CASE y = c
      BY <2>7, <3>1
    <3>2. CASE y # c
      <4>1. f[y] \in Int
        OBVIOUS
      <4>2. /\ T \ {y} \in SUBSET T /\ T \ {y} # T /\ c \in T \ {y}
            /\ y \in T \ {c}
        BY <2>6, <3>2
      <4>3. (T \ {y}) \ {c} = (T \ {c}) \ {y}
        OBVIOUS
      <4>4. sum(T \ {y}) = f[c] + sum((T \ {y}) \ {c})
        <5> HIDE DEF c, sum
        <5> QED
          BY <2>3, <4>2
      <4>5. sum(T \ {c}) = f[y] + sum((T \ {c}) \ {y})
        <5> HIDE DEF c, sum
        <5> QED
          BY <2>3, <2>8, <4>2
      <4>6. sum((T \ {c}) \ {y}) \in Int
        <5>1. (T \ {c}) \ {y} \in SUBSET T /\ (T \ {c}) \ {y} # T
          BY <2>6
        <5> HIDE DEF c, sum
        <5> QED
          BY <2>3, <5>1
      <4> DEFINE rest == sum((T \ {c}) \ {y})
      <4>7. sum(T \ {y}) = f[c] + rest /\ sum(T \ {c}) = f[y] + rest
        BY <4>3, <4>4, <4>5
      <4>8. rest \in Int
        BY <4>6
      <4> HIDE DEF c, sum, rest
      <4> QED
        BY <2>6, <2>7, <4>1, <4>7, <4>8
    <3> QED
      BY <3>1, <3>2
  <2>11. sum(T) \in Int
    <3> HIDE DEF c, sum
    <3> QED
      BY <2>6, <2>7, <2>9
  <2> QED
    BY <2>2, <2>10, <2>11
<1>2. good(S) /\ good(S \ {x})
  <2>1. S \in SUBSET S /\ S \ {x} \in SUBSET S
    OBVIOUS
  <2> HIDE DEF good
  <2> QED
    BY <1>1, <2>1
<1> QED
  BY <1>2

\* Nothing adds up to nothing.
LEMMA SumOfNone == ASSUME NEW f PROVE SumFunctionOnSet(f, {}) = 0
BY FS_EmptySet, SumRecursion

\* A sum of integers is an integer.
LEMMA SumType ==
    ASSUME NEW S, IsFiniteSet(S), NEW f, \A y \in S : f[y] \in Int
    PROVE  SumFunctionOnSet(f, S) \in Int
<1>1. CASE S = {}
  BY <1>1, SumOfNone
<1>2. CASE S # {}
  BY <1>2, SumTakeOut
<1> QED
  BY <1>1, <1>2

\* Summands that agree have the same sum.
LEMMA SumSame ==
    ASSUME NEW S, IsFiniteSet(S), NEW f, NEW h, \A y \in S : f[y] = h[y]
    PROVE  SumFunctionOnSet(f, S) = SumFunctionOnSet(h, S)
<1> DEFINE bad == {T \in SUBSET S : SumFunctionOnSet(f, T) # SumFunctionOnSet(h, T)}
<1>1. SUFFICES ASSUME bad # {} PROVE FALSE
  OBVIOUS
<1>2. PICK T \in bad : \A U \in SUBSET T : U # T => U \notin bad
  <2>1. bad \in SUBSET SUBSET S
    OBVIOUS
  <2> HIDE DEF bad
  <2> QED
    BY <1>1, <2>1, SmallestSubset
<1>3. T # {} /\ IsFiniteSet(T)
  BY SumOfNone, FS_Subset
<1>4. /\ FirstOf(T) \in T /\ T \ {FirstOf(T)} \in SUBSET T
      /\ T \ {FirstOf(T)} # T
  BY <1>3, FirstIsIn
<1>5. SumFunctionOnSet(f, T \ {FirstOf(T)}) = SumFunctionOnSet(h, T \ {FirstOf(T)})
  BY <1>2, <1>4
<1>6. /\ SumFunctionOnSet(f, T)
           = f[FirstOf(T)] + SumFunctionOnSet(f, T \ {FirstOf(T)})
      /\ SumFunctionOnSet(h, T)
           = h[FirstOf(T)] + SumFunctionOnSet(h, T \ {FirstOf(T)})
  BY <1>3, SumRecursion
<1> QED
  BY <1>4, <1>5, <1>6

\* Zeros add up to zero.
LEMMA SumOfZeros ==
    ASSUME NEW S, IsFiniteSet(S), NEW f, \A y \in S : f[y] = 0
    PROVE  SumFunctionOnSet(f, S) = 0
<1> DEFINE bad == {T \in SUBSET S : SumFunctionOnSet(f, T) # 0}
<1>1. SUFFICES ASSUME bad # {} PROVE FALSE
  OBVIOUS
<1>2. PICK T \in bad : \A U \in SUBSET T : U # T => U \notin bad
  <2>1. bad \in SUBSET SUBSET S
    OBVIOUS
  <2> HIDE DEF bad
  <2> QED
    BY <1>1, <2>1, SmallestSubset
<1>3. T # {} /\ IsFiniteSet(T)
  BY SumOfNone, FS_Subset
<1>4. /\ FirstOf(T) \in T /\ T \ {FirstOf(T)} \in SUBSET T
      /\ T \ {FirstOf(T)} # T
  BY <1>3, FirstIsIn
<1>5. SumFunctionOnSet(f, T \ {FirstOf(T)}) = 0
  BY <1>2, <1>4
<1>6. SumFunctionOnSet(f, T) = f[FirstOf(T)] + SumFunctionOnSet(f, T \ {FirstOf(T)})
  BY <1>3, SumRecursion
<1> QED
  BY <1>4, <1>5, <1>6

\* A change of one summand changes the sum by as much.
LEMMA SumChange ==
    ASSUME NEW S, IsFiniteSet(S), NEW x \in S,
           NEW f, \A y \in S : f[y] \in Int, NEW h, h[x] \in Int,
           \A y \in S \ {x} : h[y] = f[y]
    PROVE  SumFunctionOnSet(h, S) = SumFunctionOnSet(f, S) - f[x] + h[x]
<1>1. \A y \in S : h[y] \in Int
  OBVIOUS
<1>2. IsFiniteSet(S \ {x})
  BY FS_RemoveElement
<1>3. SumFunctionOnSet(h, S \ {x}) = SumFunctionOnSet(f, S \ {x})
  BY <1>2, SumSame
<1>4. /\ SumFunctionOnSet(f, S) = f[x] + SumFunctionOnSet(f, S \ {x})
      /\ SumFunctionOnSet(f, S \ {x}) \in Int
  BY SumTakeOut
<1>5. SumFunctionOnSet(h, S) = h[x] + SumFunctionOnSet(h, S \ {x})
  BY <1>1, SumTakeOut
<1> QED
  BY <1>3, <1>4, <1>5

\* A set that gains an element gains its summand.
LEMMA SumWithOneMore ==
    ASSUME NEW S, IsFiniteSet(S), NEW x, x \notin S,
           NEW f, \A y \in S : f[y] \in Int, f[x] \in Int
    PROVE  SumFunctionOnSet(f, S \cup {x}) = SumFunctionOnSet(f, S) + f[x]
<1>1. IsFiniteSet(S \cup {x}) /\ (S \cup {x}) \ {x} = S
  BY FS_AddElement
<1>2. \A y \in S \cup {x} : f[y] \in Int
  OBVIOUS
<1>3. SumFunctionOnSet(f, S \cup {x}) = f[x] + SumFunctionOnSet(f, (S \cup {x}) \ {x})
  BY <1>1, <1>2, SumTakeOut
<1>4. SumFunctionOnSet(f, S \cup {x}) = f[x] + SumFunctionOnSet(f, S)
  BY <1>1, <1>3
<1>5. SumFunctionOnSet(f, S) \in Int
  BY SumType
<1> QED
  BY <1>4, <1>5

\* No summand is more than the sum of naturals it is part of.
LEMMA SumBoundsEach ==
    ASSUME NEW S, IsFiniteSet(S), NEW f, \A y \in S : f[y] \in Nat
    PROVE  /\ SumFunctionOnSet(f, S) \in Nat
           /\ \A x \in S : f[x] <= SumFunctionOnSet(f, S)
<1> DEFINE bad == {T \in SUBSET S : SumFunctionOnSet(f, T) \notin Nat}
<1>1. bad = {}
  <2>1. SUFFICES ASSUME bad # {} PROVE FALSE
    OBVIOUS
  <2>2. PICK T \in bad : \A U \in SUBSET T : U # T => U \notin bad
    <3>1. bad \in SUBSET SUBSET S
      OBVIOUS
    <3> HIDE DEF bad
    <3> QED
      BY <2>1, <3>1, SmallestSubset
  <2>3. SumFunctionOnSet(f, T) \notin Nat /\ IsFiniteSet(T)
    BY FS_Subset
  <2>4. T # {}
    <3>1. CASE T = {}
      <4>1. SumFunctionOnSet(f, T) = 0
        BY <3>1, SumOfNone
      <4> QED
        BY <2>3, <4>1
    <3> QED
      BY <3>1
  <2>5. /\ FirstOf(T) \in T /\ T \ {FirstOf(T)} \in SUBSET T
        /\ T \ {FirstOf(T)} # T
    BY <2>4, FirstIsIn
  <2>6. SumFunctionOnSet(f, T \ {FirstOf(T)}) \in Nat
    BY <2>2, <2>5
  <2>7. SumFunctionOnSet(f, T) = f[FirstOf(T)] + SumFunctionOnSet(f, T \ {FirstOf(T)})
    BY <2>3, <2>4, SumRecursion
  <2> QED
    BY <2>3, <2>5, <2>6, <2>7
<1>2. \A T \in SUBSET S : SumFunctionOnSet(f, T) \in Nat
  BY <1>1
<1>3. ASSUME NEW x \in S PROVE f[x] <= SumFunctionOnSet(f, S)
  <2>1. SumFunctionOnSet(f, S) = f[x] + SumFunctionOnSet(f, S \ {x})
    BY SumTakeOut
  <2> QED
    BY <1>2, <2>1
<1> QED
  BY <1>2, <1>3

=============================================================================
