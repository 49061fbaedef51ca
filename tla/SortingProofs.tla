---------------------------- MODULE SortingProofs ----------------------------
(***************************************************************************)
(* A finite set has a sorted enumeration in any strict order of its        *)
(* elements, and SortedBy is one.                                          *)
(***************************************************************************)
EXTENDS Sorting, Functions, FiniteSetsExt, FiniteSetTheorems, NaturalsInduction, WellFoundedInduction, TLAPS

\* before orders the elements of S, and none before itself.
StrictOrder(S, before) ==
  /\ \A x \in S : <<x, x>> \notin before
  /\ \A x, y \in S : x = y \/ <<x, y>> \in before \/ <<y, x>> \in before
  /\ \A x, y, z \in S : <<x, y>> \in before /\ <<y, z>> \in before => <<x, z>> \in before

Enumerates(s, n, S, before) ==
  /\ s \in [1..n -> S]
  /\ \A x \in S : \E a \in 1..n : s[a] = x
  /\ \A a, b \in 1..n : a < b => <<s[a], s[b]>> \in before

LEMMA LeastExists ==
  ASSUME NEW J \in SUBSET Nat, J # {}
  PROVE  \E k \in J : \A j \in J : k <= j
<1>1. PICK R : R = OpToRel(<, Nat)
  OBVIOUS
<1>2. \A i, j \in Nat : j < i => <<j, i>> \in R
  BY <1>1 DEF OpToRel
<1>3. \E k \in J : \A j \in J : <<j, k>> \notin R
  BY <1>1, NatLessThanWellFounded, WFMin, Zenon
<1>4. PICK k \in J : \A j \in J : <<j, k>> \notin R
  BY <1>3
<1>5. ASSUME NEW j \in J PROVE k <= j
  <2>1. ~(j < k)
    BY <1>2, <1>4, <1>5, Zenon
  <2> QED
    BY <1>4, <1>5, <2>1
<1> QED
  BY <1>4, <1>5

LEMMA EmptyIsSorted ==
  ASSUME NEW before
  PROVE  \E s : Enumerates(s, 0, {}, before)
<1>1. PICK s : s = [x \in 1..0 |-> x]
  OBVIOUS
<1>2. 1..0 = {}
  OBVIOUS
<1>3. s \in [1..0 -> {}]
  BY <1>1, <1>2
<1> QED
  BY <1>2, <1>3 DEF Enumerates

\* The last element goes to the end.
LEMMA LastIsSorted ==
  ASSUME NEW before, NEW S, NEW k \in S, \A j \in S \ {k} : <<j, k>> \in before,
         NEW n \in Nat, NEW t, Enumerates(t, n, S \ {k}, before)
  PROVE  \E s : Enumerates(s, n + 1, S, before)
<1>1. PICK s : s = [a \in 1..(n + 1) |-> IF a = n + 1 THEN k ELSE t[a]]
  OBVIOUS
<1>2. /\ t \in [1..n -> S \ {k}]
      /\ \A x \in S \ {k} : \E a \in 1..n : t[a] = x
      /\ \A a, b \in 1..n : a < b => <<t[a], t[b]>> \in before
  BY DEF Enumerates
<1>3. s[n + 1] = k /\ \A a \in 1..n : s[a] = t[a]
  BY <1>1
<1>4. \A a \in 1..(n + 1) : a = n + 1 \/ a \in 1..n
  OBVIOUS
<1>5. s \in [1..(n + 1) -> S]
  BY <1>1, <1>2, <1>4
<1>6. \A x \in S : \E a \in 1..(n + 1) : s[a] = x
  <2> SUFFICES ASSUME NEW x \in S PROVE \E a \in 1..(n + 1) : s[a] = x
    OBVIOUS
  <2>1. CASE x = k
    BY <1>3, <2>1
  <2>2. CASE x # k
    <3>1. PICK a \in 1..n : t[a] = x
      BY <1>2, <2>2
    <3> QED
      BY <1>3, <3>1
  <2> QED
    BY <2>1, <2>2
<1>7. ASSUME NEW a \in 1..(n + 1), NEW b \in 1..(n + 1), a < b
      PROVE  <<s[a], s[b]>> \in before
  <2>1. a \in 1..n
    BY <1>7
  <2>2. s[a] = t[a] /\ t[a] \in S \ {k}
    BY <1>2, <1>3, <2>1
  <2>3. CASE b = n + 1
    BY <1>3, <2>2, <2>3
  <2>4. CASE b \in 1..n
    BY <1>2, <1>3, <1>7, <2>1, <2>2, <2>4
  <2> QED
    BY <1>4, <1>7, <2>3, <2>4
<1> QED
  BY <1>5, <1>6, <1>7 DEF Enumerates

LEMMA OrderOfFewer ==
  ASSUME NEW before, NEW S, StrictOrder(S, before), NEW T \in SUBSET S
  PROVE  StrictOrder(T, before)
BY DEF StrictOrder

\* The smallest set to lack something has one element less than it lacks it for.
LEMMA LastExists ==
  ASSUME NEW before, NEW S, IsFiniteSet(S), StrictOrder(S, before), S # {}
  PROVE  \E k \in S : \A j \in S \ {k} : <<j, k>> \in before
<1>1. PICK Bad : Bad = {n \in Nat : \E T \in SUBSET S :
                          /\ IsFiniteSet(T) /\ Cardinality(T) = n /\ T # {}
                          /\ ~\E k \in T : \A j \in T \ {k} : <<j, k>> \in before}
  OBVIOUS
<1>2. Cardinality(S) \in Nat
  BY FS_CardinalityType
<1>3. SUFFICES ASSUME Bad # {} PROVE FALSE
  BY <1>1, <1>2
<1>4. PICK m \in Bad : \A n \in Bad : m <= n
  <2>1. Bad \in SUBSET Nat
    BY <1>1
  <2> QED
    BY <1>3, <2>1, LeastExists
<1>5. PICK T \in SUBSET S : /\ IsFiniteSet(T) /\ Cardinality(T) = m /\ T # {}
                            /\ ~\E k \in T : \A j \in T \ {k} : <<j, k>> \in before
  BY <1>1, <1>4
<1>6. PICK x : x \in T
  BY <1>5
<1>7. PICK U, n : U = T \ {x} /\ n = m - 1
  OBVIOUS
<1>8. IsFiniteSet(U) /\ Cardinality(U) = n /\ U \in SUBSET S
  BY <1>5, <1>6, <1>7, FS_RemoveElement
<1>9. n \in Nat /\ n < m
  <2>1. n \in Nat
    BY <1>8, FS_CardinalityType
  <2> QED
    BY <1>1, <1>4, <1>7, <2>1
<1>10. n \notin Bad
  BY <1>1, <1>4, <1>9
<1>11. U # {}
  BY <1>5, <1>6, <1>7
<1>12. PICK k \in U : \A j \in U \ {k} : <<j, k>> \in before
  BY <1>1, <1>8, <1>9, <1>10, <1>11
<1>13. x \in S /\ k \in S /\ x # k /\ k \in T
  BY <1>5, <1>6, <1>7, <1>8, <1>12
<1>14. CASE <<x, k>> \in before
  <2>1. \A j \in T \ {k} : <<j, k>> \in before
    BY <1>7, <1>12, <1>14
  <2> QED
    BY <1>5, <1>13, <2>1
<1>15. CASE <<k, x>> \in before
  <2>1. \A j \in T \ {x} : j = k \/ <<j, k>> \in before
    BY <1>7, <1>12
  <2>2. \A j \in T \ {x} : <<j, x>> \in before
    BY <1>5, <1>13, <1>15, <2>1 DEF StrictOrder
  <2> QED
    BY <1>5, <1>6, <2>2
<1> QED
  BY <1>13, <1>14, <1>15 DEF StrictOrder

LEMMA SortExists ==
  ASSUME NEW before, NEW S, IsFiniteSet(S), StrictOrder(S, before)
  PROVE  \E s : Enumerates(s, Cardinality(S), S, before)
<1>1. PICK Bad : Bad = {n \in Nat : \E T \in SUBSET S : /\ IsFiniteSet(T) /\ Cardinality(T) = n
                                                        /\ ~\E s : Enumerates(s, n, T, before)}
  OBVIOUS
<1>2. Cardinality(S) \in Nat
  BY FS_CardinalityType
<1>3. SUFFICES ASSUME Bad # {} PROVE FALSE
  BY <1>1, <1>2
<1>4. PICK m \in Bad : \A n \in Bad : m <= n
  <2>1. Bad \in SUBSET Nat
    BY <1>1
  <2> QED
    BY <1>3, <2>1, LeastExists
<1>5. PICK T \in SUBSET S : /\ IsFiniteSet(T) /\ Cardinality(T) = m
                            /\ ~\E s : Enumerates(s, m, T, before)
  BY <1>1, <1>4
<1>6. T # {}
  <2>1. ASSUME T = {} PROVE FALSE
    <3>1. m = 0
      BY <1>5, <2>1, FS_EmptySet
    <3> QED
      BY <1>5, <2>1, <3>1, EmptyIsSorted
  <2> QED
    BY <2>1
<1>7. PICK k \in T : \A j \in T \ {k} : <<j, k>> \in before
  <2>1. StrictOrder(T, before)
    BY <1>5, OrderOfFewer
  <2> QED
    BY <1>5, <1>6, <2>1, LastExists
<1>8. PICK n : n = m - 1
  OBVIOUS
<1>9. IsFiniteSet(T \ {k}) /\ Cardinality(T \ {k}) = n
  BY <1>5, <1>7, <1>8, FS_RemoveElement
<1>10. n \in Nat /\ m = n + 1 /\ n \notin Bad
  <2>1. n \in Nat
    BY <1>9, FS_CardinalityType
  <2>2. m \in Nat
    BY <1>1, <1>4
  <2> QED
    BY <1>4, <1>8, <2>1, <2>2
<1>11. PICK t : Enumerates(t, n, T \ {k}, before)
  <2>1. T \ {k} \in SUBSET S
    BY <1>5
  <2> QED
    BY <1>1, <1>9, <1>10, <2>1
<1>12. \E s : Enumerates(s, n + 1, T, before)
  BY <1>7, <1>10, <1>11, LastIsSorted
<1> QED
  BY <1>5, <1>10, <1>12

\* In a sorted enumeration k - 1 elements come before the k-th.
LEMMA Precede ==
  ASSUME NEW before, NEW S, StrictOrder(S, before), NEW n \in Nat, NEW s,
         Enumerates(s, n, S, before), NEW k \in 1..n
  PROVE  Cardinality({y \in S : <<y, s[k]>> \in before}) = k - 1
<1>1. /\ s \in [1..n -> S]
      /\ \A x \in S : \E a \in 1..n : s[a] = x
      /\ \A a, b \in 1..n : a < b => <<s[a], s[b]>> \in before
  BY DEF Enumerates
<1>2. \A a, b \in 1..n : <<s[a], s[b]>> \in before <=> a < b
  <2> SUFFICES ASSUME NEW a \in 1..n, NEW b \in 1..n, <<s[a], s[b]>> \in before
               PROVE  a < b
    BY <1>1
  <2>1. s[a] \in S /\ s[b] \in S
    BY <1>1
  <2>2. <<s[a], s[a]>> \notin before
    BY <2>1 DEF StrictOrder
  <2>3. ~(b < a)
    <3>1. ASSUME b < a PROVE FALSE
      <4>1. <<s[b], s[a]>> \in before
        BY <1>1, <3>1
      <4> QED
        BY <2>1, <2>2, <4>1 DEF StrictOrder
    <3> QED
      BY <3>1
  <2>4. a # b
    BY <2>2
  <2> QED
    BY <2>3, <2>4
<1>3. PICK Y : Y = {y \in S : <<y, s[k]>> \in before}
  OBVIOUS
<1>4. PICK t : t = [a \in 1..(k - 1) |-> s[a]]
  OBVIOUS
<1>5. 1..(k - 1) \subseteq 1..n /\ \A a \in 1..n : a \in 1..(k - 1) <=> a < k
  OBVIOUS
<1>6. t \in [1..(k - 1) -> Y]
  BY <1>1, <1>2, <1>3, <1>4, <1>5
<1>7. \A a, b \in 1..(k - 1) : t[a] = t[b] => a = b
  <2> SUFFICES ASSUME NEW a \in 1..(k - 1), NEW b \in 1..(k - 1), t[a] = t[b], a # b
               PROVE  FALSE
    OBVIOUS
  <2>1. a \in 1..n /\ b \in 1..n /\ s[a] = s[b]
    BY <1>4, <1>5
  <2>2. <<s[a], s[a]>> \notin before
    BY <1>1, <2>1 DEF StrictOrder
  <2>3. CASE a < b
    BY <1>2, <2>1, <2>2, <2>3
  <2>4. CASE b < a
    BY <1>2, <2>1, <2>2, <2>4
  <2> QED
    BY <2>3, <2>4
<1>8. \A y \in Y : \E a \in 1..(k - 1) : t[a] = y
  <2> SUFFICES ASSUME NEW y \in Y PROVE \E a \in 1..(k - 1) : t[a] = y
    OBVIOUS
  <2>1. PICK a \in 1..n : s[a] = y
    BY <1>1, <1>3
  <2>2. a < k
    BY <1>2, <1>3, <2>1
  <2> QED
    BY <1>4, <1>5, <2>1, <2>2
<1>9. t \in Injection(1..(k - 1), Y)
  BY <1>6, <1>7 DEF Injection, IsInjective
<1>10. t \in Surjection(1..(k - 1), Y)
  BY <1>6, <1>8 DEF Surjection
<1>11. ExistsBijection(1..(k - 1), Y)
  BY <1>9, <1>10 DEF Bijection, ExistsBijection
<1>12. IsFiniteSet(1..(k - 1)) /\ Cardinality(1..(k - 1)) = k - 1
  BY FS_Interval
<1> QED
  BY <1>3, <1>11, <1>12, FS_Bijection

\* Sorting a finite set by a strict order lists each of its elements once, in that order.
THEOREM SortedByEnumerates ==
  ASSUME NEW before, NEW S, IsFiniteSet(S), StrictOrder(S, before)
  PROVE  Enumerates(SortedBy(S, before), Cardinality(S), S, before)
<1>1. PICK n : n = Cardinality(S) /\ n \in Nat
  BY FS_CardinalityType
<1>2. PICK s : Enumerates(s, n, S, before)
  BY <1>1, SortExists
<1>3. s \in [1..n -> S] /\ \A x \in S : \E a \in 1..n : s[a] = x
  BY <1>2 DEF Enumerates
<1>4. PICK Before : Before = [x \in S |-> Cardinality({y \in S : <<y, x>> \in before})]
  OBVIOUS
<1>5. \A k \in 1..n : Before[s[k]] = k - 1
  <2> SUFFICES ASSUME NEW k \in 1..n PROVE Before[s[k]] = k - 1
    OBVIOUS
  <2>1. Cardinality({y \in S : <<y, s[k]>> \in before}) = k - 1
    BY <1>1, <1>2, Precede
  <2> QED
    BY <1>3, <1>4, <2>1
<1>6. \A k \in 1..n : (CHOOSE x \in S : Before[x] = k - 1) = s[k]
  <2> SUFFICES ASSUME NEW k \in 1..n PROVE (CHOOSE x \in S : Before[x] = k - 1) = s[k]
    OBVIOUS
  <2>1. ASSUME NEW x \in S, Before[x] = k - 1 PROVE x = s[k]
    <3>1. PICK a \in 1..n : s[a] = x
      BY <1>3
    <3>2. Before[s[a]] = a - 1
      BY <1>5
    <3>3. a = k
      BY <2>1, <3>1, <3>2
    <3> QED
      BY <3>1, <3>3
  <2>2. s[k] \in S /\ Before[s[k]] = k - 1
    BY <1>3, <1>5
  <2> QED
    BY <2>1, <2>2
<1>7. SortedBy(S, before) = [k \in 1..n |-> CHOOSE x \in S : Before[x] = k - 1]
  <2>1. SortedBy(S, before) =
          [k \in 1..n |-> CHOOSE x \in S : Cardinality({y \in S : <<y, x>> \in before}) = k - 1]
    BY <1>1, Zenon DEF SortedBy
  <2>2. ASSUME NEW k \in 1..n
        PROVE  (CHOOSE x \in S : Cardinality({y \in S : <<y, x>> \in before}) = k - 1)
                 = (CHOOSE x \in S : Before[x] = k - 1)
    <3>1. \A x \in S : Cardinality({y \in S : <<y, x>> \in before}) = Before[x]
      BY <1>4, Zenon
    <3> QED
      BY <3>1
  <2> QED
    BY <2>1, <2>2, Zenon
<1>8. SortedBy(S, before) = s
  BY <1>3, <1>6, <1>7
<1> QED
  BY <1>1, <1>2, <1>8

-----------------------------------------------------------------------------
(* Least and greatest, and images.                                         *)

\* A set of positions is never without a first and a last.
LEMMA FirstAndLastExist ==
  ASSUME NEW n \in Nat, NEW I \in SUBSET (1..n), I # {}
  PROVE  Max(I) \in I /\ Min(I) \in I
<1>1. PICK first \in I : \A i \in I : first <= i
  <2>1. I \in SUBSET Nat
    OBVIOUS
  <2> QED
    BY <2>1, LeastExists
<1>2. PICK last \in I : \A i \in I : last >= i
  <2>1. PICK J : J = {k \in Nat : \E i \in I : k = n - i}
    OBVIOUS
  <2>2. J \in SUBSET Nat /\ \A i \in I : n - i \in J
    BY <2>1
  <2>3. J # {}
    BY <2>2
  <2>4. PICK k \in J : \A j \in J : k <= j
    BY <2>2, <2>3, LeastExists
  <2>5. PICK last \in I : k = n - last
    BY <2>1, <2>4
  <2>6. ASSUME NEW i \in I PROVE last >= i
    <3>1. k <= n - i
      BY <2>2, <2>4, <2>6
    <3> QED
      BY <2>5, <2>6, <3>1
  <2> QED
    BY <2>5, <2>6
<1> QED
  BY <1>1, <1>2 DEF Max, Min

\* A finite set of integers has a greatest.
LEMMA GreatestExists ==
  ASSUME NEW T \in SUBSET Int, IsFiniteSet(T), T # {}
  PROVE  \E t \in T : \A u \in T : u <= t
<1>1. PICK before : before = {p \in T \X T : p[1] < p[2]}
  OBVIOUS
<1>2. \A x, y \in T : <<x, y>> \in before <=> x < y
  BY <1>1
<1>3. StrictOrder(T, before)
  BY <1>2 DEF StrictOrder
<1>4. PICK t \in T : \A u \in T \ {t} : <<u, t>> \in before
  <2>1. \A S : IsFiniteSet(S) /\ StrictOrder(S, before) /\ S # {} =>
                \E k \in S : \A j \in S \ {k} : <<j, k>> \in before
    BY LastExists, Zenon
  <2>2. IsFiniteSet(T) /\ StrictOrder(T, before) /\ T # {}
    BY <1>3
  <2> QED
    BY <2>1, <2>2
<1>5. ASSUME NEW u \in T PROVE u <= t
  <2>1. u = t \/ u < t
    BY <1>2, <1>4, <1>5
  <2>2. u \in Int /\ t \in Int
    OBVIOUS
  <2> QED
    BY <2>1, <2>2
<1> QED
  BY <1>5

\* The values of a function on a finite set.
LEMMA RangesAreFinite ==
  ASSUME NEW S, IsFiniteSet(S), NEW f, DOMAIN f = S, f = [x \in S |-> f[x]]
  PROVE  IsFiniteSet({f[x] : x \in S})
<1>1. PICK T : T = {f[x] : x \in S}
  OBVIOUS
<1>2. f \in Surjection(S, T)
  BY <1>1 DEF Surjection
<1> QED
  BY <1>1, <1>2, FS_Surjection
=============================================================================
