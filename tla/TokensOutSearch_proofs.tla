------------------------ MODULE TokensOutSearch_proofs ------------------------
(***************************************************************************)
(* The search of tokens_out is correct on every curve, for every supply    *)
(* and for every amount of quote, and so are the SDK's and the page's      *)
(* floating-point copies of it, as far as doubles allow: in sections on    *)
(* the search, powers of two and the spacing of doubles, rounding, rounded *)
(* sums, the curve, and the loops of the clients.                          *)
(***************************************************************************)
EXTENDS SdkMath, Arithmetic_proofs

(* What the search knows at every step, and what it returns.               *)
SearchInv == TypeOK /\ Bracketed /\ SearchCorrect

(* The cost of more tokens is not lower, and zero tokens cost nothing.     *)
LEMMA CostMonotone ==
  ASSUME NEW k \in Nat, NEW t \in Nat, NEW u \in Nat, t <= u
  PROVE  /\ Cost(k, t) \in Nat
         /\ Cost(k, t) + (u - t) <= Cost(k, u)
         /\ Cost(k, 0) = 0
<1>1. /\ ReserveIntegral(k) \in Nat /\ ReserveIntegral(k + 0) \in Nat
      /\ ReserveIntegral(k) + ((k + t) - k) <= ReserveIntegral(k + t)
  BY ReserveGrows
<1>2. /\ ReserveIntegral(k + t) \in Nat
      /\ ReserveIntegral(k + t) + ((k + u) - (k + t)) <= ReserveIntegral(k + u)
      /\ ReserveIntegral(k + u) \in Nat
  BY ReserveGrows
<1>3. k + 0 = k
  OBVIOUS
<1> QED
  BY <1>1, <1>2, <1>3 DEF Cost

(* The middle of a bracket that is not empty lies in it.                   *)
LEMMA MidInBracket == ASSUME TypeOK, lo <= hi
                      PROVE  /\ mid \in 0 .. available
                             /\ lo <= mid /\ mid <= hi
<1>1. available \in Nat
  BY CurveAssumption DEF TypeOK, available, Supplies
<1>2. \A n \in Nat : n \div 2 \in Nat /\ n \div 2 <= n
  OBVIOUS
<1>3. hi - lo \in Nat /\ lo \in Nat /\ hi \in Nat
  BY <1>1 DEF TypeOK
<1>4. (hi - lo) \div 2 \in Nat /\ (hi - lo) \div 2 <= hi - lo
  BY <1>2, <1>3
<1> QED
  BY <1>1, <1>3, <1>4 DEF mid, TypeOK

(* The search starts inside its invariant.                                 *)
LEMMA SearchInit == Init => SearchInv
BY SolsAssumption, CurveAssumption
   DEF Init, SearchInv, TypeOK, Bracketed, SearchCorrect, available, Supplies

(* Each way through the loop keeps the bracket, and each exit returns the  *)
(* amount just below it.                                                   *)
LEMMA SearchStep == SearchInv /\ [Next]_vars => SearchInv'
<1> SUFFICES ASSUME SearchInv, [Next]_vars
             PROVE  SearchInv'
  OBVIOUS
<1>t. /\ sol \in Nat /\ supply \in Nat /\ supply <= TOTAL_SUPPLY_PER_SIDE
      /\ available \in Nat /\ lo \in Nat /\ hi \in Nat /\ best \in Nat
      /\ TOTAL_SUPPLY_PER_SIDE \in Nat
      /\ lo <= available /\ hi <= available /\ best <= available
  BY SolsAssumption, CurveAssumption
     DEF SearchInv, TypeOK, available, Supplies
<1>c. \A t, u \in Nat : t <= u => /\ Cost(supply, t) \in Nat
                                  /\ Cost(supply, t) + (u - t)
                                       <= Cost(supply, u)
  BY <1>t, CostMonotone
<1>z. Cost(supply, 0) = 0
  BY <1>t, CostMonotone
<1>m. lo <= hi => mid \in 0 .. available /\ lo <= mid /\ mid <= hi
  BY MidInBracket DEF SearchInv
<1>1. CASE ReturnZero
  <2>1. IsTokensOut(sol, supply, 0)
    <3>1. \A u \in 1 .. available : Cost(supply, u) > sol
      <4>1. CASE available = 0
        BY <4>1
      <4>2. CASE sol = 0
        <5>1. \A u \in 1 .. available : /\ Cost(supply, u) \in Nat
                                        /\ Cost(supply, 0) + (u - 0)
                                             <= Cost(supply, u)
          BY <1>c, <1>t
        <5> QED
          BY <4>2, <5>1, <1>z
      <4> QED
        BY <1>1, <4>1, <4>2 DEF ReturnZero
    <3> QED
      BY <1>t, <1>z, <3>1 DEF IsTokensOut, available
  <2> QED
    BY <1>1, <2>1 DEF ReturnZero, SearchInv, TypeOK, Bracketed, SearchCorrect,
                      available, IsTokensOut, Cost
<1>2. CASE StartSearch
  <2>1. \A t \in available + 1 .. available : Cost(supply, t) > sol
    BY <1>t
  <2> QED
    BY <1>2, <1>t, <1>z, <2>1
       DEF StartSearch, SearchInv, TypeOK, Bracketed, SearchCorrect, available,
           Cost
<1>3. CASE MoveUp
  <2>1. /\ Cost(supply, mid) <= sol
        /\ mid \in 0 .. available /\ lo <= mid /\ mid <= hi
    BY <1>3, <1>m DEF MoveUp, Affordable
  <2>2. mid = hi => IsTokensOut(sol, supply, mid)
    BY <1>3, <1>t, <2>1
       DEF MoveUp, SearchInv, Bracketed, IsTokensOut, available
  <2>3. /\ sol' = sol /\ supply' = supply /\ hi' = hi /\ best' = mid
        /\ pc' = IF mid = hi THEN "done" ELSE "loop"
        /\ lo' = IF mid = hi THEN lo ELSE mid + 1
        /\ available' = available
    BY <1>3 DEF MoveUp, available
  <2>4. \A t \in hi + 1 .. available : Cost(supply, t) > sol
    BY <1>3 DEF MoveUp, SearchInv, Bracketed
  <2>5. TypeOK'
    BY <1>t, <2>1, <2>3 DEF SearchInv, TypeOK
  <2>6. Bracketed'
    BY <1>t, <2>1, <2>3, <2>4 DEF Bracketed, Cost
  <2>7. SearchCorrect'
    BY <2>2, <2>3 DEF SearchCorrect, IsTokensOut, Cost
  <2> QED
    BY <2>5, <2>6, <2>7 DEF SearchInv
<1>4. CASE MoveDown
  <2>1. /\ Cost(supply, mid) > sol
        /\ mid \in 0 .. available /\ lo <= mid /\ mid <= hi
    <3>1. Cost(supply, mid) \in Nat
      BY <1>4, <1>m, <1>c DEF MoveDown
    <3> QED
      BY <1>4, <1>m, <1>t, <3>1 DEF MoveDown, Affordable
  <2>2. mid # 0
    BY <1>t, <1>z, <2>1
  <2>3. \A t \in (mid - 1) + 1 .. available : Cost(supply, t) > sol
    <3> TAKE t \in (mid - 1) + 1 .. available
    <3>1. t \in Nat /\ mid \in Nat /\ mid <= t
      BY <1>t, <2>1
    <3>2. /\ Cost(supply, mid) \in Nat /\ Cost(supply, t) \in Nat
          /\ Cost(supply, mid) + (t - mid) <= Cost(supply, t)
      BY <1>c, <3>1
    <3> QED
      BY <1>t, <2>1, <3>1, <3>2
  <2>4. /\ sol' = sol /\ supply' = supply /\ lo' = lo /\ best' = best
        /\ pc' = "loop" /\ hi' = mid - 1 /\ available' = available
    BY <1>4, <2>2 DEF MoveDown, available
  <2>5. TypeOK'
    BY <1>t, <2>1, <2>2, <2>4 DEF SearchInv, TypeOK
  <2>6. Bracketed'
    BY <1>t, <1>4, <2>1, <2>2, <2>3, <2>4
       DEF MoveDown, SearchInv, Bracketed, Cost
  <2> QED
    BY <2>4, <2>5, <2>6 DEF SearchInv, SearchCorrect
<1>5. CASE BracketEmpty
  <2>1. IsTokensOut(sol, supply, best)
    <3>1. best = hi
      BY <1>5, <1>t DEF BracketEmpty, SearchInv, Bracketed
    <3> QED
      BY <1>5, <1>t, <3>1
         DEF BracketEmpty, SearchInv, Bracketed, IsTokensOut, available
  <2> QED
    BY <1>5, <2>1 DEF BracketEmpty, SearchInv, TypeOK, Bracketed,
                      SearchCorrect, available, IsTokensOut, Cost
<1>6. CASE UNCHANGED vars
  BY <1>6 DEF vars, SearchInv, TypeOK, Bracketed, SearchCorrect, available,
              IsTokensOut, Cost
<1> QED
  BY <1>1, <1>2, <1>3, <1>4, <1>5, <1>6 DEF Next

(* The indices of the search stay in range: the unsigned hi never wraps    *)
(* below zero and lo never passes the supply that is left.                 *)
THEOREM TypeCorrect == Spec => []TypeOK
<1>1. SearchInv => TypeOK
  BY DEF SearchInv
<1> QED
  BY <1>1, SearchInit, SearchStep, PTL DEF Spec

(* The bracket always holds the answer.                                    *)
THEOREM BracketKept == Spec => []Bracketed
<1>1. SearchInv => Bracketed
  BY DEF SearchInv
<1> QED
  BY <1>1, SearchInit, SearchStep, PTL DEF Spec

(* tokens_out returns the most tokens the amount pays for.                 *)
THEOREM SearchReturnsTokensOut == Spec => []SearchCorrect
<1>1. SearchInv => SearchCorrect
  BY DEF SearchInv
<1> QED
  BY <1>1, SearchInit, SearchStep, PTL DEF Spec

(* A buy followed by the sale of what it bought never pays (SPEC.md goal   *)
(* 3), for every curve, supply and amount.                                 *)
THEOREM RoundTripNeverPays == Spec => []NoFreeRoundTrip
<1>1. SearchInv => NoFreeRoundTrip
  <2> SUFFICES ASSUME SearchInv, pc = "done"
               PROVE  SolOut(best, supply + best) <= sol
    BY DEF NoFreeRoundTrip
  <2>1. /\ sol \in Nat /\ supply \in Supplies
        /\ IsTokensOut(sol, supply, best)
    BY SolsAssumption DEF SearchInv, TypeOK, SearchCorrect
  <2>2. best \in Nat
    BY <2>1 DEF IsTokensOut
  <2> QED
    BY <2>1, <2>2, RoundTrip
<1> QED
  BY <1>1, SearchInit, SearchStep, PTL DEF Spec

-----------------------------------------------------------------------------
(* Powers of two, and the distance between neighbouring doubles.           *)

(* A set of natural numbers that is not empty has a least member.          *)
LEMMA LeastNatural ==
  ASSUME NEW T \in SUBSET Nat, T # {}
  PROVE  \E m \in T : \A k \in T : m <= k
<1>1. PICK n \in T : TRUE
  OBVIOUS
<1> DEFINE U == 0 .. n
           S == {0 .. k : k \in {j \in T : j <= n}}
<1>2. IsFiniteSet(U)
  BY FS_Interval
<1>3. S \in SUBSET SUBSET U
  OBVIOUS
<1>4. S # {}
  OBVIOUS
<1>5. PICK x \in S : \A y \in S : y \subseteq x => y = x
  <2> HIDE DEF S, U
  <2> QED
    BY <1>2, <1>3, <1>4, MinimalSubset
<1>6. PICK m \in T : m <= n /\ x = 0 .. m
  OBVIOUS
<1>7. ASSUME NEW k \in T, k < m PROVE FALSE
  <2>1. 0 .. k \in S
    BY <1>6, <1>7
  <2>2. 0 .. k \subseteq x
    BY <1>6, <1>7
  <2>3. 0 .. k = 0 .. m
    BY <1>5, <1>6, <2>1, <2>2
  <2>4. m \in 0 .. m /\ m \notin 0 .. k
    BY <1>7
  <2> QED
    BY <2>3, <2>4
<1> QED
  BY <1>6, <1>7

(* The equation that defines powers of two has a solution: the number of   *)
(* subsets of 1 .. n.                                                      *)
LEMMA TwoEquation ==
  Two = [n \in Nat |-> IF n = 0 THEN 1 ELSE 2 * Two[n - 1]]
<1> DEFINE G(f) == [n \in Nat |-> IF n = 0 THEN 1 ELSE 2 * f[n - 1]]
           count == [n \in Nat |-> Cardinality(SUBSET (1 .. n))]
<1>1. ASSUME NEW n \in Nat \ {0}
      PROVE  count[n] = 2 * count[n - 1]
  <2> DEFINE A == SUBSET (1 .. n - 1)
             C == {s \cup {n} : s \in A}
  <2>1. IsFiniteSet(1 .. n - 1)
    BY FS_Interval
  <2>2. IsFiniteSet(A)
    BY <2>1, FS_SUBSET
  <2>3. ExistsBijection(A, C)
    <3> DEFINE f == [s \in A |-> s \cup {n}]
    <3>1. f \in [A -> C]
      OBVIOUS
    <3>2. \A s \in A : f[s] \ {n} = s
      OBVIOUS
    <3>3. f \in Injection(A, C)
      <4> SUFFICES ASSUME NEW s \in A, NEW t \in A, f[s] = f[t]
                   PROVE  s = t
        BY <3>1 DEF Injection, IsInjective
      <4> HIDE DEF f
      <4> QED
        BY <3>2
    <3>4. \A c \in C : \E s \in A : f[s] = c
      OBVIOUS
    <3>5. f \in Surjection(A, C)
      <4> HIDE DEF A, C, f
      <4> QED
        BY <3>1, <3>4 DEF Surjection
    <3> HIDE DEF A, C, f
    <3> QED
      BY <3>3, <3>5 DEF ExistsBijection, Bijection
  <2>4. SUBSET (1 .. n) = A \cup C
    <3>1. ASSUME NEW s \in SUBSET (1 .. n), n \notin s
          PROVE  s \in A
      BY <3>1
    <3>2. ASSUME NEW s \in SUBSET (1 .. n), n \in s
          PROVE  s \in C
      <4>1. s \ {n} \in A
        OBVIOUS
      <4>2. s = (s \ {n}) \cup {n}
        BY <3>2
      <4> QED
        BY <4>1, <4>2
    <3>3. A \subseteq SUBSET (1 .. n)
      OBVIOUS
    <3>4. C \subseteq SUBSET (1 .. n)
      <4>1. ASSUME NEW s \in A PROVE s \cup {n} \subseteq 1 .. n
        OBVIOUS
      <4> QED
        BY <4>1
    <3> HIDE DEF A, C
    <3> QED
      BY <3>1, <3>2, <3>3, <3>4
  <2>5. A \cap C = {}
    OBVIOUS
  <2>6. IsFiniteSet(C) /\ Cardinality(C) = Cardinality(A)
    <3> HIDE DEF A, C
    <3> QED
      BY <2>2, <2>3, FS_Bijection
  <2>7. Cardinality(A \cup C)
          = Cardinality(A) + Cardinality(C) - Cardinality(A \cap C)
    <3> HIDE DEF A, C
    <3> QED
      BY <2>2, <2>6, FS_Union
  <2>8. Cardinality(A) \in Nat /\ Cardinality(A \cap C) = 0
    <3> HIDE DEF A, C
    <3> QED
      BY <2>2, <2>5, FS_CardinalityType, FS_EmptySet
  <2>9. count[n] = Cardinality(A \cup C) /\ count[n - 1] = Cardinality(A)
    <3>1. n \in Nat /\ n - 1 \in Nat
      OBVIOUS
    <3>2. count[n] = Cardinality(SUBSET (1 .. n))
      BY <3>1, Zenon
    <3>3. count[n - 1] = Cardinality(A)
      BY <3>1, Zenon
    <3> QED
      BY <2>4, <3>2, <3>3, Zenon
  <2> HIDE DEF A, C, count
  <2> QED
    BY <2>6, <2>7, <2>8, <2>9
<1>2. count[0] = 1
  <2>1. 1 .. 0 = {}
    OBVIOUS
  <2>2. SUBSET {} = {{}}
    OBVIOUS
  <2> QED
    BY <2>1, <2>2, FS_Singleton
<1>3. count = G(count)
  <2>1. \A n \in Nat : count[n] = G(count)[n]
    BY <1>1, <1>2
  <2> QED
    BY <2>1
<1> HIDE DEF count
<1> QED
  BY <1>3 DEF Two

(* So they obey it.                                                        *)
LEMMA TwoStep == /\ Two[0] = 1
                 /\ \A n \in Nat : Two[n + 1] = 2 * Two[n]
BY TwoEquation

(* They are natural numbers that outgrow their exponents.                  *)
LEMMA TwoPositive == \A n \in Nat : Two[n] \in Nat /\ n < Two[n]
<1> DEFINE B == {n \in Nat : ~(Two[n] \in Nat /\ n < Two[n])}
<1> SUFFICES ASSUME B # {} PROVE FALSE
  OBVIOUS
<1>1. PICK m \in B : \A k \in B : m <= k
  BY LeastNatural
<1>2. m # 0
  BY TwoStep
<1>3. m - 1 \in Nat /\ m - 1 \notin B
  BY <1>1, <1>2
<1>4. Two[m] = 2 * Two[m - 1]
  BY <1>3, TwoStep
<1> QED
  BY <1>3, <1>4

(* Of two powers the smaller divides the greater.                          *)
LEMMA TwoDivides ==
  ASSUME NEW i \in Nat, NEW d \in Nat
  PROVE  \E k \in Nat \ {0} : Two[i + d] = k * Two[i]
<1> DEFINE B == {n \in Nat : ~\E k \in Nat \ {0} : Two[i + n] = k * Two[i]}
<1> SUFFICES ASSUME B # {} PROVE FALSE
  OBVIOUS
<1>1. PICK m \in B : \A k \in B : m <= k
  BY LeastNatural
<1>2. m # 0
  <2>1. Two[i + 0] = 1 * Two[i]
    BY TwoPositive
  <2> QED
    BY <2>1
<1>3. m - 1 \in Nat /\ m - 1 \notin B
  BY <1>1, <1>2
<1>4. PICK k \in Nat \ {0} : Two[i + (m - 1)] = k * Two[i]
  BY <1>3
<1>5. Two[(i + (m - 1)) + 1] = 2 * Two[i + (m - 1)]
  BY <1>3, TwoStep
<1>6. (i + (m - 1)) + 1 = i + m
  BY <1>3
<1>7. 2 * (k * Two[i]) = (2 * k) * Two[i] /\ 2 * k \in Nat \ {0}
  BY TwoPositive
<1> QED
  BY <1>4, <1>5, <1>6, <1>7

(* Of two different ones the greater is an even multiple of the smaller.   *)
LEMMA TwoAbove ==
  ASSUME NEW i \in Nat, NEW j \in Nat, i < j
  PROVE  \E k \in Nat \ {0} : Two[j] = (2 * k) * Two[i]
<1>1. j - (i + 1) \in Nat /\ i + 1 \in Nat
  OBVIOUS
<1>2. PICK k \in Nat \ {0} : Two[(i + 1) + (j - (i + 1))] = k * Two[i + 1]
  BY <1>1, TwoDivides
<1>3. (i + 1) + (j - (i + 1)) = j /\ Two[i + 1] = 2 * Two[i]
  BY TwoStep
<1>4. k * (2 * Two[i]) = (2 * k) * Two[i]
  BY TwoPositive
<1> QED
  BY <1>2, <1>3, <1>4

(* A mantissa holds more than one digit: the largest is even.              *)
Limit == Two[MANTISSA]

LEMMA LimitEven == \E p \in Nat \ {0, 1} : Limit = 2 * p
<1>1. MANTISSA - 1 \in Nat /\ 1 <= MANTISSA - 1
  BY SdkAssumption
<1>2. Two[(MANTISSA - 1) + 1] = 2 * Two[MANTISSA - 1]
  BY <1>1, TwoStep
<1>3. (MANTISSA - 1) + 1 = MANTISSA
  BY SdkAssumption
<1>4. Two[MANTISSA - 1] \in Nat /\ 1 < Two[MANTISSA - 1]
  BY <1>1, TwoPositive
<1> QED
  BY <1>2, <1>3, <1>4 DEF Limit

(* Being the spacing of the doubles around m.                              *)
Spacing(m, g) == /\ g \in {Two[x] : x \in Nat}
                 /\ m < Limit * g
                 /\ g = 1 \/ Limit * g <= 2 * m

(* There is one spacing ...                                                *)
LEMMA SpacingUnique ==
  ASSUME NEW m \in Nat, NEW g, NEW f, Spacing(m, g), Spacing(m, f)
  PROVE  g = f
<1>0. Limit \in Nat \ {0, 1}
  BY LimitEven
<1>1. ASSUME NEW i \in Nat, NEW j \in Nat, i < j,
             Spacing(m, Two[i]), Spacing(m, Two[j])
      PROVE  FALSE
  <2>1. PICK k \in Nat \ {0} : Two[j] = (2 * k) * Two[i]
    BY <1>1, TwoAbove
  <2>2. Two[i] \in Nat \ {0}
    BY TwoPositive
  <2>3. Two[j] # 1
    BY <2>1, <2>2
  <2>4. Limit * Two[j] <= 2 * m /\ m < Limit * Two[i]
    BY <1>1, <2>3 DEF Spacing
  <2>5. Limit * ((2 * k) * Two[i]) = (2 * k) * (Limit * Two[i])
    BY <1>0, <2>2
  <2>6. Limit * Two[i] \in Nat
    BY <1>0, <2>2
  <2>7. 2 * (Limit * Two[i]) <= (2 * k) * (Limit * Two[i])
    BY <2>6
  <2> QED
    BY <2>1, <2>4, <2>5, <2>6, <2>7
<1>2. PICK i \in Nat, j \in Nat : g = Two[i] /\ f = Two[j]
  BY DEF Spacing
<1> QED
  BY <1>1, <1>2

(* ... for every number.                                                   *)
LEMMA SpacingExists ==
  ASSUME NEW m \in Nat
  PROVE  \E g : Spacing(m, g)
<1>0. Limit \in Nat \ {0, 1}
  BY LimitEven
<1> DEFINE T == {x \in Nat : m < Limit * Two[x]}
<1>1. m \in T
  <2>1. Two[m] \in Nat /\ m < Two[m]
    BY TwoPositive
  <2>2. Two[m] <= Limit * Two[m]
    BY <1>0, <2>1
  <2> QED
    BY <1>0, <2>1, <2>2
<1>2. PICK x \in T : \A y \in T : x <= y
  BY <1>1, LeastNatural
<1>3. CASE x = 0
  BY <1>2, <1>3, TwoStep DEF Spacing
<1>4. CASE x # 0
  <2>1. x - 1 \in Nat /\ x - 1 \notin T
    BY <1>2, <1>4
  <2>2. Two[(x - 1) + 1] = 2 * Two[x - 1] /\ Two[x - 1] \in Nat
    BY <2>1, TwoStep, TwoPositive
  <2>3. Limit * Two[x - 1] \in Nat
    BY <1>0, <2>2
  <2>4. Limit * Two[x - 1] <= m
    BY <1>0, <2>1, <2>3
  <2>5. Limit * (2 * Two[x - 1]) = 2 * (Limit * Two[x - 1]) /\ (x - 1) + 1 = x
    BY <1>0, <2>2
  <2>6. Limit * Two[x] <= 2 * m
    BY <2>2, <2>3, <2>4, <2>5
  <2> QED
    BY <1>2, <2>6 DEF Spacing
<1> QED
  BY <1>3, <1>4

(* Halving finds it.                                                       *)
LEMMA GridSpacing == \A m \in Nat : Spacing(m, Grid[m])
<1> DEFINE s == [m \in Nat |-> CHOOSE g : Spacing(m, g)]
           G(f) == [m \in Nat |->
                      IF m < Two[MANTISSA] THEN 1 ELSE 2 * f[m \div 2]]
<1>0. Limit \in Nat \ {0, 1}
  BY LimitEven
<1>1. \A m \in Nat : Spacing(m, s[m])
  BY SpacingExists
<1>d. \A m \in Nat : m \div 2 \in Nat /\ 2 * (m \div 2) <= m
                     /\ m < 2 * (m \div 2) + 2
  OBVIOUS
<1> HIDE DEF s
<1>2. ASSUME NEW m \in Nat, m < Limit
      PROVE  Spacing(m, 1)
  BY <1>0, <1>2, TwoStep DEF Spacing
<1>3. ASSUME NEW m \in Nat, ~(m < Limit), NEW g, Spacing(m \div 2, g)
      PROVE  Spacing(m, 2 * g)
  <2>1. PICK x \in Nat : g = Two[x]
    BY <1>3 DEF Spacing
  <2>2. 2 * g = Two[x + 1] /\ g \in Nat \ {0}
    BY <2>1, TwoStep, TwoPositive
  <2>3. m \div 2 < Limit * g /\ (g = 1 \/ Limit * g <= 2 * (m \div 2))
    BY <1>3 DEF Spacing
  <2>4. Limit * (2 * g) = 2 * (Limit * g) /\ Limit * g \in Nat
    BY <1>0, <2>2
  <2>5. m < Limit * (2 * g)
    BY <1>d, <2>3, <2>4
  <2>6. Limit * (2 * g) <= 2 * m
    <3>1. CASE g = 1
      BY <1>0, <1>3, <3>1
    <3>2. CASE Limit * g <= 2 * (m \div 2)
      BY <1>d, <2>4, <3>2
    <3> QED
      BY <2>3, <3>1, <3>2
  <2>7. 2 * g \in {Two[y] : y \in Nat}
    BY <2>2
  <2> QED
    BY <2>5, <2>6, <2>7 DEF Spacing
<1>4. s = G(s)
  <2>1. ASSUME NEW m \in Nat
        PROVE  s[m] = IF m < Two[MANTISSA] THEN 1 ELSE 2 * s[m \div 2]
    <3>1. CASE m < Limit
      BY <1>1, <1>2, <3>1, SpacingUnique DEF Limit
    <3>2. CASE ~(m < Limit)
      <4>1. Spacing(m \div 2, s[m \div 2])
        BY <1>1, <1>d
      <4>2. Spacing(m, 2 * s[m \div 2])
        BY <1>3, <3>2, <4>1
      <4>3. s[m] = 2 * s[m \div 2]
        BY <1>1, <4>2, SpacingUnique
      <4> QED
        BY <3>2, <4>3 DEF Limit
    <3> QED
      BY <3>1, <3>2
  <2>2. s = [m \in Nat |-> s[m]]
    BY DEF s
  <2> HIDE DEF G
  <2>3. G(s) = [m \in Nat |-> s[m]]
    BY <2>1 DEF G
  <2> QED
    BY <2>2, <2>3
<1>5. Grid = G(Grid)
  BY <1>4 DEF Grid
<1> DEFINE B == {m \in Nat : ~Spacing(m, Grid[m])}
<1> SUFFICES ASSUME B # {} PROVE FALSE
  OBVIOUS
<1>6. PICK m \in B : \A k \in B : m <= k
  BY LeastNatural
<1>7. CASE m < Limit
  BY <1>2, <1>5, <1>6, <1>7 DEF Limit
<1>8. CASE ~(m < Limit)
  <2>1. m \div 2 < m
    BY <1>0, <1>8, <1>d
  <2>2. Spacing(m \div 2, Grid[m \div 2])
    BY <1>6, <1>d, <2>1
  <2>3. Grid[m] = 2 * Grid[m \div 2]
    BY <1>5, <1>8 DEF Limit
  <2> QED
    BY <1>3, <1>6, <1>8, <2>2, <2>3
<1> QED
  BY <1>7, <1>8

-----------------------------------------------------------------------------
(* What rounding to a double does.                                         *)

(* The spacing is a power of two, so it is positive.                       *)
LEMMA GridPower == ASSUME NEW m \in Nat
                   PROVE  \E x \in Nat : Grid[m] = Two[x]
BY GridSpacing DEF Spacing

LEMMA SpacingPositive ==
  ASSUME NEW n \in Nat, NEW d \in Nat \ {0}
  PROVE  Grid[n \div d] \in Nat \ {0}
<1>1. n \div d \in Nat
  BY DivNat
<1> QED
  BY <1>1, GridPower, TwoPositive

(* What rounding does: n / d lies between q and q + 1 times the spacing g. *)
Rounding(n, d, g, q, r) ==
  /\ n = (d * g) * q + r
  /\ r < d * g
  /\ q < Limit
  /\ g = 1 \/ Limit * (d * g) <= 2 * n
  /\ Float(n, d) = g * (IF d * g < 2 * r \/ (d * g = 2 * r /\ q % 2 = 1)
                        THEN q + 1 ELSE q)

(* A float is the rounding of its quotient to a multiple of the spacing.   *)
LEMMA FloatRounds ==
  ASSUME NEW n \in Nat, NEW d \in Nat \ {0}
  PROVE  \E q, r \in Nat : Rounding(n, d, Grid[n \div d], q, r)
<1> DEFINE m == n \div d
           g == Grid[m]
           w == d * g
           q == n \div w
           r == n % w
<1>0. Limit \in Nat \ {0, 1}
  BY LimitEven
<1>d. m \in Nat /\ n = d * m + (n % d) /\ n % d \in 0 .. d - 1
  BY DivMod
<1>1. m \in Nat /\ d * m <= n /\ n < d * m + d
  <2> DEFINE s == n % d
  <2>1. n = d * m + s /\ s \in 0 .. d - 1 /\ m \in Nat
    BY <1>d
  <2> HIDE DEF s, m
  <2> QED
    BY <2>1
<1>2. g \in Nat \ {0}
  BY <1>1, GridPower, TwoPositive
<1>3. m < Limit * g /\ (g = 1 \/ Limit * g <= 2 * m)
  BY <1>1, GridSpacing DEF Spacing
<1> HIDE DEF m, g
<1>4. w \in Nat \ {0}
  BY <1>2
<1>5. q \in Nat /\ r \in 0 .. w - 1 /\ n = w * q + r
  BY <1>4, DivMod
<1>6. Float(n, d) = g * (IF w < 2 * r \/ (w = 2 * r /\ q % 2 = 1)
                         THEN q + 1 ELSE q)
  BY DEF Float, Nearest, m, g
<1>7. n < Limit * w
  <2>1. d * (m + 1) <= d * (Limit * g)
    <3>1. m + 1 <= Limit * g /\ Limit * g \in Nat
      BY <1>0, <1>1, <1>2, <1>3
    <3> QED
      BY <1>1, <3>1, TimesMonotone
  <2>2. d * (Limit * g) = Limit * w /\ d * (m + 1) = d * m + d /\ d * m \in Nat
    BY <1>0, <1>1, <1>2
  <2>3. Limit * w \in Nat
    BY <1>0, <1>4
  <2> QED
    BY <1>1, <2>1, <2>2, <2>3
<1>8. g = 1 \/ Limit * w <= 2 * n
  <2>1. ASSUME Limit * g <= 2 * m PROVE Limit * w <= 2 * n
    <3>1. d * (Limit * g) <= d * (2 * m)
      BY <1>0, <1>1, <1>2, <2>1, TimesMonotone
    <3>2. d * (Limit * g) = Limit * w /\ d * (2 * m) = 2 * (d * m)
          /\ d * m \in Nat
      BY <1>0, <1>1, <1>2
    <3>3. Limit * w \in Nat
      BY <1>0, <1>4
    <3>4. d * m <= n
      BY <1>1
    <3> HIDE DEF w
    <3> QED
      BY <3>1, <3>2, <3>3, <3>4
  <2> QED
    BY <1>3, <2>1
<1> HIDE DEF w, q, r
<1>9. q < Limit
  <2> SUFFICES ASSUME Limit <= q PROVE FALSE
    BY <1>0, <1>5
  <2>1. w * Limit <= w * q
    BY <1>0, <1>4, <1>5, TimesMonotone
  <2>2. w * Limit = Limit * w /\ Limit * w \in Nat /\ w * q \in Nat
    BY <1>0, <1>4, <1>5
  <2> QED
    BY <1>4, <1>5, <1>7, <2>1, <2>2
<1>10. Rounding(n, d, g, q, r)
  BY <1>4, <1>5, <1>6, <1>8, <1>9 DEF Rounding, w
<1>11. Rounding(n, d, Grid[n \div d], q, r)
  BY <1>10 DEF g, m
<1> QED
  BY <1>5, <1>11, <1>4

(* A multiple of the spacing is its own float.                             *)
LEMMA FloatOfMultiple ==
  ASSUME NEW n \in Nat, NEW d \in Nat \ {0}, NEW j \in Nat,
         n = (d * Grid[n \div d]) * j
  PROVE  Float(n, d) = Grid[n \div d] * j
<1> DEFINE g == Grid[n \div d]
<1>1. PICK q \in Nat, r \in Nat : Rounding(n, d, g, q, r)
  BY FloatRounds
<1>2. g \in Nat \ {0}
  BY SpacingPositive
<1> HIDE DEF g
<1> DEFINE w == d * g
<1>3. w \in Nat \ {0}
  BY <1>2
<1>4. n = w * j /\ n = w * q + r /\ r < w
  BY <1>1 DEF Rounding, g
<1>5. Float(n, d) = g * (IF w < 2 * r \/ (w = 2 * r /\ q % 2 = 1)
                         THEN q + 1 ELSE q)
  BY <1>1 DEF Rounding
<1> HIDE DEF w
<1>6. q = j /\ r = 0
  <2>1. ASSUME q < j PROVE FALSE
    <3>1. w * (q + 1) <= w * j
      BY <1>3, <2>1, TimesMonotone
    <3>2. w * (q + 1) = w * q + w
      BY <1>3
    <3> QED
      BY <1>3, <1>4, <3>1, <3>2
  <2>2. ASSUME j < q PROVE FALSE
    <3>1. w * (j + 1) <= w * q
      BY <1>3, <2>2, TimesMonotone
    <3>2. w * (j + 1) = w * j + w /\ w * j \in Nat
      BY <1>3
    <3> QED
      BY <1>3, <1>4, <3>1, <3>2
  <2>3. q = j
    BY <2>1, <2>2
  <2> QED
    BY <1>3, <1>4, <2>3
<1>7. ~(w < 2 * r) /\ ~(w = 2 * r)
  BY <1>3, <1>6
<1> QED
  BY <1>5, <1>6, <1>7 DEF g

(* The float is a natural number of units, half a spacing away at most.    *)
LEMMA FloatNear ==
  ASSUME NEW n \in Nat, NEW d \in Nat \ {0}
  PROVE  \E g \in Nat \ {0} :
           /\ Float(n, d) \in Nat
           /\ 2 * n <= 2 * (d * Float(n, d)) + d * g
           /\ 2 * (d * Float(n, d)) <= 2 * n + d * g
           /\ g = 1 \/ Limit * (d * g) <= 2 * n
           /\ d = 1 /\ g = 1 => Float(n, d) = n
<1> DEFINE g == Grid[n \div d]
<1>1. PICK q \in Nat, r \in Nat : Rounding(n, d, g, q, r)
  BY FloatRounds
<1>2. g \in Nat \ {0}
  BY SpacingPositive
<1> HIDE DEF g
<1> DEFINE w == d * g
<1>3. w \in Nat \ {0}
  BY <1>2
<1>4. n = w * q + r /\ r < w /\ (g = 1 \/ Limit * w <= 2 * n)
  BY <1>1 DEF Rounding
<1>5. Float(n, d) = g * (IF w < 2 * r \/ (w = 2 * r /\ q % 2 = 1)
                         THEN q + 1 ELSE q)
  BY <1>1 DEF Rounding
<1>6. d * (g * q) = w * q /\ d * (g * (q + 1)) = w * q + w
      /\ g * q \in Nat /\ g * (q + 1) \in Nat /\ w * q \in Nat
  BY <1>2
<1>7. d = 1 /\ g = 1 => w = 1 /\ Float(n, d) = n
  <2> HAVE d = 1 /\ g = 1
  <2>1. w = 1 /\ r = 0
    BY <1>4
  <2>2. Float(n, d) = g * q
    BY <1>5, <2>1
  <2> QED
    BY <1>4, <2>1, <2>2
<1> HIDE DEF w
<1>8. CASE w < 2 * r \/ (w = 2 * r /\ q % 2 = 1)
  <2>1. Float(n, d) = g * (q + 1)
    BY <1>5, <1>8
  <2>2. w <= 2 * r
    BY <1>3, <1>8
  <2>3. /\ Float(n, d) \in Nat
        /\ d * Float(n, d) = w * q + w
    BY <1>6, <2>1
  <2>4. /\ 2 * n <= 2 * (d * Float(n, d)) + w
        /\ 2 * (d * Float(n, d)) <= 2 * n + w
    BY <1>3, <1>4, <1>6, <2>2, <2>3
  <2> QED
    BY <1>2, <1>4, <1>7, <2>3, <2>4 DEF w
<1>9. CASE ~(w < 2 * r \/ (w = 2 * r /\ q % 2 = 1))
  <2>1. Float(n, d) = g * q
    BY <1>5, <1>9
  <2>2. 2 * r <= w
    BY <1>3, <1>9
  <2>3. /\ Float(n, d) \in Nat
        /\ d * Float(n, d) = w * q
    BY <1>6, <2>1
  <2>4. /\ 2 * n <= 2 * (d * Float(n, d)) + w
        /\ 2 * (d * Float(n, d)) <= 2 * n + w
    BY <1>3, <1>4, <1>6, <2>2, <2>3
  <2> QED
    BY <1>2, <1>4, <1>7, <2>3, <2>4 DEF w
<1> QED
  BY <1>8, <1>9

(* A float is one of the two multiples of the spacing around n / d.        *)
LEMMA FloatBetween ==
  ASSUME NEW n \in Nat, NEW d \in Nat \ {0}, NEW g \in Nat \ {0},
         NEW q \in Nat, NEW r \in Nat, Rounding(n, d, g, q, r)
  PROVE  /\ Float(n, d) \in Nat
         /\ g * q <= Float(n, d) /\ Float(n, d) <= g * (q + 1)
<1>1. Float(n, d) = g * q \/ Float(n, d) = g * (q + 1)
  BY DEF Rounding
<1>2. g * q \in Nat /\ g * (q + 1) \in Nat /\ g * q <= g * (q + 1)
  OBVIOUS
<1> QED
  BY <1>1, <1>2

(* Of two quotients by the same divisor the greater has the greater float. *)
LEMMA FloatMonotone ==
  ASSUME NEW n \in Nat, NEW m \in Nat, NEW d \in Nat \ {0}, n <= m
  PROVE  Float(n, d) <= Float(m, d)
<1> DEFINE g == Grid[n \div d]
           f == Grid[m \div d]
<1>0. PICK p \in Nat \ {0, 1} : Limit = 2 * p
  BY LimitEven
<1>1. PICK q \in Nat, r \in Nat : Rounding(n, d, g, q, r)
  BY FloatRounds
<1>2. PICK s \in Nat, t \in Nat : Rounding(m, d, f, s, t)
  BY FloatRounds
<1>3. g \in Nat \ {0} /\ f \in Nat \ {0}
  BY SpacingPositive
<1>4. PICK i \in Nat, j \in Nat : g = Two[i] /\ f = Two[j]
  BY DivNat, GridPower
<1> HIDE DEF g, f
<1> DEFINE w == d * g
           v == d * f
<1>5. w \in Nat \ {0} /\ v \in Nat \ {0}
  BY <1>3
<1>6. /\ n = w * q + r /\ r < w /\ q < Limit
      /\ g = 1 \/ Limit * w <= 2 * n
      /\ m = v * s + t /\ t < v /\ s < Limit
      /\ f = 1 \/ Limit * v <= 2 * m
  BY <1>1, <1>2 DEF Rounding
<1>7. /\ Float(n, d) \in Nat
      /\ g * q <= Float(n, d) /\ Float(n, d) <= g * (q + 1)
      /\ Float(m, d) \in Nat
      /\ f * s <= Float(m, d) /\ Float(m, d) <= f * (s + 1)
  BY <1>1, <1>2, <1>3, FloatBetween
<1>8. CASE i = j
  <2>1. f = g /\ v = w
    BY <1>4, <1>8
  <2>2. ASSUME s < q PROVE FALSE
    <3>1. w * (s + 1) <= w * q
      BY <1>5, <2>2, TimesMonotone
    <3>2. w * (s + 1) = w * s + w /\ w * s \in Nat /\ w * q \in Nat
      BY <1>5
    <3> HIDE DEF w, v
    <3> QED
      BY <1>5, <1>6, <2>1, <3>1, <3>2
  <2>3. ASSUME q < s PROVE Float(n, d) <= Float(m, d)
    <3>1. g * (q + 1) <= g * s
      BY <1>3, <2>3, TimesMonotone
    <3>2. g * (q + 1) \in Nat /\ g * s \in Nat
      BY <1>3
    <3> QED
      BY <1>7, <2>1, <3>1, <3>2
  <2>4. ASSUME q = s PROVE Float(n, d) <= Float(m, d)
    <3>1. r <= t
      <4>1. w * q \in Nat
        BY <1>5
      <4> HIDE DEF w, v
      <4> QED
        BY <1>6, <2>1, <2>4, <4>1
    <3>2. /\ Float(n, d) = g * (IF w < 2 * r \/ (w = 2 * r /\ q % 2 = 1)
                                THEN q + 1 ELSE q)
          /\ Float(m, d) = g * (IF w < 2 * t \/ (w = 2 * t /\ q % 2 = 1)
                                THEN q + 1 ELSE q)
      BY <1>1, <1>2, <2>1, <2>4 DEF Rounding
    <3>3. w < 2 * r \/ (w = 2 * r /\ q % 2 = 1)
            => w < 2 * t \/ (w = 2 * t /\ q % 2 = 1)
      <4> HIDE DEF w
      <4> QED
        BY <1>5, <3>1
    <3>4. g * q \in Nat /\ g * (q + 1) \in Nat /\ g * q <= g * (q + 1)
      BY <1>3
    <3> HIDE DEF w
    <3> QED
      BY <3>2, <3>3, <3>4
  <2> QED
    BY <2>2, <2>3, <2>4
<1>9. CASE i < j
  <2>1. PICK k \in Nat \ {0} : f = (2 * k) * g
    BY <1>4, <1>9, TwoAbove
  <2>2. f # 1
    BY <1>3, <2>1
  <2>3. p <= s
    <3> SUFFICES ASSUME s + 1 <= p PROVE FALSE
      BY <1>0
    <3>1. v * (s + 1) <= v * p
      BY <1>0, <1>5, TimesMonotone
    <3>2. Limit * v = 2 * (v * p) /\ v * (s + 1) = v * s + v
          /\ v * s \in Nat /\ v * p \in Nat
      BY <1>0, <1>5
    <3> HIDE DEF w, v
    <3> QED
      BY <1>5, <1>6, <2>2, <3>1, <3>2
  <2>4. g * (q + 1) <= g * Limit
    BY <1>0, <1>3, <1>6, TimesMonotone
  <2>5. f * p <= f * s
    BY <1>0, <1>3, <2>3, TimesMonotone
  <2>6. f * p = k * (g * Limit) /\ g * Limit \in Nat
    BY <1>0, <1>3, <2>1
  <2>7. g * Limit <= k * (g * Limit) /\ k * (g * Limit) \in Nat
    BY <2>6
  <2>8. g * (q + 1) \in Nat /\ f * s \in Nat
    BY <1>3
  <2> QED
    BY <1>7, <2>4, <2>5, <2>6, <2>7, <2>8
<1>10. CASE j < i
  <2>1. PICK k \in Nat \ {0} : g = (2 * k) * f
    BY <1>4, <1>10, TwoAbove
  <2>2. g # 1
    BY <1>3, <2>1
  <2>3. v * (s + 1) <= v * Limit
    BY <1>0, <1>5, <1>6, TimesMonotone
  <2>4. v * (s + 1) = v * s + v /\ v * s \in Nat /\ v * Limit \in Nat
    BY <1>0, <1>5
  <2>5. Limit * w = (2 * k) * (v * Limit)
    BY <1>0, <1>3, <2>1
  <2>6. 2 * (v * Limit) <= (2 * k) * (v * Limit)
    BY <2>4
  <2>7. Limit * w \in Nat
    BY <1>0, <1>5
  <2> HIDE DEF w, v
  <2>8. m < v * Limit
    BY <1>5, <1>6, <2>3, <2>4
  <2>9. Limit * w <= 2 * n
    BY <1>6, <2>2
  <2> QED
    BY <2>4, <2>5, <2>6, <2>7, <2>8, <2>9
<1> QED
  BY <1>8, <1>9, <1>10

(* The number 1 is some units, and a mantissa has two digits at least.     *)
LEMMA OnePositive == One \in Nat \ {0} /\ Limit \in Nat /\ Limit >= 4
<1>1. PICK p \in Nat \ {0, 1} : Limit = 2 * p
  BY LimitEven
<1>2. One \in Nat \ {0}
  BY SdkAssumption, TwoPositive DEF One
<1> QED
  BY <1>1, <1>2

(* Integers that fit the mantissa are doubles: a quotient that is one is   *)
(* exact.                                                                  *)
LEMMA QuotientExact ==
  ASSUME NEW c \in Nat, c <= Limit, NEW d \in Nat \ {0}
  PROVE  Float((c * One) * d, d) = c * One
<1> DEFINE n == c * One
           g == Grid[n]
<1>0. PICK p \in Nat \ {0, 1} : Limit = 2 * p
  BY LimitEven
<1>1. FRACTION \in Nat /\ One = Two[FRACTION] /\ One \in Nat \ {0}
  BY SdkAssumption, TwoPositive DEF One
<1>2. n \in Nat
  BY <1>1
<1>3. PICK i \in Nat : g = Two[i]
  BY <1>2, GridPower
<1>4. g = 1 \/ Limit * g <= 2 * n
  BY <1>2, GridSpacing DEF Spacing
<1>5. g \in Nat \ {0}
  BY <1>3, TwoPositive
<1>6. \E j \in Nat : n = g * j
  <2> HIDE DEF g
  <2>1. CASE i = FRACTION
    BY <1>1, <1>3, <2>1
  <2>2. CASE i < FRACTION
    <3>1. PICK k \in Nat \ {0} : One = (2 * k) * g
      BY <1>1, <1>3, <2>2, TwoAbove
    <3>2. n = g * (c * (2 * k)) /\ c * (2 * k) \in Nat
      BY <1>5, <3>1
    <3> HIDE DEF n
    <3> QED
      BY <3>2
  <2>3. CASE FRACTION < i
    <3>1. PICK k \in Nat \ {0} : g = (2 * k) * One
      BY <1>1, <1>3, <2>3, TwoAbove
    <3>2. g # 1
      BY <1>1, <3>1
    <3>3. Limit * g = (2 * k) * (Limit * One) /\ Limit * One \in Nat
      BY <1>0, <1>1, <3>1
    <3>4. c * One <= Limit * One
      BY <1>0, <1>1, TimesMonotone
    <3>5. (2 * k) * (Limit * One) <= 2 * (Limit * One)
      BY <1>2, <1>4, <3>2, <3>3, <3>4
    <3>6. Limit * One > 0
      BY <1>0, <1>1
    <3>7. k = 1
      <4> SUFFICES ASSUME k >= 2 PROVE FALSE
        OBVIOUS
      <4>1. 4 * (Limit * One) <= (2 * k) * (Limit * One)
        BY <3>3
      <4> QED
        BY <3>3, <3>5, <3>6, <4>1
    <3>8. Limit * One <= c * One
      BY <1>2, <1>4, <3>2, <3>3, <3>7
    <3>9. c * One = Limit * One
      BY <1>2, <3>3, <3>4, <3>8
    <3>10. g * p = Limit * One
      BY <1>0, <1>1, <3>1, <3>7
    <3> QED
      BY <1>0, <1>5, <3>9, <3>10
  <2> QED
    BY <1>1, <2>1, <2>2, <2>3
<1>7. PICK j \in Nat : n = g * j
  BY <1>6
<1>8. (n * d) \div d = n /\ n * d \in Nat
  BY <1>2, TimesDiv
<1>9. n * d = (d * g) * j
  BY <1>5, <1>7
<1> HIDE DEF n
<1>10. n * d = (d * Grid[(n * d) \div d]) * j
  BY <1>8, <1>9
<1>11. Float(n * d, d) = Grid[(n * d) \div d] * j
  BY <1>8, <1>10, FloatOfMultiple
<1>12. Float(n * d, d) = n
  BY <1>7, <1>8, <1>11
<1> QED
  BY <1>12 DEF n

(* An integer that fits the mantissa is its own float.                     *)
LEMMA IntegersExact ==
  ASSUME NEW c \in Nat, c <= Limit
  PROVE  c * One \in Nat /\ Float(c * One, 1) = c * One
<1>1. c * One \in Nat
  BY OnePositive
<1>2. (c * One) * 1 = c * One
  BY <1>1
<1>3. Float((c * One) * 1, 1) = c * One
  BY QuotientExact
<1> QED
  BY <1>1, <1>2, <1>3

-----------------------------------------------------------------------------
(* Math.floor of a rounded sum of a rounded quotient and an integer.       *)

(* Floats are natural numbers of units.                                    *)
LEMMA FloatNat == ASSUME NEW n \in Nat, NEW d \in Nat \ {0}
                  PROVE  Float(n, d) \in Nat
BY FloatNear

(* An integral number of units rounded to a double.                        *)
LEMMA RoundedUnits ==
  ASSUME NEW n \in Nat
  PROVE  \E g \in Nat \ {0} :
           /\ Float(n, 1) \in Nat
           /\ 2 * n <= 2 * Float(n, 1) + g
           /\ 2 * Float(n, 1) <= 2 * n + g
           /\ g = 1 \/ Limit * g <= 2 * n
           /\ g = 1 => Float(n, 1) = n
<1> DEFINE F == Float(n, 1)
<1>1. PICK g \in Nat \ {0} :
             /\ F \in Nat
             /\ 2 * n <= 2 * (1 * F) + 1 * g
             /\ 2 * (1 * F) <= 2 * n + 1 * g
             /\ g = 1 \/ Limit * (1 * g) <= 2 * n
             /\ g = 1 => F = n
  BY FloatNear
<1>2. 1 * F = F /\ 1 * g = g
  BY <1>1
<1> QED
  BY <1>1, <1>2

(* What an integer part is.                                                *)
LEMMA FloorIs ==
  ASSUME NEW x \in Nat, NEW f \in Nat, f * One <= x, x < (f + 1) * One
  PROVE  Floor(x) = f
<1> DEFINE q == x \div One
           r == x % One
<1>1. q \in Nat /\ r \in 0 .. One - 1 /\ x = One * q + r
  BY OnePositive, DivMod
<1> HIDE DEF q, r
<1>2. ASSUME q < f PROVE FALSE
  <2>1. One * (q + 1) <= One * f
    BY <1>1, <1>2, OnePositive, TimesMonotone
  <2>2. One * (q + 1) = One * q + One /\ One * f = f * One /\ One * q \in Nat
        /\ f * One \in Nat
    BY <1>1, OnePositive
  <2> QED
    BY <1>1, <2>1, <2>2, OnePositive
<1>3. ASSUME f < q PROVE FALSE
  <2>1. One * (f + 1) <= One * q
    BY <1>1, <1>3, OnePositive, TimesMonotone
  <2>2. One * (f + 1) = (f + 1) * One /\ One * q \in Nat
        /\ (f + 1) * One \in Nat
    BY <1>1, OnePositive
  <2> QED
    BY <1>1, <2>1, <2>2, OnePositive
<1>4. q = f
  BY <1>1, <1>2, <1>3
<1> QED
  BY <1>4 DEF Floor, q

(* What a sum is made of.                                                 *)
LEMMA OverTyped == ASSUME NEW a \in Nat, NEW d \in Nat \ {0}
                   PROVE  /\ a * One \in Nat
                          /\ Float(a * One, 1) \in Nat
                          /\ Over(a, d) \in Nat
BY OnePositive, TimesNat, FloatNat DEF Over

(* Rounding twice or three times keeps the order, however coarsely.         *)
LEMMA FloorOfSumMonotone ==
  ASSUME NEW a \in Nat, NEW e \in Nat, NEW d \in Nat \ {0},
         NEW c \in Nat, NEW f \in Nat, a <= e, c <= f
  PROVE  /\ FloorOfSum(a, d, c) \in Nat
         /\ FloorOfSum(a, d, c) <= FloorOfSum(e, d, f)
<1>1. /\ a * One \in Nat /\ e * One \in Nat /\ a * One <= e * One
      /\ c * One \in Nat /\ f * One \in Nat /\ c * One <= f * One
  BY OnePositive, TimesMonotone, TimesNat
<1>2. Float(a * One, 1) <= Float(e * One, 1)
  BY <1>1, FloatMonotone
<1>3. Over(a, d) <= Over(e, d)
  BY <1>2, OverTyped, FloatMonotone DEF Over
<1>4. /\ Over(a, d) + c * One \in Nat /\ Over(e, d) + f * One \in Nat
      /\ Over(a, d) + c * One <= Over(e, d) + f * One
  BY <1>1, <1>3, OverTyped
<1>5. Float(Over(a, d) + c * One, 1) <= Float(Over(e, d) + f * One, 1)
  BY <1>4, FloatMonotone
<1>6. /\ Float(Over(a, d) + c * One, 1) \in Nat
      /\ Float(Over(e, d) + f * One, 1) \in Nat
  BY <1>4, FloatNat
<1> QED
  BY <1>5, <1>6, OnePositive, DivMonotone, DivNat DEF FloorOfSum, Floor

(* As long as there is a digit to spare, three roundings cannot carry the  *)
(* sum over an integer.                                                    *)
LEMMA FloorOfSumExact ==
  ASSUME NEW a \in Nat, NEW d \in Nat \ {0}, NEW c \in Nat,
         Limit * d <= One, 2 * (a + d * c) < Limit
  PROVE  FloorOfSum(a, d, c) = a \div d + c
<1> DEFINE X == a + d * c
           F == a \div d + c
           y == Over(a, d)
           n == y + c * One
           z == Float(n, 1)
<1>1. /\ One \in Nat \ {0} /\ Limit \in Nat /\ Limit >= 4
  BY OnePositive
<1>2. X \in Nat /\ a <= X /\ 2 * X + 1 <= Limit /\ d * c \in Nat
  BY <1>1
<1>3. Float(a * One, 1) = a * One /\ a * One \in Nat
  BY <1>1, <1>2, IntegersExact
<1>4. y = Float(a * One, d) /\ y \in Nat
  BY <1>3, OverTyped DEF Over
<1>5. PICK g \in Nat \ {0} :
             /\ 2 * (d * y) <= 2 * (a * One) + d * g
             /\ g = 1 \/ Limit * (d * g) <= 2 * (a * One)
  BY <1>3, <1>4, FloatNear
<1> HIDE DEF y
<1>n. n \in Nat /\ c * One \in Nat
  BY <1>1, <1>4
<1>7. PICK h \in Nat \ {0} :
             /\ z \in Nat
             /\ 2 * z <= 2 * n + h
             /\ h = 1 \/ Limit * h <= 2 * n
  <2> HIDE DEF n
  <2> QED
    BY <1>n, RoundedUnits
<1>6. n \in Nat /\ z \in Nat /\ c * One \in Nat
  BY <1>n, <1>7
<1> HIDE DEF z
<1>8. d < One
  <2>1. 4 * d <= Limit * d
    BY <1>1, TimesMonotone
  <2> QED
    BY <1>1, <2>1
<1>9. d * g < One
  <2>1. CASE g = 1
    BY <1>8, <2>1
  <2>2. CASE Limit * (d * g) <= 2 * (a * One)
    <3> SUFFICES ASSUME One <= d * g PROVE FALSE
      BY <1>1
    <3>1. Limit * One <= Limit * (d * g)
      BY <1>1, TimesMonotone
    <3>2. (2 * a + 1) * One <= Limit * One
      BY <1>1, <1>2, TimesMonotone
    <3>3. (2 * a + 1) * One = 2 * (a * One) + One /\ Limit * One \in Nat
          /\ Limit * (d * g) \in Nat
      BY <1>1, <1>3
    <3> QED
      BY <1>1, <1>3, <2>2, <3>1, <3>2, <3>3
  <2> QED
    BY <1>5, <2>1, <2>2
<1>10. d * n = d * y + d * (c * One) /\ d * y \in Nat /\ d * (c * One) \in Nat
  BY <1>4, <1>6
<1>11. X * One = a * One + d * (c * One) /\ X * One \in Nat
  BY <1>1, <1>2
<1>12. 2 * (d * n) <= 2 * (X * One) + d * g
  BY <1>3, <1>5, <1>10, <1>11
<1>13. 2 * (d * n) < Limit * One
  <2>1. (2 * X + 1) * One <= Limit * One
    BY <1>1, <1>2, TimesMonotone
  <2>2. (2 * X + 1) * One = 2 * (X * One) + One /\ Limit * One \in Nat
    BY <1>1, <1>2
  <2> HIDE DEF X, n
  <2>3. d * n \in Nat /\ d * g \in Nat
    BY <1>6
  <2> QED
    BY <1>1, <1>9, <1>11, <1>12, <2>1, <2>2, <2>3
<1>14. d * h < One
  <2>1. CASE h = 1
    BY <1>8, <2>1
  <2>2. CASE Limit * h <= 2 * n
    <3> SUFFICES ASSUME One <= d * h PROVE FALSE
      BY <1>1
    <3>1. Limit * One <= Limit * (d * h)
      BY <1>1, TimesMonotone
    <3>2. d * (Limit * h) <= d * (2 * n)
      BY <1>1, <1>6, <2>2, TimesMonotone
    <3> HIDE DEF n
    <3>3. d * (Limit * h) = Limit * (d * h) /\ d * (2 * n) = 2 * (d * n)
      BY <1>1, <1>6
    <3>4. Limit * One \in Nat /\ Limit * (d * h) \in Nat /\ d * n \in Nat
      BY <1>1, <1>6
    <3> QED
      BY <1>13, <3>1, <3>2, <3>3, <3>4
  <2> QED
    BY <1>7, <2>1, <2>2
<1>15. F \in Nat /\ d * F <= X /\ X + 1 <= d * (F + 1)
  <2> DEFINE q == a \div d
             r == a % d
  <2>1. q \in Nat /\ r \in 0 .. d - 1 /\ a = d * q + r
    BY DivMod
  <2> HIDE DEF q, r
  <2>2. d * (q + c) = d * q + d * c /\ d * ((q + c) + 1) = d * q + d * c + d
        /\ d * q \in Nat
    BY <2>1
  <2>3. q + c \in Nat /\ d * (q + c) <= X /\ X + 1 <= d * ((q + c) + 1)
    BY <1>2, <2>1, <2>2
  <2> QED
    BY <2>3 DEF q
<1>16. z < (F + 1) * One
  <2> SUFFICES ASSUME (F + 1) * One <= z PROVE FALSE
    BY <1>1, <1>6, <1>15
  <2> HIDE DEF X, F, n
  <2>1. d * ((F + 1) * One) <= d * z
    BY <1>1, <1>6, <1>15, TimesMonotone, TimesNat
  <2>2. (X + 1) * One <= (d * (F + 1)) * One
    BY <1>1, <1>2, <1>15, TimesMonotone, TimesNat
  <2>3. d * (2 * z) <= d * (2 * n + h)
    BY <1>6, <1>7, TimesMonotone
  <2>4. /\ (X + 1) * One = X * One + One
        /\ (d * (F + 1)) * One = d * ((F + 1) * One)
        /\ d * (2 * z) = 2 * (d * z)
        /\ d * (2 * n + h) = 2 * (d * n) + d * h
        /\ d * z \in Nat /\ d * n \in Nat /\ d * h \in Nat /\ d * g \in Nat
        /\ d * ((F + 1) * One) \in Nat
    BY <1>1, <1>2, <1>6, <1>15
  <2> QED
    BY <1>1, <1>9, <1>11, <1>12, <1>14, <2>1, <2>2, <2>3, <2>4
<1>17. F * One <= z
  <2> DEFINE q == a \div d
  <2>1. q \in Nat /\ d * q <= a
    <3> DEFINE r == a % d
    <3>1. q \in Nat /\ r \in 0 .. d - 1 /\ a = d * q + r
      BY DivMod
    <3> HIDE DEF q, r
    <3> QED
      BY <3>1
  <2>2. F = q + c
    OBVIOUS
  <2> HIDE DEF q
  <2>3. q <= d * q /\ d * q \in Nat
    BY <2>1
  <2>4. F <= Limit /\ q <= Limit
    <3>1. F <= X
      <4>1. c <= d * c
        OBVIOUS
      <4> QED
        BY <1>2, <2>1, <2>2, <2>3, <4>1
    <3> QED
      BY <1>2, <2>1, <2>2, <3>1, <1>1
  <2>5. Float((q * One) * d, d) = q * One
    BY <2>1, <2>4, QuotientExact
  <2>6. (q * One) * d = (d * q) * One /\ (d * q) * One <= a * One
        /\ (q * One) * d \in Nat
    BY <1>1, <2>1, <2>3, TimesMonotone
  <2>7. q * One <= y
    BY <1>3, <1>4, <2>5, <2>6, FloatMonotone
  <2>8. F * One = q * One + c * One /\ q * One \in Nat /\ F \in Nat
    BY <1>1, <2>1, <2>2
  <2>9. F * One <= n /\ F * One \in Nat
    BY <1>4, <1>6, <2>7, <2>8
  <2>10. Float(F * One, 1) = F * One
    BY <2>4, <2>8, IntegersExact
  <2> HIDE DEF F, n
  <2> QED
    BY <1>6, <2>9, <2>10, FloatMonotone DEF z
<1>18. Floor(z) = F
  <2> HIDE DEF F
  <2> QED
    BY <1>6, <1>15, <1>16, <1>17, FloorIs
<1> QED
  BY <1>18 DEF FloorOfSum, z, y

(* From twice the bounds to the bounds.                                    *)
LEMMA HalfOf ==
  ASSUME NEW p \in Nat, NEW q \in Nat, NEW s \in Nat, NEW n \in Nat,
         2 * p <= 2 * q + s, s <= 2 * n
  PROVE  p <= q + n
OBVIOUS

(* The error of one rounding, relative to the number rounded.              *)
LEMMA RoundedRelative ==
  ASSUME NEW n \in Nat
  PROVE  /\ Float(n, 1) \in Nat
         /\ Limit * Float(n, 1) <= Limit * n + n
         /\ Limit * n <= Limit * Float(n, 1) + n
<1> DEFINE F == Float(n, 1)
<1>1. PICK g \in Nat \ {0} :
             /\ F \in Nat
             /\ 2 * n <= 2 * F + g
             /\ 2 * F <= 2 * n + g
             /\ g = 1 \/ Limit * g <= 2 * n
             /\ g = 1 => F = n
  BY RoundedUnits
<1> HIDE DEF F
<1>2. Limit \in Nat /\ Limit * F \in Nat /\ Limit * n \in Nat
  BY <1>1, OnePositive
<1>3. CASE g = 1
  <2>1. Limit * F = Limit * n
    BY <1>1, <1>3
  <2> QED
    BY <1>1, <1>2, <2>1 DEF F
<1>4. CASE g # 1
  <2>1. /\ Limit * (2 * n) <= Limit * (2 * F + g)
        /\ Limit * (2 * F) <= Limit * (2 * n + g)
    BY <1>1, <1>2, TimesMonotone
  <2>2. /\ Limit * (2 * n) = 2 * (Limit * n)
        /\ Limit * (2 * F) = 2 * (Limit * F)
        /\ Limit * (2 * F + g) = 2 * (Limit * F) + Limit * g
        /\ Limit * (2 * n + g) = 2 * (Limit * n) + Limit * g
        /\ Limit * g \in Nat
    BY <1>1, <1>2
  <2>3. Limit * g <= 2 * n
    BY <1>1, <1>4
  <2>4. Limit * F <= Limit * n + n
    BY <1>2, <2>1, <2>2, <2>3, HalfOf
  <2>5. Limit * n <= Limit * F + n
    BY <1>2, <2>1, <2>2, <2>3, HalfOf
  <2> QED
    BY <1>1, <2>4, <2>5 DEF F
<1> QED
  BY <1>3, <1>4

(* The same of a quotient that does not underflow.                         *)
LEMMA QuotientRelative ==
  ASSUME NEW n \in Nat, NEW d \in Nat \ {0}, n = 0 \/ Limit * d <= n
  PROVE  /\ Float(n, d) \in Nat
         /\ Limit * (d * Float(n, d)) <= Limit * n + n
         /\ Limit * n <= Limit * (d * Float(n, d)) + n
<1> DEFINE F == Float(n, d)
<1>1. PICK g \in Nat \ {0} :
             /\ F \in Nat
             /\ 2 * n <= 2 * (d * F) + d * g
             /\ 2 * (d * F) <= 2 * n + d * g
             /\ g = 1 \/ Limit * (d * g) <= 2 * n
  BY FloatNear
<1>2. Limit \in Nat /\ Limit * d \in Nat
  BY OnePositive
<1>3. CASE n = 0
  <2>1. (0 * One) * d = 0 /\ 0 * One = 0 /\ 0 <= Limit
    BY OnePositive
  <2>2. Float((0 * One) * d, d) = 0 * One
    BY <2>1, QuotientExact
  <2>3. F = 0
    BY <1>3, <2>1, <2>2
  <2>4. F \in Nat /\ Limit * (d * F) = 0 /\ Limit * n = 0
    BY <1>2, <1>3, <2>3
  <2> HIDE DEF F
  <2>5. /\ F \in Nat
        /\ Limit * (d * F) <= Limit * n + n
        /\ Limit * n <= Limit * (d * F) + n
    BY <1>3, <2>4
  <2> QED
    BY <2>5 DEF F
<1>4. CASE n # 0
  <2> HIDE DEF F
  <2>1. Limit * (d * g) <= 2 * n
    BY <1>1, <1>2, <1>4
  <2> DEFINE Y == d * F
             w == d * g
  <2>2. Y \in Nat /\ w \in Nat
    BY <1>1
  <2>3. 2 * n <= 2 * Y + w /\ 2 * Y <= 2 * n + w /\ Limit * w <= 2 * n
    BY <1>1, <2>1
  <2> HIDE DEF Y, w
  <2>4. /\ Limit * (2 * n) <= Limit * (2 * Y + w)
        /\ Limit * (2 * Y) <= Limit * (2 * n + w)
    BY <1>2, <2>2, <2>3, TimesMonotone
  <2>5. /\ Limit * (2 * n) = 2 * (Limit * n)
        /\ Limit * (2 * Y) = 2 * (Limit * Y)
        /\ Limit * (2 * Y + w) = 2 * (Limit * Y) + Limit * w
        /\ Limit * (2 * n + w) = 2 * (Limit * n) + Limit * w
        /\ Limit * w \in Nat /\ Limit * Y \in Nat /\ Limit * n \in Nat
    BY <1>2, <2>2
  <2>6. Limit * Y <= Limit * n + n /\ Limit * n <= Limit * Y + n
    BY <2>3, <2>4, <2>5, HalfOf
  <2> QED
    BY <1>1, <2>6 DEF Y, F
<1> QED
  BY <1>3, <1>4

(* How errors add up: three roundings are worth four.                      *)
LEMMA FourTimes ==
  ASSUME NEW L \in Nat, L >= 4, NEW u \in Nat, NEW v \in Nat, NEW e \in Nat,
         L * u <= L * v + e
  PROVE  4 * u <= 4 * v + e
<1>1. CASE u <= v
  BY <1>1
<1>2. CASE v < u
  <2>1. u - v \in Nat
    BY <1>2
  <2>2. 4 * (u - v) <= L * (u - v)
    BY <2>1, TimesMonotone
  <2>3. L * (u - v) = L * u - L * v /\ L * u \in Nat /\ L * v \in Nat
    BY <2>1
  <2> QED
    BY <2>1, <2>2, <2>3
<1> QED
  BY <1>1, <1>2

(* A numerator, a quotient and a sum, each rounded.                        *)
LEMMA ThreeRoundings ==
  ASSUME NEW L \in Nat, L >= 4, NEW E \in Nat, NEW x \in Nat, NEW Y \in Nat,
         NEW C \in Nat, NEW Z \in Nat,
         L * x <= L * E + E, L * E <= L * x + E,
         L * Y <= L * x + x, L * x <= L * Y + x,
         L * Z <= L * (Y + C) + (Y + C), L * (Y + C) <= L * Z + (Y + C)
  PROVE  /\ L * Z <= L * (E + C) + 4 * (E + C)
         /\ L * (E + C) <= L * Z + 4 * (E + C)
<1>1. 4 * x <= 4 * E + E
  BY FourTimes
<1>2. 4 * Y <= 4 * x + x
  BY FourTimes
<1>3. /\ L * (Y + C) = L * Y + L * C /\ L * (E + C) = L * E + L * C
      /\ L * Y \in Nat /\ L * C \in Nat /\ L * E \in Nat /\ L * x \in Nat
      /\ L * Z \in Nat
  OBVIOUS
<1>4. L * Z <= L * E + L * C + 4 * (E + C)
  BY <1>1, <1>2, <1>3
<1>5. L * E + L * C <= L * Z + 4 * (E + C)
  BY <1>1, <1>2, <1>3
<1> QED
  BY <1>3, <1>4, <1>5

(* However large the numbers are, the error of the sum is one unit and     *)
(* four roundings of it.                                                   *)
LEMMA FloorOfSumClose ==
  ASSUME NEW a \in Nat, NEW d \in Nat \ {0}, NEW c \in Nat,
         Limit * d <= One,
         NEW R \in Nat, R = a \div d + c,
         NEW F \in Nat, F = FloorOfSum(a, d, c)
  PROVE  /\ Limit * F <= Limit * R + (Limit + 4 * (R + 1))
         /\ Limit * R <= Limit * F + (Limit + 4 * (R + 1))
<1> DEFINE E == a * One
           x == Float(E, 1)
           y == Float(x, d)
           n == y + c * One
           z == Float(n, 1)
           X == a + d * c
           C == d * (c * One)
           Y == d * y
           Z == d * z
           W == E + C
           D == d * One
<1>1. One \in Nat \ {0} /\ Limit \in Nat /\ Limit >= 4
  BY OnePositive
<1>2. E \in Nat /\ c * One \in Nat /\ X \in Nat /\ C \in Nat /\ D \in Nat \ {0}
  BY <1>1
<1>3. /\ x \in Nat /\ Limit * x <= Limit * E + E
      /\ Limit * E <= Limit * x + E
  <2> HIDE DEF E
  <2> QED
    BY <1>2, RoundedRelative
<1>4. x = 0 \/ Limit * d <= x
  <2>1. CASE a = 0
    <3>1. Float(0 * One, 1) = 0 * One /\ 0 * One = 0
      BY <1>1, IntegersExact
    <3> QED
      BY <2>1, <3>1
  <2>2. CASE a # 0
    <3>1. 1 * One <= a * One /\ 1 * One = One
      BY <1>1, <2>2, TimesMonotone
    <3>2. Float(1 * One, 1) = 1 * One
      BY <1>1, IntegersExact
    <3>3. One <= x
      BY <1>1, <1>2, <3>1, <3>2, FloatMonotone
    <3>4. Limit * d \in Nat
      BY <1>1
    <3> QED
      BY <1>1, <1>3, <3>3, <3>4
  <2> QED
    BY <2>1, <2>2
<1> HIDE DEF x
<1>5. /\ y \in Nat /\ Limit * Y <= Limit * x + x
      /\ Limit * x <= Limit * Y + x
  BY <1>3, <1>4, QuotientRelative
<1> HIDE DEF y
<1>6. n \in Nat
  BY <1>2, <1>5
<1>7. /\ z \in Nat /\ Limit * z <= Limit * n + n
      /\ Limit * n <= Limit * z + n
  <2> HIDE DEF n
  <2> QED
    BY <1>6, RoundedRelative
<1>8. Floor(z) = F
  BY DEF FloorOfSum, Over, x, y
<1> HIDE DEF z
<1>9. Y \in Nat /\ Z \in Nat /\ d * n = Y + C
  BY <1>2, <1>5, <1>7
<1>10. /\ Limit * Z <= Limit * (Y + C) + (Y + C)
       /\ Limit * (Y + C) <= Limit * Z + (Y + C)
  <2>1. /\ d * (Limit * z) <= d * (Limit * n + n)
        /\ d * (Limit * n) <= d * (Limit * z + n)
    BY <1>1, <1>6, <1>7, TimesMonotone, TimesNat
  <2> HIDE DEF n
  <2>2. /\ d * (Limit * z) = Limit * (d * z)
        /\ d * (Limit * n) = Limit * (d * n)
        /\ d * (Limit * n + n) = Limit * (d * n) + d * n
        /\ d * (Limit * z + n) = Limit * (d * z) + d * n
    BY <1>1, <1>6, <1>7
  <2> QED
    BY <1>9, <2>1, <2>2
<1>11. W \in Nat /\ X * One = W
  BY <1>1, <1>2
<1>12. /\ Limit * Z <= Limit * W + 4 * W
       /\ Limit * W <= Limit * Z + 4 * W
  <2> HIDE DEF E, C, Y, Z
  <2> QED
    BY <1>1, <1>2, <1>3, <1>5, <1>9, <1>10, ThreeRoundings
<1>13. d * R <= X /\ X <= d * (R + 1)
  <2> DEFINE q == a \div d
             r == a % d
  <2>1. q \in Nat /\ r \in 0 .. d - 1 /\ a = d * q + r
    BY DivMod
  <2>2. R = q + c
    OBVIOUS
  <2> HIDE DEF q, r
  <2>3. d * (q + c) = d * q + d * c /\ d * ((q + c) + 1) = d * q + d * c + d
        /\ d * q \in Nat /\ d * c \in Nat
    BY <2>1
  <2> QED
    BY <2>1, <2>2, <2>3
<1>14. D * R <= W /\ W <= D * (R + 1)
  <2>1. (d * R) * One <= X * One /\ X * One <= (d * (R + 1)) * One
    BY <1>1, <1>2, <1>13, TimesMonotone, TimesNat
  <2>2. (d * R) * One = D * R /\ (d * (R + 1)) * One = D * (R + 1)
    BY <1>1
  <2> HIDE DEF X
  <2> QED
    BY <1>11, <2>1, <2>2
<1>15. D * F <= Z /\ Z <= D * (F + 1)
  <2> DEFINE r == z % One
  <2>1. r \in 0 .. One - 1 /\ z = One * F + r
    BY <1>1, <1>7, <1>8, DivMod DEF Floor
  <2> HIDE DEF r
  <2>2. One * F <= z /\ z <= One * (F + 1) /\ One * F \in Nat
        /\ One * (F + 1) \in Nat
    <3>1. One * (F + 1) = One * F + One /\ One * F \in Nat
      BY <1>1
    <3> QED
      BY <1>1, <2>1, <3>1
  <2>3. d * (One * F) <= d * z /\ d * z <= d * (One * (F + 1))
    BY <1>7, <2>2, TimesMonotone
  <2>4. d * (One * F) = D * F /\ d * (One * (F + 1)) = D * (F + 1)
    BY <1>1
  <2> QED
    BY <2>3, <2>4
<1> HIDE DEF D, W, Z
<1>16. D * (Limit * F) <= D * ((Limit + 4) * (R + 1))
  <2>1. Limit * (D * F) <= Limit * Z
    BY <1>1, <1>2, <1>9, <1>15, TimesMonotone, TimesNat
  <2>2. (Limit + 4) * W <= (Limit + 4) * (D * (R + 1))
    BY <1>1, <1>2, <1>11, <1>14, TimesMonotone, TimesNat
  <2>3. /\ (Limit + 4) * W = Limit * W + 4 * W
        /\ Limit * (D * F) = D * (Limit * F)
        /\ (Limit + 4) * (D * (R + 1)) = D * ((Limit + 4) * (R + 1))
        /\ Limit * (D * F) \in Nat /\ Limit * Z \in Nat /\ Limit * W \in Nat
        /\ (Limit + 4) * (D * (R + 1)) \in Nat
    BY <1>1, <1>2, <1>9, <1>11
  <2> QED
    BY <1>11, <1>12, <2>1, <2>2, <2>3
<1>17. D * (Limit * R) <= D * (Limit * (F + 1) + 4 * (R + 1))
  <2>1. Limit * (D * R) <= Limit * W
    BY <1>1, <1>2, <1>11, <1>14, TimesMonotone, TimesNat
  <2>2. Limit * Z <= Limit * (D * (F + 1))
    BY <1>1, <1>2, <1>9, <1>15, TimesMonotone, TimesNat
  <2>3. /\ Limit * (D * R) = D * (Limit * R)
        /\ D * (Limit * (F + 1) + 4 * (R + 1))
             = Limit * (D * (F + 1)) + 4 * (D * (R + 1))
        /\ Limit * (D * R) \in Nat /\ Limit * Z \in Nat /\ Limit * W \in Nat
        /\ Limit * (D * (F + 1)) \in Nat /\ D * (R + 1) \in Nat
    BY <1>1, <1>2, <1>9, <1>11
  <2> QED
    BY <1>11, <1>12, <1>14, <2>1, <2>2, <2>3
<1>c. \A i, j \in Nat : D * i <= D * j => i <= j
  <2> SUFFICES ASSUME NEW i \in Nat, NEW j \in Nat, D * i <= D * j, j < i
               PROVE  FALSE
    OBVIOUS
  <2>1. D * (j + 1) <= D * i
    BY <1>2, TimesMonotone
  <2>2. D * (j + 1) = D * j + D /\ D * j \in Nat /\ D * i \in Nat
    BY <1>2
  <2> QED
    BY <1>2, <2>1, <2>2
<1>18. /\ Limit * F \in Nat /\ (Limit + 4) * (R + 1) \in Nat
       /\ Limit * R \in Nat /\ Limit * (F + 1) + 4 * (R + 1) \in Nat
       /\ (Limit + 4) * (R + 1) = Limit * R + (Limit + 4 * (R + 1))
       /\ Limit * (F + 1) + 4 * (R + 1) = Limit * F + (Limit + 4 * (R + 1))
  BY <1>1
<1>19. Limit * F <= (Limit + 4) * (R + 1)
  BY <1>c, <1>16, <1>18
<1>20. Limit * R <= Limit * (F + 1) + 4 * (R + 1)
  BY <1>c, <1>17, <1>18
<1> QED
  BY <1>18, <1>19, <1>20

-----------------------------------------------------------------------------
(* The curve in floating point.                                            *)

(* The arguments of the two sums are natural numbers, far from underflow.  *)
LEMMA CurveArguments ==
  ASSUME NEW k \in Nat
  PROVE  /\ CURVE_A * (k * k * k) \in Nat /\ CURVE_A * (k * k) \in Nat
         /\ CURVE_B * k \in Nat /\ CURVE_B \in Nat
         /\ 3 * CURVE_SCALE \in Nat \ {0} /\ CURVE_SCALE \in Nat \ {0}
         /\ Limit * (3 * CURVE_SCALE) <= One /\ Limit * CURVE_SCALE <= One
<1>1. /\ CURVE_A \in Nat /\ CURVE_B \in Nat /\ CURVE_SCALE \in Nat \ {0}
      /\ 3 * CURVE_SCALE \in Nat \ {0}
  BY CurveAssumption
<1>2. k * k \in Nat /\ k * k * k \in Nat
  BY TimesNat
<1>3. Limit \in Nat /\ One \in Nat
  BY OnePositive
<1>4. Limit * (3 * CURVE_SCALE) <= One
  BY SdkAssumption DEF Limit, One
<1>5. Limit * CURVE_SCALE <= Limit * (3 * CURVE_SCALE)
  BY <1>1, <1>3, TimesMonotone
<1>6. Limit * CURVE_SCALE \in Nat /\ Limit * (3 * CURVE_SCALE) \in Nat
  BY <1>1, <1>3, TimesNat
<1> QED
  BY <1>1, <1>2, <1>3, <1>4, <1>5, <1>6, TimesNat

(* The SDK's reserve never falls as tokens are sold, however coarse its    *)
(* numbers are.                                                            *)
LEMMA SdkReserveMonotone ==
  ASSUME NEW j \in Nat, NEW k \in Nat, j <= k
  PROVE  /\ calculateReserve(j) \in Nat
         /\ calculateReserve(j) <= calculateReserve(k)
<1>1. j * j * j \in Nat /\ k * k * k \in Nat /\ j * j * j <= k * k * k
  BY CubeMonotone
<1>2. CURVE_A \in Nat /\ CURVE_B \in Nat
  BY CurveAssumption
<1>3. /\ CURVE_A * (j * j * j) <= CURVE_A * (k * k * k)
      /\ CURVE_B * j <= CURVE_B * k
  BY <1>1, <1>2, TimesMonotone
<1> QED
  BY <1>3, CurveArguments, FloorOfSumMonotone DEF calculateReserve

(* As long as two times its terms fit the mantissa the SDK's reserve is    *)
(* the program's ...                                                       *)
LEMMA SdkReserveExact ==
  ASSUME NEW k \in Nat, PreciseReserve(k)
  PROVE  calculateReserve(k) = ReserveIntegral(k)
<1>1. 2 * (CURVE_A * (k * k * k) + (3 * CURVE_SCALE) * (CURVE_B * k)) < Limit
  BY DEF PreciseReserve, Limit
<1> QED
  BY <1>1, CurveArguments, FloorOfSumExact
     DEF calculateReserve, ReserveIntegral

(* ... and its price, as long as they do.                                  *)
LEMMA PagePriceExact ==
  ASSUME NEW k \in Nat, PrecisePrice(k)
  PROVE  calculatePrice(k) = Price(k)
<1>1. 2 * (CURVE_A * (k * k) + CURVE_SCALE * CURVE_B) < Limit
  BY DEF PrecisePrice, Limit
<1> QED
  BY <1>1, CurveArguments, FloorOfSumExact DEF calculatePrice, Price

(* It is a natural number everywhere.                                      *)
LEMMA PagePriceTyped == ASSUME NEW k \in Nat
                        PROVE  calculatePrice(k) \in Nat
<1>1. /\ CURVE_A * (k * k) \in Nat /\ CURVE_B \in Nat
      /\ CURVE_SCALE \in Nat \ {0}
  BY CurveArguments
<1>2. \A a, c \in Nat : FloorOfSum(a, CURVE_SCALE, c) \in Nat
  <2> SUFFICES ASSUME NEW a \in Nat, NEW c \in Nat
               PROVE  FloorOfSum(a, CURVE_SCALE, c) \in Nat
    OBVIOUS
  <2>1. a <= a /\ c <= c
    OBVIOUS
  <2> QED
    BY <1>1, <2>1, FloorOfSumMonotone
<1> QED
  BY <1>1, <1>2 DEF calculatePrice

(* Anywhere else it is within the slack of it.                             *)
LEMMA SdkReserveClose ==
  ASSUME NEW k \in Nat
  PROVE  /\ Slack(k) \in Nat
         /\ Limit * calculateReserve(k)
              <= Limit * ReserveIntegral(k) + Slack(k)
         /\ Limit * ReserveIntegral(k)
              <= Limit * calculateReserve(k) + Slack(k)
<1>1. ReserveIntegral(k) \in Nat
  BY ReserveGrows
<1>2. calculateReserve(k) \in Nat
  BY SdkReserveMonotone
<1>3. Slack(k) = Limit + 4 * (ReserveIntegral(k) + 1) /\ Slack(k) \in Nat
  BY <1>1, OnePositive DEF Slack, Limit
<1> DEFINE R == ReserveIntegral(k)
           F == calculateReserve(k)
           a == CURVE_A * (k * k * k)
           d == 3 * CURVE_SCALE
           c == CURVE_B * k
<1>4. a \in Nat /\ d \in Nat \ {0} /\ c \in Nat /\ Limit * d <= One
  BY CurveArguments
<1>5. R = a \div d + c /\ F = FloorOfSum(a, d, c)
  BY DEF ReserveIntegral, calculateReserve
<1>6. R \in Nat /\ F \in Nat
  BY <1>1, <1>2
<1> HIDE DEF R, F, a, d, c
<1>7. /\ Limit * F <= Limit * R + (Limit + 4 * (R + 1))
      /\ Limit * R <= Limit * F + (Limit + 4 * (R + 1))
  BY <1>4, <1>5, <1>6, FloorOfSumClose
<1> QED
  BY <1>3, <1>7 DEF R, F

(* Precise supplies have precise supplies below them.                      *)
LEMMA PreciseBelow ==
  ASSUME NEW j \in Nat, NEW k \in Nat, j <= k
  PROVE  /\ PreciseReserve(k) => PreciseReserve(j)
         /\ PrecisePrice(k) => PrecisePrice(j)
<1>1. /\ j * j * j \in Nat /\ k * k * k \in Nat /\ j * j * j <= k * k * k
      /\ j * j \in Nat /\ k * k \in Nat /\ j * j <= k * k
  BY CubeMonotone, TimesMonotone, TimesNat
<1>2. /\ CURVE_A \in Nat /\ CURVE_B \in Nat /\ 3 * CURVE_SCALE \in Nat
      /\ CURVE_SCALE \in Nat
  BY CurveAssumption
<1>3. CURVE_B * j \in Nat /\ CURVE_B * k \in Nat /\ CURVE_B * j <= CURVE_B * k
  BY <1>2, TimesMonotone, TimesNat
<1>4. /\ CURVE_A * (j * j * j) <= CURVE_A * (k * k * k)
      /\ CURVE_A * (j * j) <= CURVE_A * (k * k)
      /\ 3 * CURVE_SCALE * (CURVE_B * j) <= 3 * CURVE_SCALE * (CURVE_B * k)
  BY <1>1, <1>2, <1>3, TimesMonotone
<1>5. /\ CURVE_A * (j * j * j) \in Nat /\ CURVE_A * (k * k * k) \in Nat
      /\ CURVE_A * (j * j) \in Nat /\ CURVE_A * (k * k) \in Nat
      /\ 3 * CURVE_SCALE * (CURVE_B * j) \in Nat
      /\ 3 * CURVE_SCALE * (CURVE_B * k) \in Nat
      /\ CURVE_SCALE * CURVE_B \in Nat
  BY <1>1, <1>2, <1>3, TimesNat
<1>6. Two[MANTISSA] \in Nat
  BY OnePositive DEF Limit
<1> QED
  BY <1>4, <1>5, <1>6 DEF PreciseReserve, PrecisePrice

(* A precise reserve is itself below the mantissa's limit.                 *)
LEMMA PreciseSmall ==
  ASSUME NEW k \in Nat, PreciseReserve(k)
  PROVE  ReserveIntegral(k) < Limit
<1> DEFINE a == CURVE_A * (k * k * k)
           d == 3 * CURVE_SCALE
           c == CURVE_B * k
<1>1. a \in Nat /\ d \in Nat \ {0} /\ c \in Nat
  BY CurveArguments
<1>2. 2 * (a + d * c) < Limit
  BY DEF PreciseReserve, Limit
<1>3. ReserveIntegral(k) = a \div d + c
  BY DEF ReserveIntegral
<1> HIDE DEF a, d, c
<1>4. a \div d <= a /\ a \div d \in Nat
  <2>1. a * 1 <= a * d
    BY <1>1, TimesMonotone
  <2> QED
    BY <1>1, <2>1, DivBound, DivNat
<1>5. 1 * c <= d * c /\ d * c \in Nat /\ 1 * c = c
  BY <1>1, TimesMonotone, TimesNat
<1> QED
  BY <1>1, <1>2, <1>3, <1>4, <1>5, OnePositive

-----------------------------------------------------------------------------
(* What it takes for n to be a double, or to be compared with one.         *)
LEMMA RoundedInteger ==
  ASSUME NEW n \in Nat, NEW c \in Nat, c <= Limit
  PROVE  /\ Floor(Float(n * One, 1)) \in Nat
         /\ c <= n => c <= Floor(Float(n * One, 1))
         /\ n <= c => Floor(Float(n * One, 1)) <= c
<1> DEFINE F(i) == Floor(Float(i * One, 1))
<1>1. \A i \in Nat : i * One \in Nat
  BY OnePositive, TimesNat
<1>2. \A i, j \in Nat : i <= j => F(i) \in Nat /\ F(j) \in Nat /\ F(i) <= F(j)
  <2> SUFFICES ASSUME NEW i \in Nat, NEW j \in Nat, i <= j
               PROVE  F(i) \in Nat /\ F(j) \in Nat /\ F(i) <= F(j)
    OBVIOUS
  <2>1. i * One \in Nat /\ j * One \in Nat /\ i * One <= j * One
    BY <1>1, OnePositive, TimesMonotone
  <2>2. /\ Float(i * One, 1) \in Nat /\ Float(j * One, 1) \in Nat
        /\ Float(i * One, 1) <= Float(j * One, 1)
    BY <2>1, FloatNat, FloatMonotone
  <2> QED
    BY <2>2, OnePositive, DivNat, DivMonotone DEF Floor
<1>3. F(c) = c
  <2>1. Float(c * One, 1) = c * One
    BY IntegersExact
  <2> QED
    BY <2>1, OnePositive, TimesDiv DEF Floor
<1> HIDE DEF F
<1>4. F(n) \in Nat /\ (c <= n => c <= F(n)) /\ (n <= c => F(n) <= c)
  <2>1. CASE c <= n
    <3>1. F(n) \in Nat /\ c <= F(n)
      BY <1>2, <1>3, <2>1
    <3>2. n <= c => n = c
      BY <2>1
    <3> QED
      BY <1>3, <3>1, <3>2
  <2>2. CASE n <= c
    <3>1. F(n) \in Nat /\ F(n) <= c
      BY <1>2, <1>3, <2>2
    <3>2. c <= n => n = c
      BY <2>2
    <3> QED
      BY <1>3, <3>1, <3>2
  <2> QED
    BY <2>1, <2>2
<1> QED
  BY <1>4 DEF F

(* The SDK's cost of moving the supply from j to k.                        *)
LEMMA BetweenTyped ==
  ASSUME NEW j \in Nat, NEW k \in Nat, j <= k
  PROVE  /\ calculateReserve(k) - calculateReserve(j) \in Nat
         /\ ReserveBetween(j, k) \in Nat
<1>1. calculateReserve(k) - calculateReserve(j) \in Nat
  <2>1. /\ calculateReserve(j) \in Nat /\ calculateReserve(k) \in Nat
        /\ calculateReserve(j) <= calculateReserve(k)
    BY SdkReserveMonotone
  <2> QED
    BY <2>1
<1>2. 0 \in Nat /\ 0 <= Limit
  BY OnePositive
<1> QED
  BY <1>1, <1>2, RoundedInteger DEF ReserveBetween

(* It grows with the supply moved to.                                      *)
LEMMA BetweenMonotone ==
  ASSUME NEW j \in Nat, NEW k \in Nat, NEW l \in Nat, j <= k, k <= l
  PROVE  ReserveBetween(j, k) <= ReserveBetween(j, l)
<1> DEFINE n == calculateReserve(k) - calculateReserve(j)
           m == calculateReserve(l) - calculateReserve(j)
<1>1. n \in Nat /\ m \in Nat /\ n <= m
  <2>1. /\ calculateReserve(j) \in Nat /\ calculateReserve(k) \in Nat
        /\ calculateReserve(l) \in Nat
        /\ calculateReserve(j) <= calculateReserve(k)
        /\ calculateReserve(k) <= calculateReserve(l)
    BY SdkReserveMonotone
  <2> QED
    BY <2>1
<1> HIDE DEF n, m
<1>2. n * One \in Nat /\ m * One \in Nat /\ n * One <= m * One
  BY <1>1, OnePositive, TimesMonotone, TimesNat
<1>3. /\ Float(n * One, 1) \in Nat /\ Float(m * One, 1) \in Nat
      /\ Float(n * One, 1) <= Float(m * One, 1)
  BY <1>2, FloatNat, FloatMonotone
<1>4. Floor(Float(n * One, 1)) <= Floor(Float(m * One, 1))
  BY <1>3, OnePositive, DivMonotone DEF Floor
<1> QED
  BY <1>4 DEF ReserveBetween, n, m

(* Nothing costs nothing.                                                  *)
LEMMA BetweenSame == ASSUME NEW k \in Nat
                     PROVE  ReserveBetween(k, k) = 0
<1>1. calculateReserve(k) - calculateReserve(k) = 0
  BY SdkReserveMonotone
<1>2. 0 \in Nat /\ 0 <= Limit
  BY OnePositive
<1>3. Floor(Float(0 * One, 1)) \in Nat /\ Floor(Float(0 * One, 1)) <= 0
  BY <1>2, RoundedInteger
<1> QED
  BY <1>1, <1>3 DEF ReserveBetween

(* Comparing it with a quote that the mantissa holds is comparing the      *)
(* difference of the reserves with it ...                                  *)
LEMMA BetweenCompared ==
  ASSUME NEW j \in Nat, NEW k \in Nat, j <= k, NEW q \in Nat, q < Limit
  PROVE  ReserveBetween(j, k) <= q
           <=> calculateReserve(k) - calculateReserve(j) <= q
<1> DEFINE n == calculateReserve(k) - calculateReserve(j)
           v == ReserveBetween(j, k)
<1>1. n \in Nat /\ v \in Nat
  BY BetweenTyped
<1>2. v = Floor(Float(n * One, 1))
  BY DEF ReserveBetween
<1> HIDE DEF n, v
<1>3. q + 1 \in Nat /\ q + 1 <= Limit /\ q <= Limit
  BY OnePositive
<1>4. n <= q => v <= q
  BY <1>1, <1>2, <1>3, RoundedInteger
<1>5. q + 1 <= n => q + 1 <= v
  BY <1>1, <1>2, <1>3, RoundedInteger
<1> QED
  BY <1>1, <1>4, <1>5 DEF n, v

(* ... and where reserves are precise it is the program's cost.            *)
LEMMA BetweenExact ==
  ASSUME NEW j \in Nat, NEW k \in Nat, j <= k, PreciseReserve(k)
  PROVE  ReserveBetween(j, k) = ReserveIntegral(k) - ReserveIntegral(j)
<1> DEFINE n == calculateReserve(k) - calculateReserve(j)
<1>1. /\ calculateReserve(k) = ReserveIntegral(k)
      /\ calculateReserve(j) = ReserveIntegral(j)
  BY PreciseBelow, SdkReserveExact
<1>2. /\ ReserveIntegral(j) \in Nat /\ ReserveIntegral(k) \in Nat
      /\ ReserveIntegral(k) < Limit
  BY ReserveGrows, PreciseSmall
<1>3. n \in Nat
  BY BetweenTyped
<1>4. n <= Limit
  BY <1>1, <1>2, OnePositive
<1> HIDE DEF n
<1>5. /\ Floor(Float(n * One, 1)) \in Nat
      /\ n <= Floor(Float(n * One, 1)) /\ Floor(Float(n * One, 1)) <= n
  BY <1>3, <1>4, RoundedInteger
<1>6. Floor(Float(n * One, 1)) = n
  BY <1>3, <1>5
<1> QED
  BY <1>1, <1>6 DEF ReserveBetween, n

-----------------------------------------------------------------------------
(* What the clients' loops know at every step.                             *)

(* Being a client's turn after the search of the SDK, and after the page's *)
(* buy loop.                                                               *)
Answered == turn \in {"page", "buy", "bought", "sell", "done"}
Bought == turn \in {"bought", "sell", "done"}

(* What the SDK takes t more tokens to cost.                               *)
SdkCost(t) == ReserveBetween(supply, supply + t)

SdkTyped ==
  /\ turn \in {"program", "search", "page", "buy", "bought", "sell", "done"}
  /\ sdkLo \in Nat /\ sdkHi \in Nat /\ sdkBest \in 0 .. available
  /\ at \in Nat /\ remaining \in Nat /\ tokens \in Nat /\ lamports \in Nat
  /\ turn # "program" => pc = "done"

(* The SDK's search keeps the program's bracket, on its own reserve ...    *)
SdkBracketed ==
  turn = "search" =>
    /\ sdkHi <= available
    /\ sdkLo <= sdkHi + 1
    /\ sdkBest = sdkLo - 1 \/ (sdkLo = 0 /\ sdkBest = 0)
    /\ SdkCost(sdkBest) <= sol
    /\ \A t \in sdkHi + 1 .. available : sol < SdkCost(t)

(* ... and answers with the last amount that this reserve makes affordable.*)
SdkAnswered ==
  Answered =>
    \/ sol = 0 /\ sdkBest = 0
    \/ /\ SdkCost(sdkBest) <= sol
       /\ \A t \in sdkBest + 1 .. available : sol < SdkCost(t)

(* The page charges a buyer no more for the steps than the curve does ...  *)
StepsPaid ==
  turn = "buy" =>
    /\ at = supply + tokens
    /\ remaining <= sol
    /\ PrecisePrice(supply + best) /\ tokens <= best
         => sol - remaining <= Cost(supply, tokens)

EnoughTokens == Bought /\ PrecisePrice(supply + best) => best <= tokens

(* ... and gives a seller no more than the curve does.                     *)
StepsSold ==
  turn \in {"sell", "done"} =>
    /\ at = supply + remaining
    /\ remaining <= best
    /\ PrecisePrice(supply + best) =>
         lamports <= ReserveIntegral(supply + best) - ReserveIntegral(at)

(* What holds between any two steps.                                       *)
SdkInv == /\ SearchInv
          /\ SdkTyped /\ SdkBracketed /\ SdkAnswered
          /\ StepsPaid /\ EnoughTokens /\ StepsSold

-----------------------------------------------------------------------------
(* What the constants give to every step.                                  *)
LEMMA Supplied ==
  ASSUME TypeOK
  PROVE  /\ sol \in Nat /\ supply \in Nat /\ best \in Nat
         /\ available \in Nat /\ best <= available
         /\ supply + available = TOTAL_SUPPLY_PER_SIDE
BY SolsAssumption, CurveAssumption DEF TypeOK, available, Supplies

(* The SDK's cost of t tokens grows with t from zero.                      *)
LEMMA SdkCostMonotone ==
  ASSUME TypeOK, NEW t \in Nat, NEW u \in Nat, t <= u
  PROVE  /\ SdkCost(t) \in Nat /\ SdkCost(u) \in Nat
         /\ SdkCost(t) <= SdkCost(u)
         /\ SdkCost(0) = 0
<1>1. /\ supply \in Nat /\ supply + t \in Nat /\ supply + u \in Nat
      /\ supply <= supply + t /\ supply + t <= supply + u
      /\ supply + 0 = supply
  BY Supplied
<1> QED
  BY <1>1, BetweenTyped, BetweenMonotone, BetweenSame DEF SdkCost

(* The middle of the SDK's bracket lies in it.                             *)
LEMMA SdkMidInBracket ==
  ASSUME sdkLo \in Nat, sdkHi \in Nat, sdkLo <= sdkHi
  PROVE  sdkMid \in Nat /\ sdkLo <= sdkMid /\ sdkMid <= sdkHi
<1>1. \A n \in Nat : n \div 2 \in Nat /\ n \div 2 <= n
  OBVIOUS
<1>2. sdkHi - sdkLo \in Nat
  OBVIOUS
<1> QED
  BY <1>1, <1>2 DEF sdkMid

(* Every initial state satisfies the invariant ...                         *)
LEMMA SdkInitially == SdkInit => SdkInv
<1> SUFFICES ASSUME SdkInit PROVE SdkInv
  OBVIOUS
<1>1. SearchInv
  BY SearchInit DEF SdkInit
<1>2. available \in Nat
  BY <1>1, Supplied DEF SearchInv
<1> QED
  BY <1>1, <1>2
     DEF SdkInit, SdkInv, SdkTyped, SdkBracketed, SdkAnswered, Answered,
         StepsPaid, EnoughTokens, Bought, StepsSold

(* After its search the program's variables stay what they are.            *)
LEMMA SearchOver ==
  ASSUME SearchInv, UNCHANGED vars
  PROVE  /\ SearchInv'
         /\ available' = available
         /\ \A t : SdkCost(t)' = SdkCost(t)
<1>1. SearchInv'
  BY SearchStep
<1>2. available' = available /\ \A t : SdkCost(t)' = SdkCost(t)
  BY DEF vars, available, SdkCost
<1> QED
  BY <1>1, <1>2

(* ... and every step keeps it.                                            *)
LEMMA SdkStep == SdkInv /\ [SdkNext]_sdkVars => SdkInv'
<1> SUFFICES ASSUME SdkInv, [SdkNext]_sdkVars
             PROVE  SdkInv'
  OBVIOUS
<1>i. SearchInv /\ TypeOK
  BY DEF SdkInv, SearchInv
<1>t. /\ sol \in Nat /\ supply \in Nat /\ best \in Nat
      /\ available \in Nat /\ best <= available
      /\ supply + available = TOTAL_SUPPLY_PER_SIDE
  BY <1>i, Supplied
<1>s. /\ turn \in {"program", "search", "page", "buy", "bought", "sell",
                   "done"}
      /\ sdkLo \in Nat /\ sdkHi \in Nat /\ sdkBest \in 0 .. available
      /\ at \in Nat /\ remaining \in Nat /\ tokens \in Nat /\ lamports \in Nat
      /\ turn # "program" => pc = "done"
  BY DEF SdkInv, SdkTyped
<1>m. \A t, u \in Nat : t <= u => /\ SdkCost(t) \in Nat /\ SdkCost(u) \in Nat
                                  /\ SdkCost(t) <= SdkCost(u)
  BY <1>i, SdkCostMonotone
<1>z. SdkCost(0) = 0
  BY <1>i, SdkCostMonotone
<1>h. turn = "search" =>
        /\ sdkHi <= available
        /\ sdkLo <= sdkHi + 1
        /\ sdkBest = sdkLo - 1 \/ (sdkLo = 0 /\ sdkBest = 0)
        /\ SdkCost(sdkBest) <= sol
        /\ \A t \in sdkHi + 1 .. available : sol < SdkCost(t)
  BY DEF SdkInv, SdkBracketed
<1>a. Answered =>
        \/ sol = 0 /\ sdkBest = 0
        \/ /\ SdkCost(sdkBest) <= sol
           /\ \A t \in sdkBest + 1 .. available : sol < SdkCost(t)
  BY DEF SdkInv, SdkAnswered
<1>k. ASSUME UNCHANGED vars
      PROVE  /\ SearchInv'
             /\ available' = available
             /\ sol' = sol /\ supply' = supply /\ best' = best /\ pc' = pc
             /\ \A t : SdkCost(t)' = SdkCost(t)
  BY <1>i, <1>k, SearchOver DEF vars
<1>1. CASE ProgramStep
  <2>1. /\ turn = "program" /\ turn' = "program"
        /\ sdkLo' = sdkLo /\ sdkHi' = sdkHi /\ sdkBest' = sdkBest
        /\ at' = at /\ remaining' = remaining /\ tokens' = tokens
        /\ lamports' = lamports
    BY <1>1 DEF ProgramStep, sdk, page
  <2>2. SearchInv' /\ supply' = supply
    BY <1>1, <1>i, SearchStep
       DEF ProgramStep, Next, ReturnZero, StartSearch, MoveUp, MoveDown,
           BracketEmpty
  <2>3. available' = available
    BY <2>2 DEF available
  <2> QED
    BY <1>s, <2>1, <2>2, <2>3
       DEF SdkInv, SdkTyped, SdkBracketed, SdkAnswered, Answered,
           StepsPaid, EnoughTokens, Bought, StepsSold
<1>2. CASE calculateTokensOut
  <2>1. /\ turn = "program" /\ pc = "done"
        /\ turn' = IF sol = 0 \/ available <= 0 THEN "page" ELSE "search"
        /\ sdkLo' = 0 /\ sdkHi' = available /\ sdkBest' = 0
        /\ at' = at /\ remaining' = remaining /\ tokens' = tokens
        /\ lamports' = lamports
        /\ UNCHANGED vars
    BY <1>2 DEF calculateTokensOut, page
  <2>2. \A t \in available + 1 .. available : sol < SdkCost(t)
    BY <1>t
  <2>3. available <= 0 => \A t \in 1 .. available : sol < SdkCost(t)
    BY <1>t
  <2>4. SdkTyped'
    BY <1>k, <1>s, <1>t, <2>1 DEF SdkTyped
  <2>5. SdkBracketed'
    BY <1>k, <1>t, <1>z, <2>1, <2>2 DEF SdkBracketed
  <2>6. SdkAnswered'
    BY <1>k, <1>t, <1>z, <2>1, <2>3 DEF SdkAnswered, Answered
  <2>7. StepsPaid' /\ EnoughTokens' /\ StepsSold'
    BY <2>1 DEF StepsPaid, EnoughTokens, Bought, StepsSold
  <2> QED
    BY <1>k, <2>1, <2>4, <2>5, <2>6, <2>7 DEF SdkInv
<1>3. CASE LookAbove
  <2>1. /\ turn = "search" /\ sdkLo <= sdkHi
        /\ SdkCost(sdkMid) <= sol
        /\ sdkBest' = sdkMid
        /\ turn' = IF sdkMid = sdkHi THEN "page" ELSE "search"
        /\ sdkLo' = IF sdkMid = sdkHi THEN sdkLo ELSE sdkMid + 1
        /\ sdkHi' = sdkHi
        /\ at' = at /\ remaining' = remaining /\ tokens' = tokens
        /\ lamports' = lamports
        /\ UNCHANGED vars
    BY <1>3 DEF LookAbove, Cheap, SdkCost, page
  <2>2. sdkMid \in Nat /\ sdkLo <= sdkMid /\ sdkMid <= sdkHi
    BY <1>s, <2>1, SdkMidInBracket
  <2>4. SdkTyped'
    BY <1>h, <1>k, <1>s, <1>t, <2>1, <2>2 DEF SdkTyped
  <2>5. SdkBracketed'
    BY <1>h, <1>k, <1>s, <1>t, <2>1, <2>2 DEF SdkBracketed
  <2>6. SdkAnswered'
    BY <1>h, <1>k, <1>t, <2>1, <2>2 DEF SdkAnswered, Answered
  <2>7. StepsPaid' /\ EnoughTokens' /\ StepsSold'
    BY <2>1 DEF StepsPaid, EnoughTokens, Bought, StepsSold
  <2> QED
    BY <1>k, <2>1, <2>4, <2>5, <2>6, <2>7 DEF SdkInv
<1>4. CASE LookBelow
  <2>1. /\ turn = "search" /\ sdkLo <= sdkHi
        /\ ~(SdkCost(sdkMid) <= sol)
        /\ turn' = IF sdkMid = 0 THEN "page" ELSE "search"
        /\ sdkHi' = IF sdkMid = 0 THEN sdkHi ELSE sdkMid - 1
        /\ sdkLo' = sdkLo /\ sdkBest' = sdkBest
        /\ at' = at /\ remaining' = remaining /\ tokens' = tokens
        /\ lamports' = lamports
        /\ UNCHANGED vars
    BY <1>4 DEF LookBelow, Cheap, SdkCost, sdk, page
  <2>2. sdkMid \in Nat /\ sdkLo <= sdkMid /\ sdkMid <= sdkHi
    BY <1>s, <2>1, SdkMidInBracket
  <2>3. sol < SdkCost(sdkMid) /\ sdkMid # 0
    BY <1>m, <1>t, <1>z, <2>1, <2>2
  <2>4. turn' = "search" /\ sdkHi' = sdkMid - 1
    BY <2>1, <2>3
  <2>5. \A t \in (sdkMid - 1) + 1 .. available : sol < SdkCost(t)
    <3> TAKE t \in (sdkMid - 1) + 1 .. available
    <3>1. t \in Nat /\ sdkMid <= t
      BY <1>t, <2>2
    <3>2. SdkCost(sdkMid) <= SdkCost(t) /\ SdkCost(t) \in Nat
          /\ SdkCost(sdkMid) \in Nat
      BY <1>m, <2>2, <3>1
    <3> QED
      BY <1>t, <2>3, <3>2
  <2>6. SdkTyped'
    BY <1>k, <1>s, <1>t, <2>1, <2>2, <2>3, <2>4 DEF SdkTyped
  <2>7. SdkBracketed'
    BY <1>h, <1>k, <1>s, <1>t, <2>1, <2>2, <2>3, <2>4, <2>5 DEF SdkBracketed
  <2>8. SdkAnswered' /\ StepsPaid' /\ EnoughTokens' /\ StepsSold'
    BY <2>4 DEF SdkAnswered, Answered, StepsPaid, EnoughTokens, Bought,
                StepsSold
  <2> QED
    BY <1>k, <2>1, <2>6, <2>7, <2>8 DEF SdkInv
<1>5. CASE NothingBetween
  <2>1. /\ turn = "search" /\ sdkLo > sdkHi /\ turn' = "page"
        /\ sdkLo' = sdkLo /\ sdkHi' = sdkHi /\ sdkBest' = sdkBest
        /\ at' = at /\ remaining' = remaining /\ tokens' = tokens
        /\ lamports' = lamports
        /\ UNCHANGED vars
    BY <1>5 DEF NothingBetween, sdk, page
  <2>2. sdkBest = sdkHi
    BY <1>h, <1>s, <2>1
  <2>4. SdkTyped'
    BY <1>k, <1>s, <2>1 DEF SdkTyped
  <2>5. SdkBracketed'
    BY <2>1 DEF SdkBracketed
  <2>6. SdkAnswered'
    BY <1>h, <1>k, <2>1, <2>2 DEF SdkAnswered, Answered
  <2>7. StepsPaid' /\ EnoughTokens' /\ StepsSold'
    BY <2>1 DEF StepsPaid, EnoughTokens, Bought, StepsSold
  <2> QED
    BY <1>k, <2>1, <2>4, <2>5, <2>6, <2>7 DEF SdkInv
<1>6. CASE estimateTokensOut
  <2>1. /\ turn = "page" /\ turn' = "buy"
        /\ sdkLo' = sdkLo /\ sdkHi' = sdkHi /\ sdkBest' = sdkBest
        /\ at' = supply /\ remaining' = sol /\ tokens' = 0
        /\ lamports' = lamports
        /\ UNCHANGED vars
    BY <1>6 DEF estimateTokensOut, sdk
  <2>2. Cost(supply, 0) \in Nat
    BY <1>t, CostMonotone
  <2>4. SdkTyped'
    BY <1>k, <1>s, <1>t, <2>1 DEF SdkTyped
  <2>5. SdkBracketed' /\ EnoughTokens' /\ StepsSold'
    BY <2>1 DEF SdkBracketed, EnoughTokens, Bought, StepsSold
  <2>6. SdkAnswered'
    BY <1>a, <1>k, <2>1 DEF SdkAnswered, Answered
  <2>7. StepsPaid'
    BY <1>k, <1>t, <2>1, <2>2 DEF StepsPaid
  <2> QED
    BY <1>k, <2>1, <2>4, <2>5, <2>6, <2>7 DEF SdkInv
<1>p. turn = "buy" =>
        /\ at = supply + tokens
        /\ remaining <= sol
        /\ PrecisePrice(supply + best) /\ tokens <= best
             => sol - remaining <= Cost(supply, tokens)
  BY DEF SdkInv, StepsPaid
<1>e. /\ STEP \in Nat \ {0} /\ calculatePrice(at) \in Nat
      /\ calculatePrice(at) * STEP \in Nat
  <2>1. STEP \in Nat \ {0} /\ calculatePrice(at) \in Nat
    BY <1>s, PagePriceTyped, SdkAssumption
  <2> QED
    BY <2>1, TimesNat
<1>7. CASE BuyStep
  <2>1. /\ turn = "buy" /\ turn' = "buy"
        /\ calculatePrice(at) * STEP <= remaining
        /\ remaining' = remaining - calculatePrice(at) * STEP
        /\ at' = at + STEP /\ tokens' = tokens + STEP
        /\ sdkLo' = sdkLo /\ sdkHi' = sdkHi /\ sdkBest' = sdkBest
        /\ lamports' = lamports
        /\ UNCHANGED vars
    BY <1>7 DEF BuyStep, sdk
  <2>2. ASSUME PrecisePrice(supply + best), tokens + STEP <= best
        PROVE  sol - (remaining - calculatePrice(at) * STEP)
                 <= Cost(supply, tokens + STEP)
    <3>1. at = supply + tokens /\ at <= supply + best /\ tokens <= best
      BY <1>e, <1>p, <1>s, <1>t, <2>1, <2>2
    <3>2. calculatePrice(at) = Price(at)
      BY <1>s, <1>t, <2>2, <3>1, PreciseBelow, PagePriceExact
    <3>3. STEP * Price(at) <= Cost(at, STEP) /\ Cost(at, STEP) \in Nat
      BY <1>e, <1>s, CostAtLeastPrice
    <3>4. /\ Cost(supply, tokens) + Cost(supply + tokens, STEP)
               = Cost(supply, tokens + STEP)
          /\ Cost(supply, tokens) \in Nat
      <4>1. supply \in Nat /\ tokens \in Nat /\ STEP \in Nat
        BY <1>e, <1>s, <1>t
      <4>2. Cost(supply, tokens) \in Nat
        BY <4>1, CostAtLeastPrice
      <4>3. Cost(supply, tokens) + Cost(supply + tokens, STEP)
              = Cost(supply, tokens + STEP)
        BY <4>1, PathIndependence
      <4> QED
        BY <4>2, <4>3
    <3>5. STEP * Price(at) = calculatePrice(at) * STEP
      BY <1>e, <3>2
    <3>6. sol - remaining <= Cost(supply, tokens)
      BY <1>p, <2>1, <2>2, <3>1
    <3> DEFINE paid == calculatePrice(at) * STEP
    <3>7. /\ paid <= Cost(at, STEP) /\ paid \in Nat
          /\ Cost(supply, tokens) + Cost(at, STEP)
               = Cost(supply, tokens + STEP)
      BY <1>e, <3>1, <3>3, <3>4, <3>5
    <3> HIDE DEF paid
    <3>8. sol - (remaining - paid) <= Cost(supply, tokens + STEP)
      BY <1>s, <1>t, <3>3, <3>4, <3>6, <3>7
    <3> QED
      BY <3>8 DEF paid
  <2>3. remaining' \in Nat /\ remaining' <= remaining
    <3> DEFINE paid == calculatePrice(at) * STEP
    <3>1. paid \in Nat /\ paid <= remaining /\ remaining' = remaining - paid
      BY <1>e, <2>1
    <3> HIDE DEF paid
    <3> QED
      BY <1>s, <3>1
  <2>4. SdkTyped'
    BY <1>e, <1>k, <1>s, <2>1, <2>3 DEF SdkTyped
  <2>5. SdkBracketed' /\ EnoughTokens' /\ StepsSold'
    BY <2>1 DEF SdkBracketed, EnoughTokens, Bought, StepsSold
  <2>6. SdkAnswered'
    BY <1>a, <1>k, <2>1 DEF SdkAnswered, Answered
  <2>7. StepsPaid'
    <3>1. at' = supply' + tokens'
      BY <1>e, <1>k, <1>p, <1>s, <1>t, <2>1
    <3>2. remaining' <= sol'
      BY <1>k, <1>p, <1>s, <1>t, <2>1, <2>3
    <3>3. /\ PrecisePrice(supply + best)' <=> PrecisePrice(supply + best)
          /\ Cost(supply, tokens)' = Cost(supply, tokens + STEP)
      BY <1>k, <2>1 DEF PrecisePrice, Cost
    <3>4. PrecisePrice(supply + best)' /\ tokens' <= best'
            => sol' - remaining' <= Cost(supply, tokens)'
      BY <1>k, <2>1, <2>2, <3>3
    <3> QED
      BY <3>1, <3>2, <3>4 DEF StepsPaid
  <2> QED
    BY <1>k, <2>1, <2>4, <2>5, <2>6, <2>7 DEF SdkInv
<1>c. turn # "program" => Cost(supply, best) <= sol
  BY <1>s DEF SdkInv, SearchInv, SearchCorrect, IsTokensOut
<1>8. CASE BuyRest
  <2> DEFINE P == calculatePrice(at)
             more == remaining \div P
  <2>1. /\ turn = "buy" /\ turn' = "bought"
        /\ P * STEP > remaining
        /\ tokens' = tokens + more
        /\ at' = at /\ remaining' = remaining
        /\ sdkLo' = sdkLo /\ sdkHi' = sdkHi /\ sdkBest' = sdkBest
        /\ lamports' = lamports
        /\ UNCHANGED vars
    BY <1>8 DEF BuyRest, sdk
  <2>2. P \in Nat /\ P # 0
    <3>1. P = 0 => P * STEP = 0
      BY <1>e
    <3> QED
      BY <1>e, <1>s, <2>1, <3>1
  <2>3. more \in Nat /\ remaining < P * (more + 1)
    <3> HIDE DEF P
    <3>1. P \in Nat \ {0}
      BY <2>2
    <3>2. /\ more \in Nat /\ remaining % P \in 0 .. P - 1
          /\ remaining = P * more + (remaining % P)
      BY <1>s, <3>1, DivMod
    <3>3. P * (more + 1) = P * more + P /\ P * more \in Nat
      BY <3>1, <3>2
    <3> QED
      BY <3>1, <3>2, <3>3
  <2> HIDE DEF more
  <2>4. ASSUME PrecisePrice(supply + best), tokens + more < best
        PROVE  FALSE
    <3> DEFINE n == best - tokens
    <3>1. n \in Nat /\ more + 1 <= n /\ tokens + n = best
      BY <1>s, <1>t, <2>3, <2>4
    <3>2. at = supply + tokens /\ at <= supply + best /\ tokens <= best
      BY <1>p, <1>s, <1>t, <2>1, <2>3, <2>4
    <3>3. P = Price(at)
      BY <1>s, <1>t, <2>4, <3>2, PreciseBelow, PagePriceExact
    <3> HIDE DEF n, P
    <3>4. n * Price(at) <= Cost(at, n) /\ Cost(at, n) \in Nat
      BY <1>s, <3>1, CostAtLeastPrice
    <3>5. P * (more + 1) <= P * n
      BY <2>2, <2>3, <3>1, TimesMonotone
    <3>6. P * n = n * P /\ P * n \in Nat /\ P * (more + 1) \in Nat
      BY <2>2, <2>3, <3>1
    <3>7. remaining < Cost(at, n)
      BY <1>s, <2>3, <3>3, <3>4, <3>5, <3>6
    <3>8. /\ Cost(supply, tokens) + Cost(supply + tokens, n)
               = Cost(supply, tokens + n)
          /\ Cost(supply, tokens) \in Nat
      <4>1. supply \in Nat /\ tokens \in Nat /\ n \in Nat
        BY <1>s, <1>t, <3>1
      <4>2. Cost(supply, tokens) \in Nat
        BY <4>1, CostAtLeastPrice
      <4>3. Cost(supply, tokens) + Cost(supply + tokens, n)
              = Cost(supply, tokens + n)
        BY <4>1, PathIndependence
      <4> QED
        BY <4>2, <4>3
    <3>9. sol - remaining <= Cost(supply, tokens)
      BY <1>p, <2>1, <2>4, <3>2
    <3>10. Cost(supply, best) = Cost(supply, tokens) + Cost(at, n)
      BY <3>1, <3>2, <3>8
    <3> QED
      BY <1>c, <1>s, <1>t, <2>1, <3>4, <3>7, <3>8, <3>9, <3>10
  <2>5. SdkTyped'
    BY <1>k, <1>s, <2>1, <2>3 DEF SdkTyped
  <2>6. SdkBracketed' /\ StepsPaid' /\ StepsSold'
    BY <2>1 DEF SdkBracketed, StepsPaid, StepsSold
  <2>7. SdkAnswered'
    BY <1>a, <1>k, <2>1 DEF SdkAnswered, Answered
  <2>8. EnoughTokens'
    <3>1. PrecisePrice(supply + best)' <=> PrecisePrice(supply + best)
      BY <1>k, <2>1 DEF PrecisePrice
    <3>2. tokens + more \in Nat
      BY <1>s, <2>3
    <3> QED
      BY <1>k, <1>t, <2>1, <2>4, <3>1, <3>2 DEF EnoughTokens, Bought
  <2> QED
    BY <1>k, <2>1, <2>5, <2>6, <2>7, <2>8 DEF SdkInv
<1>9. CASE BuyEnds
  <2>1. /\ turn = "buy" /\ turn' = "bought"
        /\ ~(remaining > 0 /\ at < TOTAL_SUPPLY_PER_SIDE)
        /\ tokens' = tokens /\ at' = at /\ remaining' = remaining
        /\ sdkLo' = sdkLo /\ sdkHi' = sdkHi /\ sdkBest' = sdkBest
        /\ lamports' = lamports
        /\ UNCHANGED vars
    BY <1>9 DEF BuyEnds, MoreToBuy, sdk, page
  <2>2. ASSUME PrecisePrice(supply + best), tokens < best
        PROVE  FALSE
    <3>1. remaining = 0
      BY <1>p, <1>s, <1>t, <2>1, <2>2
    <3>2. sol <= Cost(supply, tokens)
      BY <1>p, <1>s, <1>t, <2>1, <2>2, <3>1
    <3>3. /\ Cost(supply, tokens) \in Nat
          /\ Cost(supply, tokens) + (best - tokens) <= Cost(supply, best)
      BY <1>s, <1>t, <2>2, CostMonotone
    <3>4. Cost(supply, best) \in Nat
      BY <1>t, CostAtLeastPrice
    <3> QED
      BY <1>c, <1>s, <1>t, <2>1, <2>2, <3>2, <3>3, <3>4
  <2>5. SdkTyped'
    BY <1>k, <1>s, <2>1 DEF SdkTyped
  <2>6. SdkBracketed' /\ StepsPaid' /\ StepsSold'
    BY <2>1 DEF SdkBracketed, StepsPaid, StepsSold
  <2>7. SdkAnswered'
    BY <1>a, <1>k, <2>1 DEF SdkAnswered, Answered
  <2>8. EnoughTokens'
    <3>1. PrecisePrice(supply + best)' <=> PrecisePrice(supply + best)
      BY <1>k, <2>1 DEF PrecisePrice
    <3> QED
      BY <1>k, <1>s, <1>t, <2>1, <2>2, <3>1 DEF EnoughTokens, Bought
  <2> QED
    BY <1>k, <2>1, <2>5, <2>6, <2>7, <2>8 DEF SdkInv
<1>b. Bought /\ PrecisePrice(supply + best) => best <= tokens
  BY DEF SdkInv, EnoughTokens
<1>10. CASE estimateSolOut
  <2>1. /\ turn = "bought" /\ turn' = "sell"
        /\ at' = supply + best /\ remaining' = best /\ lamports' = 0
        /\ tokens' = tokens
        /\ sdkLo' = sdkLo /\ sdkHi' = sdkHi /\ sdkBest' = sdkBest
        /\ UNCHANGED vars
    BY <1>10 DEF estimateSolOut, sdk
  <2>2. ReserveIntegral(supply + best) \in Nat
    BY <1>t, ReserveGrows
  <2>5. SdkTyped'
    BY <1>k, <1>s, <1>t, <2>1 DEF SdkTyped
  <2>6. SdkBracketed' /\ StepsPaid'
    BY <2>1 DEF SdkBracketed, StepsPaid
  <2>7. SdkAnswered'
    BY <1>a, <1>k, <2>1 DEF SdkAnswered, Answered
  <2>8. EnoughTokens'
    BY <1>b, <1>k, <2>1 DEF EnoughTokens, Bought, PrecisePrice
  <2>9. StepsSold'
    <3>1. ReserveIntegral(supply + best)' = ReserveIntegral(supply + best)
          /\ ReserveIntegral(at)' = ReserveIntegral(supply + best)
      BY <1>k, <2>1 DEF ReserveIntegral
    <3> QED
      BY <1>k, <1>t, <2>1, <2>2, <3>1 DEF StepsSold
  <2> QED
    BY <1>k, <2>1, <2>5, <2>6, <2>7, <2>8, <2>9 DEF SdkInv
<1>o. turn \in {"sell", "done"} =>
        /\ at = supply + remaining
        /\ remaining <= best
        /\ PrecisePrice(supply + best) =>
             lamports <= ReserveIntegral(supply + best) - ReserveIntegral(at)
  BY DEF SdkInv, StepsSold
<1>11. CASE SellStep
  <2> DEFINE P == calculatePrice(at - batch)
  <2>1. /\ turn = "sell" /\ turn' = "sell"
        /\ lamports' = lamports + P * batch
        /\ at' = at - batch /\ remaining' = remaining - batch
        /\ tokens' = tokens
        /\ sdkLo' = sdkLo /\ sdkHi' = sdkHi /\ sdkBest' = sdkBest
        /\ UNCHANGED vars
    BY <1>11 DEF SellStep, sdk
  <2>2. batch \in Nat /\ batch <= remaining /\ batch <= at
        /\ at - batch \in Nat /\ remaining - batch \in Nat
    <3>1. batch \in Nat /\ batch <= remaining /\ batch <= at
      BY <1>e, <1>s DEF batch, Least
    <3> QED
      BY <1>s, <3>1
  <2>3. P \in Nat /\ P * batch \in Nat
    <3>1. P \in Nat
      BY <2>2, PagePriceTyped
    <3> QED
      BY <2>2, <3>1, TimesNat
  <2>4. ASSUME PrecisePrice(supply + best)
        PROVE  lamports + P * batch <= ReserveIntegral(supply + best)
                                         - ReserveIntegral(at - batch)
    <3>1. at <= supply + best /\ at - batch <= supply + best
      BY <1>o, <1>s, <1>t, <2>1, <2>2
    <3>2. P = Price(at - batch)
      BY <1>t, <2>2, <2>4, <3>1, PreciseBelow, PagePriceExact
    <3>3. batch * Price(at - batch) <= Cost(at - batch, batch)
      BY <2>2, CostAtLeastPrice
    <3>4. (at - batch) + batch = at
      BY <1>s, <2>2
    <3>5. Cost(at - batch, batch)
            = ReserveIntegral(at) - ReserveIntegral(at - batch)
      BY <3>4 DEF Cost
    <3>6. /\ ReserveIntegral(at) \in Nat /\ ReserveIntegral(at - batch) \in Nat
          /\ ReserveIntegral(supply + best) \in Nat
      BY <1>s, <1>t, <2>2, ReserveGrows
    <3>7. batch * Price(at - batch) = P * batch
      BY <2>2, <2>3, <3>2
    <3>8. lamports <= ReserveIntegral(supply + best) - ReserveIntegral(at)
      BY <1>o, <2>1, <2>4
    <3> DEFINE gain == P * batch
    <3>9. /\ gain \in Nat
          /\ gain <= ReserveIntegral(at) - ReserveIntegral(at - batch)
      BY <2>3, <3>3, <3>5, <3>7
    <3> HIDE DEF gain
    <3>10. lamports + gain
             <= ReserveIntegral(supply + best) - ReserveIntegral(at - batch)
      BY <1>s, <3>6, <3>8, <3>9
    <3> QED
      BY <3>10 DEF gain
  <2> HIDE DEF P
  <2>5. SdkTyped'
    BY <1>k, <1>s, <2>1, <2>2, <2>3 DEF SdkTyped
  <2>6. SdkBracketed' /\ StepsPaid'
    BY <2>1 DEF SdkBracketed, StepsPaid
  <2>7. SdkAnswered'
    BY <1>a, <1>k, <2>1 DEF SdkAnswered, Answered
  <2>8. EnoughTokens'
    BY <1>b, <1>k, <2>1 DEF EnoughTokens, Bought, PrecisePrice
  <2>9. StepsSold'
    <3>1. ReserveIntegral(supply + best)' = ReserveIntegral(supply + best)
          /\ ReserveIntegral(at)' = ReserveIntegral(at - batch)
          /\ (PrecisePrice(supply + best)' <=> PrecisePrice(supply + best))
      BY <1>k, <2>1 DEF ReserveIntegral, PrecisePrice
    <3>2. at' = supply' + remaining' /\ remaining' <= best'
      BY <1>k, <1>o, <1>s, <1>t, <2>1, <2>2
    <3> QED
      BY <2>1, <2>4, <3>1, <3>2 DEF StepsSold
  <2> QED
    BY <1>k, <2>1, <2>5, <2>6, <2>7, <2>8, <2>9 DEF SdkInv
<1>12. CASE SellEnds \/ UNCHANGED sdkVars
  <2>1. /\ turn' = turn \/ (turn = "sell" /\ turn' = "done")
        /\ tokens' = tokens /\ at' = at /\ remaining' = remaining
        /\ sdkLo' = sdkLo /\ sdkHi' = sdkHi /\ sdkBest' = sdkBest
        /\ lamports' = lamports
        /\ UNCHANGED vars
    BY <1>12 DEF SellEnds, sdkVars, sdk, page
  <2>2. /\ Cost(supply, tokens)' = Cost(supply, tokens)
        /\ ReserveIntegral(supply + best)' = ReserveIntegral(supply + best)
        /\ ReserveIntegral(at)' = ReserveIntegral(at)
        /\ (PrecisePrice(supply + best)' <=> PrecisePrice(supply + best))
    BY <1>k, <2>1 DEF Cost, ReserveIntegral, PrecisePrice
  <2>5. SdkTyped'
    BY <1>k, <1>s, <2>1 DEF SdkTyped
  <2>6. SdkBracketed'
    BY <1>h, <1>k, <2>1 DEF SdkBracketed
  <2>7. SdkAnswered'
    BY <1>a, <1>k, <2>1 DEF SdkAnswered, Answered
  <2>8. EnoughTokens'
    BY <1>b, <1>k, <2>1, <2>2 DEF EnoughTokens, Bought
  <2>9. StepsPaid'
    BY <1>k, <1>p, <2>1, <2>2 DEF StepsPaid
  <2>10. StepsSold'
    BY <1>k, <1>o, <2>1, <2>2 DEF StepsSold
  <2> QED
    BY <1>k, <2>1, <2>5, <2>6, <2>7, <2>8, <2>9, <2>10 DEF SdkInv
<1> QED
  BY <1>1, <1>2, <1>3, <1>4, <1>5, <1>6, <1>7, <1>8, <1>9, <1>10, <1>11, <1>12
     DEF SdkNext

-----------------------------------------------------------------------------
(* What follows from it.                                                   *)

(* The client's steps are no steps of the program: whatever holds of its   *)
(* search alone holds with them.                                           *)
THEOREM ClientsOnlyRead == SdkSpec => Spec
<1>1. SdkInit => Init
  BY DEF SdkInit
<1>2. [SdkNext]_sdkVars => [Next]_vars
  BY DEF SdkNext, sdkVars, ProgramStep, calculateTokensOut, LookAbove,
         LookBelow, NothingBetween, estimateTokensOut, BuyStep, BuyRest,
         BuyEnds, estimateSolOut, SellStep, SellEnds
<1> QED
  BY <1>1, <1>2, PTL DEF SdkSpec, Spec

(* A supply's reserve in floating point (calculateReserve of client.ts)    *)
(* equals the program's while twice its terms fit a double's mantissa, and *)
(* is elsewhere within the slack of it: a unit and four roundings.         *)
THEOREM SdkReserve ==
  ASSUME NEW k \in Nat
  PROVE  /\ PreciseReserve(k) => calculateReserve(k) = ReserveIntegral(k)
         /\ calculateReserve(k) * Two[MANTISSA]
              <= ReserveIntegral(k) * Two[MANTISSA] + Slack(k)
         /\ ReserveIntegral(k) * Two[MANTISSA]
              <= calculateReserve(k) * Two[MANTISSA] + Slack(k)
<1>1. /\ calculateReserve(k) \in Nat /\ ReserveIntegral(k) \in Nat
      /\ Limit \in Nat
  BY SdkReserveMonotone, ReserveGrows, OnePositive
<1>2. /\ calculateReserve(k) * Limit = Limit * calculateReserve(k)
      /\ ReserveIntegral(k) * Limit = Limit * ReserveIntegral(k)
  BY <1>1
<1> QED
  BY <1>2, SdkReserveExact, SdkReserveClose DEF Limit

(* The exact part: both searches end at the same amount.                   *)
LEMMA SameAnswer ==
  ASSUME SdkInv, turn = "done", PreciseReserve(top)
  PROVE  /\ sdkBest = best
         /\ calculateQuoteOut(best, supply + best)
              = SolOut(best, supply + best)
<1>1. /\ sol \in Nat /\ supply \in Nat /\ best \in Nat /\ available \in Nat
      /\ best <= available /\ sdkBest \in Nat /\ sdkBest <= available
      /\ supply + available = TOTAL_SUPPLY_PER_SIDE
  BY Supplied DEF SdkInv, SearchInv, SdkTyped
<1>2. /\ Cost(supply, best) <= sol
      /\ \A u \in best + 1 .. available : Cost(supply, u) > sol
  BY <1>1
     DEF SdkInv, SdkTyped, SearchInv, SearchCorrect, IsTokensOut, available
<1>3. \A t \in Nat : supply + t <= top => SdkCost(t) = Cost(supply, t)
  <2> SUFFICES ASSUME NEW t \in Nat, supply + t <= top
               PROVE  SdkCost(t) = Cost(supply, t)
    OBVIOUS
  <2>1. top \in Nat
    BY <1>1 DEF top
  <2>2. PreciseReserve(supply + t)
    BY <1>1, <2>1, PreciseBelow
  <2> QED
    BY <1>1, <2>2, BetweenExact DEF SdkCost, Cost
<1>4. SdkCost(best) <= sol
  BY <1>1, <1>2, <1>3 DEF top
<1>5. \A t, u \in Nat : t <= u => SdkCost(t) \in Nat /\ SdkCost(u) \in Nat
                                  /\ SdkCost(t) <= SdkCost(u)
  BY SdkCostMonotone DEF SdkInv, SearchInv
<1>6. sdkBest = best
  <2>1. CASE sol = 0 /\ sdkBest = 0
    <3>1. /\ Cost(supply, 0) \in Nat
          /\ Cost(supply, 0) + (best - 0) <= Cost(supply, best)
      BY <1>1, CostMonotone
    <3>2. Cost(supply, best) \in Nat
      BY <1>1, CostAtLeastPrice
    <3> QED
      BY <1>1, <1>2, <2>1, <3>1, <3>2
  <2>2. CASE /\ SdkCost(sdkBest) <= sol
             /\ \A t \in sdkBest + 1 .. available : sol < SdkCost(t)
    <3>1. ~(sdkBest < best)
      <4> SUFFICES ASSUME sdkBest < best PROVE FALSE
        OBVIOUS
      <4>1. best \in sdkBest + 1 .. available
        BY <1>1
      <4>2. sol < SdkCost(best) /\ SdkCost(best) \in Nat
        BY <1>1, <1>5, <2>2, <4>1
      <4> QED
        BY <1>1, <1>4, <4>2
    <3>2. ~(best < sdkBest)
      <4> SUFFICES ASSUME best < sdkBest PROVE FALSE
        OBVIOUS
      <4>1. best + 1 \in best + 1 .. available /\ best + 1 \in Nat
            /\ best + 1 <= sdkBest
        BY <1>1
      <4>2. supply + (best + 1) <= top
        BY <1>1, <4>1 DEF top
      <4>3. /\ Cost(supply, best + 1) > sol
            /\ SdkCost(best + 1) = Cost(supply, best + 1)
        BY <1>2, <1>3, <4>1, <4>2
      <4>4. SdkCost(best + 1) <= SdkCost(sdkBest) /\ SdkCost(sdkBest) \in Nat
            /\ SdkCost(best + 1) \in Nat
        BY <1>1, <1>5, <4>1
      <4> QED
        BY <1>1, <2>2, <4>3, <4>4
    <3> QED
      BY <1>1, <3>1, <3>2
  <2> QED
    BY <2>1, <2>2 DEF SdkInv, SdkAnswered, Answered
<1>7. calculateQuoteOut(best, supply + best) = SolOut(best, supply + best)
  <2>1. (supply + best) - best = supply
    BY <1>1
  <2>2. SolOut(best, supply + best) = Cost(supply, best)
    BY <2>1 DEF SolOut, Cost
  <2>3. CASE best = 0
    <3>1. Cost(supply, 0) = 0
      BY <1>1, CostMonotone
    <3> QED
      BY <2>2, <2>3, <3>1 DEF calculateQuoteOut
  <2>4. CASE best # 0
    <3>1. calculateQuoteOut(best, supply + best) = SdkCost(best)
      BY <2>1, <2>4 DEF calculateQuoteOut, SdkCost
    <3>2. supply + best <= top
      BY <1>1 DEF top
    <3> QED
      BY <1>1, <1>3, <2>2, <3>1, <3>2
  <2> QED
    BY <2>3, <2>4
<1> QED
  BY <1>6, <1>7

(* The other part: a comparison of SDK reserves, in the program's.         *)
LEMMA WithinSlack ==
  ASSUME NEW j \in Nat, NEW k \in Nat, NEW q \in Nat
  PROVE  /\ calculateReserve(k) - calculateReserve(j) <= q
              => ((ReserveIntegral(k) - ReserveIntegral(j)) - q)
                     * Two[MANTISSA]
                   <= Slack(j) + Slack(k)
         /\ q <= calculateReserve(k) - calculateReserve(j)
              => (q - (ReserveIntegral(k) - ReserveIntegral(j)))
                     * Two[MANTISSA]
                   <= Slack(j) + Slack(k)
<1> DEFINE L == Limit
           f == calculateReserve(j)
           g == calculateReserve(k)
           r == ReserveIntegral(j)
           s == ReserveIntegral(k)
<1>1. /\ L \in Nat /\ f \in Nat /\ g \in Nat /\ r \in Nat /\ s \in Nat
      /\ Slack(j) \in Nat /\ Slack(k) \in Nat
  <2>1. j <= j /\ k <= k
    OBVIOUS
  <2>2. f \in Nat /\ g \in Nat
    BY <2>1, SdkReserveMonotone
  <2>3. r \in Nat /\ s \in Nat
    BY <2>1, ReserveGrows
  <2> QED
    BY <2>2, <2>3, OnePositive, SdkReserveClose
<1>2. /\ L * f <= L * r + Slack(j) /\ L * r <= L * f + Slack(j)
      /\ L * g <= L * s + Slack(k) /\ L * s <= L * g + Slack(k)
  BY SdkReserveClose
<1>3. L = Two[MANTISSA]
  BY DEF Limit
<1> HIDE DEF L, f, g, r, s
<1>4. /\ L * f \in Nat /\ L * r \in Nat /\ L * g \in Nat /\ L * s \in Nat
      /\ L * q \in Nat
  BY <1>1, TimesNat
<1>5. /\ ((s - r) - q) * L = (L * s - L * r) - L * q
      /\ (q - (s - r)) * L = L * q - (L * s - L * r)
  BY <1>1
<1>6. ASSUME g - f <= q
      PROVE  ((s - r) - q) * L <= Slack(j) + Slack(k)
  <2>1. L * g <= L * (f + q)
    BY <1>1, <1>6, TimesMonotone
  <2>2. L * (f + q) = L * f + L * q
    BY <1>1
  <2> QED
    BY <1>1, <1>2, <1>4, <1>5, <2>1, <2>2
<1>7. ASSUME q <= g - f
      PROVE  (q - (s - r)) * L <= Slack(j) + Slack(k)
  <2>1. L * (f + q) <= L * g
    BY <1>1, <1>7, TimesMonotone
  <2>2. L * (f + q) = L * f + L * q
    BY <1>1
  <2> QED
    BY <1>1, <1>2, <1>4, <1>5, <2>1, <2>2
<1> QED
  BY <1>3, <1>6, <1>7 DEF f, g, r, s

(* So the SDK's answer is affordable but for the slack, and the next is    *)
(* not.                                                                    *)
LEMMA CloseAnswer ==
  ASSUME SdkInv, turn = "done", sol < Two[MANTISSA]
  PROVE  /\ (Cost(supply, sdkBest) - sol) * Two[MANTISSA]
              <= Slack(supply) + Slack(supply + sdkBest)
         /\ sdkBest < available =>
              (sol - Cost(supply, sdkBest + 1)) * Two[MANTISSA]
                <= Slack(supply) + Slack(supply + (sdkBest + 1))
<1>1. /\ sol \in Nat /\ supply \in Nat /\ available \in Nat
      /\ sdkBest \in Nat /\ sdkBest <= available
  BY Supplied DEF SdkInv, SearchInv, SdkTyped
<1>2. sol < Limit
  BY DEF Limit
<1>3. \A t \in Nat : SdkCost(t) <= sol
        <=> calculateReserve(supply + t) - calculateReserve(supply) <= sol
  <2> SUFFICES ASSUME NEW t \in Nat
               PROVE  SdkCost(t) <= sol
                 <=> calculateReserve(supply + t) - calculateReserve(supply)
                       <= sol
    OBVIOUS
  <2>1. supply + t \in Nat /\ supply <= supply + t
    BY <1>1
  <2> QED
    BY <1>1, <1>2, <2>1, BetweenCompared DEF SdkCost
<1>4. SdkCost(sdkBest) <= sol
  <2>1. SdkCost(0) = 0
    BY SdkCostMonotone DEF SdkInv, SearchInv
  <2> QED
    BY <1>1, <2>1 DEF SdkInv, SdkAnswered, Answered
<1>5. (Cost(supply, sdkBest) - sol) * Two[MANTISSA]
        <= Slack(supply) + Slack(supply + sdkBest)
  BY <1>1, <1>3, <1>4, WithinSlack DEF Cost
<1>6. ASSUME sdkBest < available
      PROVE  (sol - Cost(supply, sdkBest + 1)) * Two[MANTISSA]
               <= Slack(supply) + Slack(supply + (sdkBest + 1))
  <2> DEFINE u == sdkBest + 1
  <2>1. u \in Nat /\ u \in sdkBest + 1 .. available /\ supply + u \in Nat
    BY <1>1, <1>6
  <2> HIDE DEF u
  <2>2. sol <= calculateReserve(supply + u) - calculateReserve(supply)
    <3>1. /\ calculateReserve(supply + u) \in Nat
          /\ calculateReserve(supply) \in Nat
          /\ calculateReserve(supply) <= calculateReserve(supply + u)
      BY <1>1, <2>1, SdkReserveMonotone
    <3>2. CASE sol = 0
      BY <3>1, <3>2
    <3>3. CASE sol # 0
      <4>1. sol < SdkCost(u)
        BY <2>1, <3>3 DEF SdkInv, SdkAnswered, Answered
      <4>2. SdkCost(u) \in Nat
        BY <2>1, SdkCostMonotone DEF SdkInv, SearchInv
      <4> QED
        BY <1>1, <1>3, <2>1, <3>1, <4>1, <4>2
    <3> QED
      BY <3>2, <3>3
  <2>3. (sol - Cost(supply, u)) * Two[MANTISSA]
          <= Slack(supply) + Slack(supply + u)
    BY <1>1, <2>1, <2>2, WithinSlack DEF Cost
  <2> QED
    BY <2>3 DEF u
<1> QED
  BY <1>5, <1>6

(* What the page promises: no less to a buyer, no more to a seller.        *)
LEMMA HonestEstimates ==
  ASSUME SdkInv, turn = "done", PrecisePrice(supply + best)
  PROVE  tokens >= best /\ lamports <= SolOut(best, supply + best)
<1>1. /\ supply \in Nat /\ best \in Nat /\ remaining \in Nat /\ tokens \in Nat
      /\ lamports \in Nat
  BY Supplied DEF SdkInv, SearchInv, SdkTyped
<1>2. best <= tokens
  BY DEF SdkInv, EnoughTokens, Bought
<1>3. /\ at = supply + remaining
      /\ lamports <= ReserveIntegral(supply + best) - ReserveIntegral(at)
  BY DEF SdkInv, StepsSold
<1>4. /\ ReserveIntegral(supply) \in Nat
      /\ ReserveIntegral(supply) + (at - supply) <= ReserveIntegral(at)
      /\ ReserveIntegral(at) \in Nat /\ ReserveIntegral(supply + best) \in Nat
  <2>1. at \in Nat /\ supply <= at /\ supply + best \in Nat
    BY <1>1, <1>3
  <2>2. \A k \in Nat : ReserveIntegral(k) \in Nat
    <3> SUFFICES ASSUME NEW k \in Nat PROVE ReserveIntegral(k) \in Nat
      OBVIOUS
    <3>1. k <= k
      OBVIOUS
    <3> QED
      BY <3>1, ReserveGrows
  <2>3. ReserveIntegral(supply) + (at - supply) <= ReserveIntegral(at)
    BY <1>1, <2>1, ReserveGrows
  <2> QED
    BY <1>1, <2>1, <2>2, <2>3
<1>5. (supply + best) - best = supply
  BY <1>1
<1>6. lamports <= ReserveIntegral(supply + best) - ReserveIntegral(supply)
  BY <1>1, <1>3, <1>4
<1> QED
  BY <1>1, <1>2, <1>5, <1>6 DEF SolOut

(* For every curve, supply and amount of quote, whatever the precision of  *)
(* floating point and the step of the page: where twice the terms of the   *)
(* curve fit the mantissa the SDK's search returns what the program's does *)
(* and quotes the same sale; elsewhere the amount it returns is            *)
(* affordable, and one token more is not, but for the roundings of two     *)
(* reserves; and the page estimates no less than a buyer gets and no more  *)
(* than a seller gets (calculateTokensOut and calculateQuoteOut of         *)
(* client.ts, estimateTokensOut and estimateSolOut of the market page).    *)
THEOREM MirrorsCorrect == SdkSpec => []MirrorsAgree
<1>1. SdkInv => MirrorsAgree
  BY SameAnswer, CloseAnswer, HonestEstimates DEF MirrorsAgree
<1> QED
  BY <1>1, SdkInitially, SdkStep, PTL DEF SdkSpec

(* 2^53, by tens.                                                          *)
LEMMA TwoToThe53 == Two[53] = 9007199254740992
<1>1. \A n \in Nat : Two[n + 5] = 32 * Two[n]
  <2> SUFFICES ASSUME NEW n \in Nat PROVE Two[n + 5] = 32 * Two[n]
    OBVIOUS
  <2>1. /\ Two[n + 1] = 2 * Two[n]
        /\ Two[(n + 1) + 1] = 2 * Two[n + 1]
        /\ Two[(n + 2) + 1] = 2 * Two[n + 2]
        /\ Two[(n + 3) + 1] = 2 * Two[n + 3]
        /\ Two[(n + 4) + 1] = 2 * Two[n + 4]
    BY TwoStep
  <2>2. /\ (n + 1) + 1 = n + 2 /\ (n + 2) + 1 = n + 3
        /\ (n + 3) + 1 = n + 4 /\ (n + 4) + 1 = n + 5
    OBVIOUS
  <2>3. Two[n] \in Nat
    BY TwoPositive
  <2> QED
    BY <2>1, <2>2, <2>3
<1>2. \A n \in Nat : Two[n + 10] = 1024 * Two[n]
  <2> SUFFICES ASSUME NEW n \in Nat PROVE Two[n + 10] = 1024 * Two[n]
    OBVIOUS
  <2>1. Two[n + 5] = 32 * Two[n] /\ Two[(n + 5) + 5] = 32 * Two[n + 5]
    BY <1>1
  <2>2. (n + 5) + 5 = n + 10 /\ Two[n] \in Nat
    BY TwoPositive
  <2> QED
    BY <2>1, <2>2
<1>3. Two[1] = 2 /\ Two[2] = 4 /\ Two[3] = 8
  <2>1. Two[0 + 1] = 2 * Two[0] /\ Two[1 + 1] = 2 * Two[1]
        /\ Two[2 + 1] = 2 * Two[2] /\ Two[0] = 1
    BY TwoStep
  <2> QED
    BY <2>1
<1>4. /\ Two[3 + 10] = 1024 * Two[3]
      /\ Two[13 + 10] = 1024 * Two[13]
      /\ Two[23 + 10] = 1024 * Two[23]
      /\ Two[33 + 10] = 1024 * Two[33]
      /\ Two[43 + 10] = 1024 * Two[43]
  BY <1>2, SMT
<1> QED
  BY <1>3, <1>4, SMT

(* On the curve the program is built with (constants.rs) and with doubles  *)
(* the SDK's reserve is the program's at every supply up to 159 087 and    *)
(* the page's price is the program's at every supply up to 67 108 856:     *)
(* the supplies to which MirrorsAgree applies without slack.               *)
THEOREM ExactOnTheProgramsCurve ==
  ASSUME CURVE_A = 1, CURVE_B = 1, CURVE_SCALE = 1000000000, MANTISSA = 53,
         NEW k \in Nat
  PROVE  /\ k <= 159087 =>
              PreciseReserve(k) /\ calculateReserve(k) = ReserveIntegral(k)
         /\ k <= 67108856 =>
              PrecisePrice(k) /\ calculatePrice(k) = Price(k)
<1>1. Two[MANTISSA] = 9007199254740992
  BY TwoToThe53, SMT
<1>2. PreciseReserve(159087)
  <2>1. 2 * (1 * (159087 * 159087 * 159087)
             + 3 * 1000000000 * (1 * 159087)) < 9007199254740992
    BY SMT
  <2> QED
    BY <1>1, <2>1, SMT DEF PreciseReserve
<1>3. PrecisePrice(67108856)
  <2>1. 2 * (1 * (67108856 * 67108856) + 1000000000 * 1) < 9007199254740992
    BY SMT
  <2> QED
    BY <1>1, <2>1, SMT DEF PrecisePrice
<1>4. ASSUME k <= 159087
      PROVE  PreciseReserve(k) /\ calculateReserve(k) = ReserveIntegral(k)
  <2>1. 159087 \in Nat
    BY SMT
  <2>2. PreciseReserve(k)
    BY <1>2, <1>4, <2>1, PreciseBelow, SMT
  <2> QED
    BY <2>2, SdkReserveExact, SMT
<1>5. ASSUME k <= 67108856
      PROVE  PrecisePrice(k) /\ calculatePrice(k) = Price(k)
  <2>1. 67108856 \in Nat
    BY SMT
  <2>2. PrecisePrice(k)
    BY <1>3, <1>5, <2>1, PreciseBelow, SMT
  <2> QED
    BY <2>2, PagePriceExact, SMT
<1> QED
  BY <1>4, <1>5, SMT
=============================================================================
