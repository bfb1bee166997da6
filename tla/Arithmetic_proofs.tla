--------------------------- MODULE Arithmetic_proofs ---------------------------
(***************************************************************************)
(* The arithmetic that the components share: the pricing functions for     *)
(* every curve CurveAssumption allows, the fees over any configuration     *)
(* update_config accepts, the counting of samples, and sums over a finite  *)
(* set of depositors.                                                      *)
(***************************************************************************)
EXTENDS BondingCurve, ProgramConfig, Twap, FiniteSetsExt, FiniteSetTheorems,
        TLAPS

(* Truncating division of natural numbers is a natural number and keeps    *)
(* the order.                                                              *)
LEMMA DivNat == ASSUME NEW a \in Nat, NEW d \in Nat \ {0}
                PROVE  a \div d \in Nat
OBVIOUS

LEMMA DivMonotone == ASSUME NEW a \in Nat, NEW b \in Nat, NEW d \in Nat \ {0},
                            a <= b
                     PROVE  a \div d <= b \div d
OBVIOUS

(* Multiplication keeps the order of natural numbers.                      *)
LEMMA TimesMonotone == ASSUME NEW a \in Nat, NEW b \in Nat,
                              NEW c \in Nat, NEW d \in Nat, a <= b, c <= d
                       PROVE  a * c <= b * d
OBVIOUS

LEMMA TimesNat == ASSUME NEW a \in Nat, NEW b \in Nat
                  PROVE  a * b \in Nat
OBVIOUS

LEMMA CubeMonotone == ASSUME NEW j \in Nat, NEW k \in Nat, j <= k
                      PROVE  /\ j * j * j \in Nat
                             /\ j * j * j <= k * k * k
<1>1. j * j \in Nat /\ k * k \in Nat /\ j * j <= k * k
  BY TimesMonotone, TimesNat
<1> QED
  BY <1>1, TimesMonotone, TimesNat

(* Division with remainder. *)
LEMMA DivMod == ASSUME NEW n \in Nat, NEW w \in Nat \ {0}
                PROVE  /\ n \div w \in Nat /\ n % w \in 0 .. w - 1
                       /\ n = w * (n \div w) + (n % w)
<1>1. n \div w \in Nat
  BY DivNat
<1>2. n % w \in 0 .. w - 1
  OBVIOUS
<1>3. n = w * (n \div w) + (n % w)
  OBVIOUS
<1> QED
  BY <1>1, <1>2, <1>3

LEMMA TimesDiv == ASSUME NEW n \in Nat, NEW d \in Nat \ {0}
                  PROVE  (n * d) \div d = n
OBVIOUS

-----------------------------------------------------------------------------
(* The quadratic part of the price and the cubic part of the reserve.      *)
Quadratic(k) == (CURVE_A * (k * k)) \div CURVE_SCALE
Cubic(k) == (CURVE_A * (k * k * k)) \div (3 * CURVE_SCALE)

LEMMA QuadraticMonotone ==
  ASSUME NEW j \in Nat, NEW k \in Nat, j <= k
  PROVE  Quadratic(j) \in Nat /\ Quadratic(k) \in Nat
           /\ Quadratic(j) <= Quadratic(k)
<1>1. j * j \in Nat /\ k * k \in Nat /\ j * j <= k * k
  BY TimesMonotone, TimesNat
<1>2. CURVE_A \in Nat /\ CURVE_SCALE \in Nat \ {0}
  BY CurveAssumption
<1>3. /\ CURVE_A * (j * j) \in Nat /\ CURVE_A * (k * k) \in Nat
      /\ CURVE_A * (j * j) <= CURVE_A * (k * k)
  BY <1>1, <1>2, TimesNat, TimesMonotone
<1> QED
  BY <1>2, <1>3, DivNat, DivMonotone DEF Quadratic

LEMMA CubicMonotone ==
  ASSUME NEW j \in Nat, NEW k \in Nat, j <= k
  PROVE  Cubic(j) \in Nat /\ Cubic(k) \in Nat /\ Cubic(j) <= Cubic(k)
<1>1. /\ j * j * j \in Nat /\ k * k * k \in Nat
      /\ j * j * j <= k * k * k
  BY CubeMonotone
<1>2. CURVE_A \in Nat /\ 3 * CURVE_SCALE \in Nat \ {0}
  BY CurveAssumption
<1>3. /\ CURVE_A * (j * j * j) \in Nat /\ CURVE_A * (k * k * k) \in Nat
      /\ CURVE_A * (j * j * j) <= CURVE_A * (k * k * k)
  BY <1>1, <1>2, TimesNat, TimesMonotone
<1> QED
  BY <1>2, <1>3, DivNat, DivMonotone DEF Cubic

(* The spot price never falls as tokens are sold (SPEC.md BC-1, price in   *)
(* bonding_curve.rs): of two supplies the larger never has the lower price.*)
THEOREM PriceMonotone ==
  ASSUME NEW j \in Nat, NEW k \in Nat, j <= k
  PROVE  /\ Price(j) \in Nat \ {0}
         /\ Price(j) <= Price(k)
<1>1. CURVE_B \in Nat \ {0}
  BY CurveAssumption
<1>2. Price(j) = Quadratic(j) + CURVE_B /\ Price(k) = Quadratic(k) + CURVE_B
  BY DEF Price, Quadratic
<1> QED
  BY <1>1, <1>2, QuadraticMonotone

(* The reserve that k tokens need is a natural number and grows by at      *)
(* least one unit with each token (reserve_integral).                      *)
THEOREM ReserveGrows ==
  ASSUME NEW j \in Nat, NEW k \in Nat, j <= k
  PROVE  /\ ReserveIntegral(j) \in Nat
         /\ ReserveIntegral(j) + (k - j) <= ReserveIntegral(k)
<1>1. CURVE_B \in Nat \ {0}
  BY CurveAssumption
<1>2. Cubic(j) \in Nat /\ Cubic(k) \in Nat /\ Cubic(j) <= Cubic(k)
  BY CubicMonotone
<1>3. /\ ReserveIntegral(j) = Cubic(j) + CURVE_B * j
      /\ ReserveIntegral(k) = Cubic(k) + CURVE_B * k
  BY DEF ReserveIntegral, Cubic
<1>4. CURVE_B * j \in Nat /\ CURVE_B * k \in Nat
  BY <1>1, TimesNat
<1>5. CURVE_B * j + (k - j) <= CURVE_B * k
  <2>1. k - j \in Nat
    OBVIOUS
  <2>2. 1 * (k - j) <= CURVE_B * (k - j)
    BY <1>1, <2>1, TimesMonotone
  <2>3. CURVE_B * (k - j) = CURVE_B * k - CURVE_B * j
    BY <1>1
  <2> QED
    BY <1>4, <2>1, <2>2, <2>3
<1> QED
  BY <1>2, <1>3, <1>4, <1>5

(* An empty market needs no reserve: R(0) = 0.                             *)
LEMMA ReserveOfNothing == ReserveIntegral(0) = 0
<1>1. CURVE_A * (0 * 0 * 0) = 0 /\ CURVE_B * 0 = 0
  BY CurveAssumption
<1>2. 3 * CURVE_SCALE \in Nat \ {0}
  BY CurveAssumption
<1>3. \A d \in Nat \ {0} : 0 \div d = 0
  OBVIOUS
<1> QED
  BY <1>1, <1>2, <1>3 DEF ReserveIntegral

(* The costs of purchases that follow one another add up: they are         *)
(* differences of one reserve (calculate_cost).                            *)
LEMMA PathIndependence ==
  ASSUME NEW k \in Nat, NEW t \in Nat, NEW u \in Nat
  PROVE  Cost(k, t) + Cost(k + t, u) = Cost(k, t + u)
<1>1. /\ ReserveIntegral(k) \in Nat
      /\ ReserveIntegral(k + t) \in Nat
      /\ ReserveIntegral(k + (t + u)) \in Nat
  BY ReserveGrows
<1>2. (k + t) + u = k + (t + u)
  OBVIOUS
<1> QED
  BY <1>1, <1>2 DEF Cost

(* A budget that is split never buys more tokens than it buys at once,     *)
(* before fees: what tokens_out leaves of the first part to rounding, and  *)
(* what the supply it must not exceed cuts off, are lost to the buyer, the *)
(* second search starting from the supply the first one left               *)
(* (bonding_curve.rs, tokens_out; capital-efficiency.ts, "path             *)
(* independence").                                                         *)
THEOREM SplitBuysNoMore ==
  ASSUME NEW k \in Supplies, NEW p \in Nat, NEW q \in Nat,
         NEW t \in Nat, NEW u \in Nat, NEW whole \in Nat,
         IsTokensOut(p, k, t), IsTokensOut(q, k + t, u),
         IsTokensOut(p + q, k, whole)
  PROVE  t + u <= whole
<1>1. TOTAL_SUPPLY_PER_SIDE \in Nat /\ k \in Nat
  BY CurveAssumption DEF Supplies
<1>2. /\ u <= TOTAL_SUPPLY_PER_SIDE - (k + t)
      /\ Cost(k, t) <= p /\ Cost(k + t, u) <= q
      /\ \A v \in whole + 1 .. TOTAL_SUPPLY_PER_SIDE - k : Cost(k, v) > p + q
  BY <1>1 DEF IsTokensOut
<1>3. /\ Cost(k, t) \in Int /\ Cost(k + t, u) \in Int
      /\ Cost(k, t) + Cost(k + t, u) = Cost(k, t + u)
  <2>1. k \in Nat /\ k + t \in Nat /\ (k + t) + u \in Nat
    BY <1>1
  <2>2. /\ ReserveIntegral(k) \in Nat /\ ReserveIntegral(k + t) \in Nat
        /\ ReserveIntegral((k + t) + u) \in Nat
    BY <2>1, ReserveGrows
  <2>3. Cost(k, t) \in Int /\ Cost(k + t, u) \in Int
    BY <2>2 DEF Cost
  <2> QED
    BY <2>1, <2>3, PathIndependence
<1>4. Cost(k, t + u) <= p + q
  BY <1>2, <1>3
<1>5. t + u \in 0 .. TOTAL_SUPPLY_PER_SIDE - k
  BY <1>1, <1>2
<1>6. ASSUME t + u > whole PROVE FALSE
  BY <1>1, <1>2, <1>3, <1>4, <1>5, <1>6
<1> QED
  BY <1>6

LEMMA CubeOfSum ==
  ASSUME NEW s \in Nat, NEW n \in Nat
  PROVE  s * s * s + 3 * (n * (s * s)) <= (s + n) * (s + n) * (s + n)
<1>1. (s + n) * (s + n) * (s + n)
        = s * s * s + 3 * (n * (s * s)) + (3 * (s * (n * n)) + n * n * n)
  OBVIOUS
<1>2. /\ s * s * s \in Nat /\ n * (s * s) \in Nat
      /\ s * (n * n) \in Nat /\ n * n * n \in Nat
  BY TimesNat
<1> QED
  BY <1>1, <1>2

LEMMA DivOfSum ==
  ASSUME NEW X \in Nat, NEW d \in Nat \ {0}, NEW m \in Nat
  PROVE  (X + d * m) \div d = X \div d + m
OBVIOUS

(* n more tokens cost at least n times the price of the first (price and   *)
(* cost in bonding_curve.rs): an estimate that charges whole steps at the  *)
(* price of their first token never exceeds the curve.                     *)
THEOREM CostAtLeastPrice ==
  ASSUME NEW s \in Nat, NEW n \in Nat
  PROVE  Cost(s, n) \in Nat /\ n * Price(s) <= Cost(s, n)
<1> DEFINE A == CURVE_A
           B == CURVE_B
           S == CURVE_SCALE
           q == (A * (s * s)) \div S
           X == A * (s * s * s)
           Y == A * ((s + n) * (s + n) * (s + n))
<1>1. A \in Nat /\ B \in Nat /\ S \in Nat \ {0}
  BY CurveAssumption
<1> HIDE DEF A, B, S
<1>2. s * s \in Nat /\ s * s * s \in Nat /\ A * (s * s) \in Nat /\ X \in Nat
      /\ s + n \in Nat /\ (s + n) * (s + n) * (s + n) \in Nat /\ Y \in Nat
  BY <1>1, TimesNat
<1>3. q \in Nat /\ S * q <= A * (s * s)
  <2> DEFINE r == (A * (s * s)) % S
  <2>1. q \in Nat /\ r \in 0 .. S - 1 /\ A * (s * s) = S * q + r
    BY <1>1, <1>2, DivMod
  <2>2. S * q \in Nat
    BY <1>1, <2>1
  <2> HIDE DEF q, r
  <2> QED
    BY <1>1, <1>2, <2>1, <2>2
<1> HIDE DEF q
<1>4. X + (3 * S) * (n * q) <= Y
  <2>1. A * (s * s * s + 3 * (n * (s * s))) <= Y
    <3>1. s * s * s + 3 * (n * (s * s)) \in Nat
      BY <1>2, TimesNat
    <3> QED
      BY <1>1, <1>2, <3>1, CubeOfSum, TimesMonotone
  <2>2. (3 * n) * (S * q) <= (3 * n) * (A * (s * s))
    BY <1>1, <1>2, <1>3, TimesMonotone, TimesNat
  <2>3. /\ A * (s * s * s + 3 * (n * (s * s)))
             = X + (3 * n) * (A * (s * s))
        /\ (3 * n) * (S * q) = (3 * S) * (n * q)
    BY <1>1, <1>3
  <2>4. /\ (3 * n) * (S * q) \in Nat /\ (3 * n) * (A * (s * s)) \in Nat
    BY <1>1, <1>2, <1>3, TimesNat
  <2> HIDE DEF X, Y
  <2> QED
    BY <1>2, <2>1, <2>2, <2>3, <2>4
<1> HIDE DEF X, Y
<1>5. X \div (3 * S) + n * q <= Y \div (3 * S)
  <2>1. 3 * S \in Nat \ {0} /\ n * q \in Nat
    BY <1>1, <1>3
  <2>2. (3 * S) * (n * q) \in Nat
    BY <2>1, TimesNat
  <2>3. X + (3 * S) * (n * q) \in Nat
    BY <1>2, <2>2
  <2>4. (X + (3 * S) * (n * q)) \div (3 * S) = X \div (3 * S) + n * q
    BY <1>2, <2>1, DivOfSum
  <2> QED
    BY <1>2, <1>4, <2>1, <2>3, <2>4, DivMonotone
<1>6. /\ ReserveIntegral(s) = X \div (3 * S) + B * s
      /\ ReserveIntegral(s + n) = Y \div (3 * S) + B * (s + n)
      /\ Price(s) = q + B
  BY DEF ReserveIntegral, Price, A, B, S, X, Y, q
<1>7. X \div (3 * S) \in Nat /\ Y \div (3 * S) \in Nat
  BY <1>1, <1>2, DivNat
<1>8. B * (s + n) = B * s + n * B /\ n * (q + B) = n * q + n * B
      /\ B * s \in Nat /\ n * B \in Nat /\ n * q \in Nat
  BY <1>1, <1>3
<1> QED
  BY <1>5, <1>6, <1>7, <1>8 DEF Cost

(* The tokens that an amount buys sell for no more than the amount         *)
(* (SPEC.md goal 3), and never for less than one unit each.                *)
THEOREM RoundTrip ==
  ASSUME NEW sol \in Nat, NEW k \in Supplies, NEW t \in Nat,
         IsTokensOut(sol, k, t)
  PROVE  t <= SolOut(t, k + t) /\ SolOut(t, k + t) <= sol
<1>1. k \in Nat /\ k + t \in Nat /\ k <= k + t
  BY CurveAssumption DEF Supplies
<1>2. /\ ReserveIntegral(k) \in Nat /\ ReserveIntegral(k + t) \in Nat
      /\ ReserveIntegral(k) + ((k + t) - k) <= ReserveIntegral(k + t)
  BY <1>1, ReserveGrows
<1>3. (k + t) - t = k
  BY <1>1
<1>4. ReserveIntegral(k + t) - ReserveIntegral(k) <= sol
  BY DEF IsTokensOut, Cost
<1> QED
  BY <1>1, <1>2, <1>3, <1>4 DEF SolOut

(* A quotient is bounded by every number whose product with the divisor   *)
(* bounds the dividend.                                                    *)
LEMMA DivBound == ASSUME NEW a \in Nat, NEW b \in Nat, NEW d \in Nat \ {0},
                         a <= b * d
                  PROVE  a \div d <= b
<1>1. (b * d) \div d = b
  OBVIOUS
<1>2. b * d \in Nat
  BY TimesNat
<1> QED
  BY <1>1, <1>2, DivMonotone

(* On the production curve (CURVE_A = CURVE_B = 1 and a scale equal to the *)
(* supply T of a side, 10^9 in constants.rs) no reserve, no price and none *)
(* of the products they are computed from leaves its integer type          *)
(* (SPEC.md goal 4, BC-4): a reserve is at most T*T + T, 10^18 + 10^9, so  *)
(* it fits in u64, and so does a price, at most T + 1; the products are at *)
(* most T*T*T, 10^27, so they fit in u128.  Hence no checked operation of  *)
(* bonding_curve.rs fails and no `as u64` truncates.                       *)
THEOREM CurveFitsU64 ==
  ASSUME CURVE_A = 1, CURVE_B = 1, CURVE_SCALE = TOTAL_SUPPLY_PER_SIDE,
         NEW U64 \in Nat, NEW U128 \in Nat,
         TOTAL_SUPPLY_PER_SIDE * TOTAL_SUPPLY_PER_SIDE
           + TOTAL_SUPPLY_PER_SIDE <= U64,
         TOTAL_SUPPLY_PER_SIDE * TOTAL_SUPPLY_PER_SIDE
           * TOTAL_SUPPLY_PER_SIDE <= U128,
         NEW k \in Supplies
  PROVE  /\ ReserveIntegral(k) \in 0 .. U64
         /\ Price(k) \in 0 .. U64
         /\ CURVE_A * (k * k) \in 0 .. U64
         /\ CURVE_A * (k * k * k) \in 0 .. U128
<1> DEFINE T == TOTAL_SUPPLY_PER_SIDE
<1>1. T \in Nat \ {0} /\ k \in Nat /\ k <= T
  BY CurveAssumption DEF Supplies
<1>2. k * k \in Nat /\ T * T \in Nat /\ k * k <= T * T
  BY <1>1, TimesMonotone, TimesNat
<1>3. k * k * k \in Nat /\ T * T * T \in Nat /\ k * k * k <= T * T * T
  BY <1>1, CubeMonotone
<1>4. T * T + T <= U64 /\ T * T * T <= U128
  OBVIOUS
<1>5. CURVE_A * (k * k) = k * k /\ CURVE_A * (k * k * k) = k * k * k
  BY <1>2, <1>3
<1> HIDE DEF T
<1>6. (k * k) \div T \in 0 .. T
  BY <1>1, <1>2, DivBound, DivNat
<1>7. (k * k * k) \div (3 * T) \in 0 .. T * T
  <2>1. 3 * T \in Nat \ {0} /\ T <= 3 * T
    BY <1>1
  <2>2. (T * T) * T <= (T * T) * (3 * T)
    BY <1>1, <1>2, <2>1, TimesMonotone
  <2>3. k * k * k <= (T * T) * (3 * T) /\ (T * T) * (3 * T) \in Nat
    BY <1>2, <1>3, <2>1, <2>2, TimesNat
  <2> QED
    BY <1>2, <1>3, <2>1, <2>3, DivBound, DivNat
<1>8. Price(k) = (k * k) \div T + 1
  BY <1>5 DEF Price, T
<1>9. ReserveIntegral(k) = (k * k * k) \div (3 * T) + k
  <2>1. CURVE_B * k = k /\ CURVE_SCALE = T
    BY <1>1 DEF T
  <2>2. ReserveIntegral(k) = (k * k * k) \div (3 * CURVE_SCALE) + CURVE_B * k
    BY <1>5 DEF ReserveIntegral
  <2> QED
    BY <2>1, <2>2
<1>10. Price(k) \in 0 .. U64
  <2>1. T <= T * T
    BY <1>1
  <2>2. T + 1 <= T * T + T
    BY <1>1, <1>2
  <2> QED
    BY <1>1, <1>2, <1>4, <1>6, <1>8, <2>2
<1>11. ReserveIntegral(k) \in 0 .. U64
  BY <1>1, <1>2, <1>4, <1>7, <1>9
<1>12. CURVE_A * (k * k) \in 0 .. U64
  BY <1>1, <1>2, <1>4, <1>5
<1>13. CURVE_A * (k * k * k) \in 0 .. U128
  BY <1>3, <1>4, <1>5
<1> QED
  BY <1>10, <1>11, <1>12, <1>13

-----------------------------------------------------------------------------
(* A truncated share of an amount lies between zero and the amount.        *)
LEMMA ShareBounded ==
  ASSUME NEW a \in Nat, NEW r \in Nat, NEW d \in Nat \ {0}, r <= d
  PROVE  (a * r) \div d \in 0 .. a
<1>1. a * r \in Nat /\ a * r <= a * d
  OBVIOUS
<1>2. \A n, m \in Nat : n <= m * d => n \div d \in 0 .. m
  OBVIOUS
<1> QED
  BY <1>1, <1>2

(* Whatever rates are configured, no fee exceeds the amount it is taken    *)
(* from, the creator's share never exceeds the fee (so no subtraction      *)
(* underflows), and net amount and both fees add up to the amount.         *)
THEOREM FeesAddUp ==
  ASSUME config \in Config, NEW amount \in Nat
  PROVE  /\ TradeFee(amount) \in 0 .. amount
         /\ CreatorFee(amount) \in 0 .. TradeFee(amount)
         /\ NetOfFee(amount) \in 0 .. amount
         /\ ProtocolFee(amount) \in 0 .. amount
         /\ NetOfFee(amount) + ProtocolFee(amount) + CreatorFee(amount)
              = amount
         /\ ProtocolFee(amount) + CreatorFee(amount) = TradeFee(amount)
<1>1. /\ config.trade_fee_bps \in Nat
      /\ config.trade_fee_bps <= BPS_DENOMINATOR
      /\ config.creator_fee_split_bps \in Nat
      /\ config.creator_fee_split_bps <= BPS_DENOMINATOR
      /\ BPS_DENOMINATOR \in Nat \ {0}
  BY ConfigAssumption DEF Config
<1>2. TradeFee(amount) \in 0 .. amount
  BY <1>1, ShareBounded DEF TradeFee
<1>3. CreatorFee(amount) \in 0 .. TradeFee(amount)
  <2>1. TradeFee(amount) \in Nat
    BY <1>2
  <2> QED
    BY <1>1, <2>1, ShareBounded DEF CreatorFee
<1> QED
  BY <1>2, <1>3 DEF NetOfFee, ProtocolFee

(* initialize_config and update_config leave a configuration of the type.  *)
LEMMA ConfigInitTyped == ConfigInit => config \in Config
BY ConfigAssumption DEF ConfigInit, Config

LEMMA ConfigUpdateTyped ==
  ASSUME NEW p \in BOOLEAN, NEW r \in FeeRates, NEW f \in FeeSplits,
         NEW d \in Durations, UpdateConfigOf(p, r, f, d)
  PROVE  config' \in Config
BY ConfigAssumption DEF UpdateConfigOf, Config

(* The count a resolution asks for is at least one: no average divides by  *)
(* zero.                                                                   *)
LEMMA MinSamplesPositive ==
  ASSUME NEW terms, terms.twap_window \in Nat, terms.twap_interval \in Nat \ {0}
  PROVE  MinSamples(terms) \in Nat \ {0}
<1>1. \A n \in Int : AtLeastOne(n) \in Nat \ {0}
  BY DEF AtLeastOne
<1>2. terms.twap_window \div terms.twap_interval \in Int
  OBVIOUS
<1>3. AtLeastOne(terms.twap_window \div terms.twap_interval) \in Nat
  BY <1>1, <1>2
<1>4. \A n \in Nat : n \div 2 \in Int
  OBVIOUS
<1> QED
  BY <1>1, <1>3, <1>4 DEF MinSamples

(* If n samples, the last one at last, fit into the window one interval    *)
(* apart, so do n + 1 when the next is taken as record_twap_sample checks. *)
LEMMA OneMoreSampleFits ==
  ASSUME NEW terms, terms.deadline \in Nat, terms.twap_window \in Nat,
         terms.twap_interval \in Nat \ {0},
         NEW n \in Nat, NEW last \in Nat, NEW time \in Nat \ {0},
         InTwapWindow(terms, time), IntervalElapsed(terms, last, time),
         n > 0 => last > 0,
         n > 0 => WindowStart(terms) + (n - 1) * terms.twap_interval <= last
  PROVE  /\ WindowStart(terms) + ((n + 1) - 1) * terms.twap_interval <= time
         /\ time <= terms.deadline
<1>1. WindowStart(terms) \in Int /\ WindowStart(terms) <= time
      /\ time <= terms.deadline
  BY DEF InTwapWindow, WindowStart
<1>2. CASE n = 0
  BY <1>1, <1>2
<1>3. CASE n > 0
  <2>1. time - last >= terms.twap_interval
    BY <1>3 DEF IntervalElapsed
  <2>2. ((n + 1) - 1) * terms.twap_interval
          = (n - 1) * terms.twap_interval + terms.twap_interval
    OBVIOUS
  <2>3. (n - 1) * terms.twap_interval \in Int
    OBVIOUS
  <2> QED
    BY <1>1, <1>3, <2>1, <2>2, <2>3
<1> QED
  BY <1>2, <1>3

-----------------------------------------------------------------------------
(* Sums.  There is no induction over data here; a well-founded order on the*)
(* subsets of a finite set takes its place.                                *)

(* Among sets of subsets of a finite set there is a smallest one. *)
LEMMA MinimalSubset ==
  ASSUME NEW U, IsFiniteSet(U), NEW T \in SUBSET SUBSET U, T # {}
  PROVE  \E x \in T : \A y \in T : y \subseteq x => y = x
<1>1. FiniteSubsetsOf(U) = SUBSET U
  BY FS_FiniteSubsetsOfFinite
<1>2. IsWellFoundedOn(StrictSubsetOrdering(U), SUBSET U)
  BY <1>1, FS_StrictSubsetOrderingWellFounded
<1>3. PICK x \in T : \A y \in T : ~(<<y, x>> \in StrictSubsetOrdering(U))
  BY <1>2, WFMin
<1>4. \A y \in T : y \subseteq x => y = x
  BY <1>3 DEF StrictSubsetOrdering
<1> QED
  BY <1>4

(* A sum as a count: each u in s stands for a[u] units. *)
Units(a, s) == UNION {{u} \X (1 .. a[u]) : u \in s}

LEMMA UnitsFinite ==
  ASSUME NEW S, IsFiniteSet(S), NEW a \in [S -> Nat], NEW x \in S
  PROVE  /\ IsFiniteSet({x} \X (1 .. a[x]))
         /\ Cardinality({x} \X (1 .. a[x])) = a[x]
<1>1. /\ IsFiniteSet(1 .. a[x]) /\ Cardinality(1 .. a[x]) = a[x]
  BY FS_Interval
<1>2. /\ IsFiniteSet({x}) /\ Cardinality({x}) = 1
  BY FS_Singleton
<1>3. /\ IsFiniteSet({x} \X (1 .. a[x]))
      /\ Cardinality({x} \X (1 .. a[x]))
           = Cardinality({x}) * Cardinality(1 .. a[x])
  BY <1>1, <1>2, FS_Product, Zenon
<1> QED
  BY <1>1, <1>2, <1>3

(* Taking one member away takes its units away. *)
LEMMA UnitsStep ==
  ASSUME NEW S, NEW a \in [S -> Nat], NEW s \in SUBSET S,
         NEW x \in s, IsFiniteSet(S), IsFiniteSet(Units(a, s \ {x}))
  PROVE  /\ IsFiniteSet(Units(a, s))
         /\ Cardinality(Units(a, s)) = a[x] + Cardinality(Units(a, s \ {x}))
<1> DEFINE A == {x} \X (1 .. a[x])
           C == Units(a, s \ {x})
<1>1. Units(a, s) = A \cup C
  BY DEF Units
<1>2. A \cap C = {}
  BY DEF Units
<1>3. Cardinality(A \cap C) = 0
  BY <1>2, FS_EmptySet
<1>4. IsFiniteSet(A) /\ Cardinality(A) = a[x] /\ a[x] \in Nat
  BY UnitsFinite
<1>5. IsFiniteSet(C) /\ Cardinality(C) \in Nat
  BY FS_CardinalityType
<1> HIDE DEF A, C
<1>6. /\ IsFiniteSet(A \cup C)
      /\ Cardinality(A \cup C)
           = Cardinality(A) + Cardinality(C) - Cardinality(A \cap C)
  BY <1>4, <1>5, FS_Union, Zenon
<1>7. Cardinality(A \cup C) = a[x] + Cardinality(C)
  BY <1>3, <1>4, <1>5, <1>6
<1> QED
  BY <1>1, <1>6, <1>7 DEF C

(* By the smallest subset with infinitely many: it would have a member to  *)
(* take away.                                                              *)
LEMMA UnitsAllFinite ==
  ASSUME NEW S, IsFiniteSet(S), NEW a \in [S -> Nat], NEW s \in SUBSET S
  PROVE  IsFiniteSet(Units(a, s))
<1> DEFINE B == {t \in SUBSET S : ~IsFiniteSet(Units(a, t))}
<1> SUFFICES ASSUME B # {} PROVE FALSE
  OBVIOUS
<1>0. B \in SUBSET SUBSET S
  OBVIOUS
<1>1. PICK m \in B : \A y \in B : y \subseteq m => y = m
  <2> HIDE DEF B
  <2> QED
    BY <1>0, MinimalSubset
<1>2. CASE m = {}
  BY <1>2, FS_EmptySet DEF Units
<1>3. CASE m # {}
  <2>1. PICK x \in m : TRUE
    BY <1>3
  <2>2. m \ {x} \notin B
    BY <1>1, <2>1
  <2>3. IsFiniteSet(Units(a, m \ {x}))
    BY <2>2
  <2> QED
    BY <2>3, UnitsStep
<1> QED
  BY <1>2, <1>3

(* The fold of the community modules takes the members in an order of its  *)
(* own choosing; the sum is a count, whatever the order. The smallest      *)
(* subset on which they differed would differ without one member already.  *)
LEMMA SumIsUnits ==
  ASSUME NEW S, IsFiniteSet(S), NEW a \in [S -> Nat], NEW t \in SUBSET S
  PROVE  SumFunctionOnSet(a, t) = Cardinality(Units(a, t))
<1> DEFINE pick(s) == CHOOSE x \in s : TRUE
           G(h) == [s \in SUBSET t |->
                      IF s = {} THEN 0
                      ELSE a[pick(s)] + h[s \ {pick(s)}]]
           count == [s \in SUBSET t |-> Cardinality(Units(a, s))]
           iter == CHOOSE h : h = G(h)
<1>1. SumFunctionOnSet(a, t) = iter[t]
  BY DEF SumFunctionOnSet, FoldFunctionOnSet, MapThenFoldSet
<1>2. count = G(count)
  <2>1. ASSUME NEW s \in SUBSET t, s # {}
        PROVE  count[s] = a[pick(s)] + count[s \ {pick(s)}]
    <3>1. pick(s) \in s
      BY <2>1
    <3> HIDE DEF pick
    <3>2. IsFiniteSet(Units(a, s \ {pick(s)}))
      BY UnitsAllFinite
    <3> QED
      BY <3>1, <3>2, UnitsStep
  <2>2. Cardinality(Units(a, {})) = 0
    BY FS_EmptySet DEF Units
  <2> HIDE DEF pick
  <2> QED
    BY <2>1, <2>2
<1>3. iter = G(iter)
  BY <1>2
<1> DEFINE B == {s \in SUBSET t : iter[s] # count[s]}
<1>4. ASSUME B # {} PROVE FALSE
  <2>1. PICK m \in B : \A y \in B : y \subseteq m => y = m
    <3>1. B \in SUBSET SUBSET t /\ IsFiniteSet(t)
      BY FS_Subset
    <3> HIDE DEF B
    <3> QED
      BY <1>4, <3>1, MinimalSubset
  <2>2. m # {}
    BY <1>2, <1>3, <2>1
  <2>3. pick(m) \in m
    BY <2>2
  <2>4. m \ {pick(m)} \notin B
    BY <2>1, <2>3
  <2>5. iter[m \ {pick(m)}] = count[m \ {pick(m)}]
    BY <2>4
  <2>6. iter[m] = a[pick(m)] + iter[m \ {pick(m)}]
    BY <1>3, <2>2
  <2>7. count[m] = a[pick(m)] + count[m \ {pick(m)}]
    BY <1>2, <2>2
  <2> QED
    BY <2>1, <2>5, <2>6, <2>7
<1> QED
  BY <1>1, <1>4

(* What the folds then obey. *)
LEMMA SumTyped ==
  ASSUME NEW S, IsFiniteSet(S), NEW a \in [S -> Nat], NEW t \in SUBSET S
  PROVE  SumFunctionOnSet(a, t) \in Nat
BY SumIsUnits, UnitsAllFinite, FS_CardinalityType

LEMMA SumOfNone ==
  ASSUME NEW S, IsFiniteSet(S), NEW a \in [S -> Nat]
  PROVE  SumFunctionOnSet(a, {}) = 0
BY SumIsUnits, FS_EmptySet DEF Units

LEMMA SumWithout ==
  ASSUME NEW S, IsFiniteSet(S), NEW a \in [S -> Nat], NEW t \in SUBSET S,
         NEW x \in t
  PROVE  SumFunctionOnSet(a, t) = a[x] + SumFunctionOnSet(a, t \ {x})
<1>1. IsFiniteSet(Units(a, t \ {x}))
  BY UnitsAllFinite
<1> QED
  BY <1>1, SumIsUnits, UnitsStep

LEMMA SumSameTerms ==
  ASSUME NEW S, IsFiniteSet(S), NEW a \in [S -> Nat], NEW b \in [S -> Nat],
         NEW t \in SUBSET S, \A u \in t : a[u] = b[u]
  PROVE  SumFunctionOnSet(a, t) = SumFunctionOnSet(b, t)
<1>1. Units(a, t) = Units(b, t)
  BY DEF Units
<1> QED
  BY <1>1, SumIsUnits

LEMMA SumOfFewer ==
  ASSUME NEW S, IsFiniteSet(S), NEW a \in [S -> Nat],
         NEW t \in SUBSET S, NEW r \in SUBSET t
  PROVE  SumFunctionOnSet(a, r) <= SumFunctionOnSet(a, t)
<1>1. Units(a, r) \in SUBSET Units(a, t)
  BY DEF Units
<1>2. IsFiniteSet(Units(a, t))
  BY UnitsAllFinite
<1> QED
  BY <1>1, <1>2, SumIsUnits, FS_Subset

(* One more truncated share q of b out of N adds an error of at most T -   *)
(* 1.                                                                      *)
LEMMA ShareStep ==
  ASSUME NEW N \in Nat, NEW T \in Nat \ {0}, NEW b \in Nat, NEW q \in Nat,
         q = (b * N) \div T,
         NEW A \in Nat, NEW P \in Nat, NEW n \in Nat,
         P * T <= A * N, A * N <= P * T + n * (T - 1)
  PROVE  /\ (q + P) * T <= (b + A) * N
         /\ (b + A) * N <= (q + P) * T + (n + 1) * (T - 1)
<1>1. b * N \in Nat
  OBVIOUS
<1>2. \A c \in Nat, d \in Nat \ {0} :
        (c \div d) * d <= c /\ c <= (c \div d) * d + (d - 1)
  OBVIOUS
<1>3. q * T <= b * N /\ b * N <= q * T + (T - 1)
  BY <1>1, <1>2
<1>4. /\ (q + P) * T = q * T + P * T
      /\ (b + A) * N = b * N + A * N
      /\ (n + 1) * (T - 1) = n * (T - 1) + (T - 1)
  OBVIOUS
<1>5. /\ q * T \in Int /\ P * T \in Int /\ b * N \in Int /\ A * N \in Int
      /\ n * (T - 1) \in Int /\ T - 1 \in Int
  OBVIOUS
<1> QED
  BY <1>3, <1>4, <1>5

(* Truncated shares of a pool N, in proportion to the parts of T, never    *)
(* add up to more than their exact sum and fall short of it by less than   *)
(* one unit each (times T, to keep to whole numbers).                      *)
LEMMA SharesOfPool ==
  ASSUME NEW S, IsFiniteSet(S), NEW a \in [S -> Nat], NEW p \in [S -> Nat],
         NEW N \in Nat, NEW T \in Nat \ {0}, NEW t \in SUBSET S,
         \A u \in t : p[u] = (a[u] * N) \div T
  PROVE  /\ SumFunctionOnSet(p, t) * T <= SumFunctionOnSet(a, t) * N
         /\ SumFunctionOnSet(a, t) * N
              <= SumFunctionOnSet(p, t) * T + Cardinality(t) * (T - 1)
<1> DEFINE Bound(s) ==
             /\ SumFunctionOnSet(p, s) * T <= SumFunctionOnSet(a, s) * N
             /\ SumFunctionOnSet(a, s) * N
                  <= SumFunctionOnSet(p, s) * T + Cardinality(s) * (T - 1)
           B == {s \in SUBSET t : ~Bound(s)}
<1>1. ASSUME B # {} PROVE FALSE
  <2>1. PICK m \in B : \A y \in B : y \subseteq m => y = m
    <3>1. B \in SUBSET SUBSET t /\ IsFiniteSet(t)
      BY FS_Subset
    <3> HIDE DEF B
    <3> QED
      BY <1>1, <3>1, MinimalSubset
  <2>2. CASE m = {}
    <3>1. /\ SumFunctionOnSet(p, m) = 0 /\ SumFunctionOnSet(a, m) = 0
          /\ Cardinality(m) = 0
      BY <2>2, SumOfNone, FS_EmptySet
    <3> QED
      BY <2>1, <3>1
  <2>3. CASE m # {}
    <3>1. PICK x \in m : TRUE
      BY <2>3
    <3> DEFINE r == m \ {x}
    <3>2. m \in SUBSET t /\ r \in SUBSET t /\ r \in SUBSET S /\ m \in SUBSET S
      BY <2>1
    <3>3. Bound(r)
      BY <2>1, <3>1, <3>2
    <3>4. /\ SumFunctionOnSet(p, m) = p[x] + SumFunctionOnSet(p, r)
          /\ SumFunctionOnSet(a, m) = a[x] + SumFunctionOnSet(a, r)
      BY <3>1, <3>2, SumWithout
    <3>5. /\ SumFunctionOnSet(p, r) \in Nat /\ SumFunctionOnSet(a, r) \in Nat
      BY <3>2, SumTyped
    <3>6. IsFiniteSet(m) /\ IsFiniteSet(r)
      BY <3>2, FS_Subset
    <3>7. /\ Cardinality(r) = Cardinality(m) - 1
          /\ Cardinality(m) \in Nat /\ Cardinality(r) \in Nat
      BY <3>1, <3>6, FS_RemoveElement, FS_CardinalityType
    <3>n. Cardinality(m) = Cardinality(r) + 1
      BY <3>7
    <3>8. /\ a[x] \in Nat /\ p[x] \in Nat /\ p[x] = (a[x] * N) \div T
      BY <3>1, <3>2
    <3> HIDE DEF r, B
    <3>9. Bound(m)
      <4> DEFINE n == Cardinality(r)
                 P == SumFunctionOnSet(p, r)
                 A == SumFunctionOnSet(a, r)
      <4>1. /\ P \in Nat /\ A \in Nat /\ n \in Nat
            /\ P * T <= A * N /\ A * N <= P * T + n * (T - 1)
        BY <3>3, <3>5, <3>7
      <4>2. /\ SumFunctionOnSet(p, m) = p[x] + P
            /\ SumFunctionOnSet(a, m) = a[x] + A
            /\ Cardinality(m) = n + 1
        BY <3>4, <3>n
      <4> HIDE DEF n, P, A
      <4>3. /\ (p[x] + P) * T <= (a[x] + A) * N
            /\ (a[x] + A) * N <= (p[x] + P) * T + (n + 1) * (T - 1)
        BY <3>8, <4>1, ShareStep
      <4> QED
        BY <4>2, <4>3
    <3> QED
      BY <2>1, <3>9 DEF B
  <2> QED
    BY <2>2, <2>3
<1> QED
  BY <1>1

LEMMA SumOfZeros ==
  ASSUME NEW S, IsFiniteSet(S), NEW a \in [S -> Nat], NEW t \in SUBSET S,
         \A u \in t : a[u] = 0
  PROVE  SumFunctionOnSet(a, t) = 0
<1>1. Units(a, t) = Units(a, {})
  BY DEF Units
<1> QED
  BY <1>1, SumIsUnits, SumOfNone

(* If P times T falls short of N times T by at most n times T - 1, then P  *)
(* falls short of N by less than n.                                        *)
LEMMA WithinOneEach ==
  ASSUME NEW N \in Nat, NEW P \in Nat, NEW T \in Nat \ {0},
         NEW n \in Nat \ {0},
         P * T <= T * N, T * N <= P * T + n * (T - 1)
  PROVE  P <= N /\ N < P + n
<1>1. P <= N
  <2> SUFFICES ASSUME P >= N + 1 PROVE FALSE
    OBVIOUS
  <2>1. P * T >= (N + 1) * T
    OBVIOUS
  <2>2. (N + 1) * T = T * N + T
    OBVIOUS
  <2> QED
    BY <2>1, <2>2
<1>2. N < P + n
  <2> SUFFICES ASSUME N >= P + n PROVE FALSE
    OBVIOUS
  <2>1. T * N >= T * (P + n)
    OBVIOUS
  <2>2. T * (P + n) = P * T + n * (T - 1) + n
    OBVIOUS
  <2>3. P * T \in Nat /\ n * (T - 1) \in Nat /\ T * N \in Nat
    OBVIOUS
  <2> QED
    BY <2>1, <2>2, <2>3
<1> QED
  BY <1>1, <1>2
=============================================================================
