---------------------------- MODULE BondingCurve ----------------------------
(***************************************************************************)
(* The pricing functions of src/programs/duel/src/math/bonding_curve.rs.   *)
(*                                                                         *)
(* Every instruction prices with CurveParams::default_params(), whose      *)
(* exponent CURVE_N is 2, so pow_u128(k, n) is written k * k and           *)
(* pow_u128(k, n + 1) is written k * k * k.  Division truncates.  The      *)
(* checked_* calls of the code never fail on the curve's domain, supplies  *)
(* 0 .. TOTAL_SUPPLY_PER_SIDE (theorem CurveFitsU64 of Arithmetic_proofs   *)
(* for the constants the program is built with), so no operator has an     *)
(* overflow branch.                                                        *)
(***************************************************************************)
EXTENDS Integers

CONSTANTS CURVE_A,                \* steepness of the curve
          CURVE_B,                \* base price
          CURVE_SCALE,            \* fixed-point scale of CURVE_A
          TOTAL_SUPPLY_PER_SIDE   \* tokens minted for a side

ASSUME CurveAssumption == /\ CURVE_A \in Nat
                          /\ CURVE_B \in Nat \ {0}
                          /\ CURVE_SCALE \in Nat \ {0}
                          /\ TOTAL_SUPPLY_PER_SIDE \in Nat \ {0}

Supplies == 0 .. TOTAL_SUPPLY_PER_SIDE

(* The spot price at circulating supply k. *)
Price(k) == (CURVE_A * (k * k)) \div CURVE_SCALE + CURVE_B

(* The quote a vault must hold to buy back k circulating tokens. *)
ReserveIntegral(k) ==
  (CURVE_A * (k * k * k)) \div (3 * CURVE_SCALE) + CURVE_B * k

(* What t more tokens cost when k circulate. *)
Cost(k, t) == ReserveIntegral(k + t) - ReserveIntegral(k)

(* mutant: tokens are bought back at the spot price. *)
SolOutAtSpotPrice(t, k) == t * Price(k)

(* What selling t of the k circulating tokens returns, before fees. *)
SolOut(t, k) == ReserveIntegral(k) - ReserveIntegral(k - t)

(* What tokens_out promises: the most tokens that sol buys when k          *)
(* circulate.  Module TokensOutSearch shows that the binary search of the  *)
(* code returns this amount.                                               *)
IsTokensOut(sol, k, t) ==
  /\ t \in 0 .. TOTAL_SUPPLY_PER_SIDE - k
  /\ Cost(k, t) <= sol
  /\ \A u \in t + 1 .. TOTAL_SUPPLY_PER_SIDE - k : Cost(k, u) > sol
=============================================================================
