------------------------------- MODULE Oracle -------------------------------
(***************************************************************************)
(* What src/programs/duel/src/math/oracle.rs makes of a Pyth price         *)
(* account: a price with a confidence and a decimal exponent is validated  *)
(* and brought to nine decimals in 64 bits.  An account whose header is    *)
(* not a price account's fails the read, like a price that is refused, so  *)
(* Feeds has only the accounts that pass it.  The age of a price is not    *)
(* looked at.                                                              *)
(***************************************************************************)
EXTENDS Integers

CONSTANTS BASE,                 \* 10, the base of exponents
          PRICE_DECIMALS,       \* PRICE_SCALE is BASE^PRICE_DECIMALS
          MAX_CONFIDENCE_PCT,
          U64_MAX,
          Feeds                 \* what an oracle account may say

(* How many places the price is moved, up or down.                         *)
Places(f) == f.expo + PRICE_DECIMALS

Factor(f) == BASE ^ (IF Places(f) >= 0 THEN Places(f) ELSE -Places(f))

ASSUME OracleAssumption ==
  /\ PRICE_DECIMALS \in Nat
  /\ MAX_CONFIDENCE_PCT \in Nat
  /\ U64_MAX \in Nat
  /\ \A f \in Feeds : /\ f.price \in Int /\ f.conf \in Nat /\ f.expo \in Int
                      /\ Factor(f) \in Nat \ {0}

(* The bound of the confidence is computed in 64 bits too, so a price near *)
(* the top of its type is refused.                                         *)
Valid(f) == /\ f.price > 0
            /\ f.price * MAX_CONFIDENCE_PCT <= U64_MAX
            /\ f.conf <= (f.price * MAX_CONFIDENCE_PCT) \div 100

(* Moved down, the price is truncated, perhaps to 0.                       *)
ScaledPrice(f) == IF Places(f) >= 0 THEN f.price * Factor(f)
                                    ELSE f.price \div Factor(f)

(* No checked_* call of scale_price fails: moved up, each of its partial   *)
(* products is at most the last.                                           *)
FitsU64(f) == Factor(f) <= U64_MAX /\ ScaledPrice(f) <= U64_MAX

Readable == {f \in Feeds : Valid(f) /\ FitsU64(f)}

(* What get_oracle_price may return. *)
OraclePrices == {ScaledPrice(f) : f \in Readable}
=============================================================================
