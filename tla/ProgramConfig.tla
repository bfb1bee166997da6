---------------------------- MODULE ProgramConfig ----------------------------
(***************************************************************************)
(* The protocol-wide configuration account (state/program_config.rs), the  *)
(* instruction that changes it, and the fee arithmetic every instruction   *)
(* that moves quote tokens reads from it.                                  *)
(*                                                                         *)
(* The account is live: a fee rate or the pause flag may change between    *)
(* any two instructions of a running market or duel.  Who signs is not     *)
(* modelled: an action stands for a call whose signer passes the check.    *)
(* The admin key, the fee accounts and the flat creation fee decide no     *)
(* guard and no amount of the model and are left out.                      *)
(***************************************************************************)
EXTENDS Integers

CONSTANTS BPS_DENOMINATOR,
          MAX_TRADE_FEE_BPS,
          MIN_MARKET_DURATION,
          FeeRates,      \* arguments trade_fee_bps of the calls
          FeeSplits,     \* arguments creator_fee_split_bps
          Durations      \* arguments min_market_duration

ASSUME ConfigAssumption ==
  /\ BPS_DENOMINATOR \in Nat \ {0}
  /\ MAX_TRADE_FEE_BPS \in 0 .. BPS_DENOMINATOR
  /\ MIN_MARKET_DURATION \in Nat \ {0}
  /\ FeeRates \subseteq Nat
  /\ FeeSplits \subseteq Nat
  /\ Durations \subseteq Nat

VARIABLE config

Config == [paused : BOOLEAN,
           trade_fee_bps : 0 .. MAX_TRADE_FEE_BPS,
           creator_fee_split_bps : 0 .. BPS_DENOMINATOR,
           min_market_duration : Nat]

(* The state initialize_config leaves. *)
ConfigInit ==
  config \in [paused : {FALSE},
              trade_fee_bps : FeeRates \cap (0 .. MAX_TRADE_FEE_BPS),
              creator_fee_split_bps : FeeSplits \cap (0 .. BPS_DENOMINATOR),
              min_market_duration : {MIN_MARKET_DURATION}]

(* mutant: the rates are not compared with their limits. *)
UpdateConfigUnbounded(paused, rate, split, duration) ==
  /\ duration >= MIN_MARKET_DURATION
  /\ config' = [paused |-> paused,
                trade_fee_bps |-> rate,
                creator_fee_split_bps |-> split,
                min_market_duration |-> duration]

(* update_config: an argument left out keeps the field, which is one of    *)
(* the values the action chooses from.                                     *)
UpdateConfigOf(paused, rate, split, duration) ==
  /\ rate <= MAX_TRADE_FEE_BPS
  /\ split <= BPS_DENOMINATOR
  /\ duration >= MIN_MARKET_DURATION
  /\ config' = [paused |-> paused,
                trade_fee_bps |-> rate,
                creator_fee_split_bps |-> split,
                min_market_duration |-> duration]

(* The fee on an amount of quote tokens, the creator's share of it and the *)
(* rest, which is the protocol's.  Both divisions truncate.                *)
TradeFee(amount) == (amount * config.trade_fee_bps) \div BPS_DENOMINATOR
CreatorFee(amount) ==
  (TradeFee(amount) * config.creator_fee_split_bps) \div BPS_DENOMINATOR
ProtocolFee(amount) == TradeFee(amount) - CreatorFee(amount)
NetOfFee(amount) == amount - TradeFee(amount)
=============================================================================
