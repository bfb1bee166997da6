------------------------------- MODULE Market -------------------------------
(***************************************************************************)
(* One Mode 1 market of the duel program: two bonding curves that trade    *)
(* until a deadline, a TWAP race between them, and a resolution that       *)
(* either moves both reserves into a DEX pool (a winner) or leaves each    *)
(* reserve to the holders of its side (a draw).                            *)
(*                                                                         *)
(* An instruction is one transaction: it happens whole or not at all, and  *)
(* instructions of different signers interleave freely.  The flag          *)
(* market.locked is set and cleared inside one instruction, so no other    *)
(* instruction sees it set and it is left out.  A slippage argument that   *)
(* is not met makes the call fail, which changes nothing: an action stands *)
(* for a call whose slippage argument is met.  Tokens move only through    *)
(* the program (no burns, no direct transfers into a vault).               *)
(***************************************************************************)
EXTENDS BondingCurve, ProgramConfig, Twap

CONSTANTS NoWinner,                \* Option::None
          EMERGENCY_WINDOW,        \* DEFAULT_EMERGENCY_WINDOW
          MIN_GRADUATION_RESERVE,
          SampleIntervals,         \* MIN_TWAP_INTERVAL .. MAX_TWAP_INTERVAL
          Quotes,                  \* quote amounts buyers offer
          Deadlines, Windows, Intervals,   \* arguments of initialize_market
          MaxTime,                 \* bound of the clock
          MaxReserve               \* bound of a quote vault

Side == {0, 1}

ASSUME MarketAssumption ==
  /\ NoWinner \notin Side
  /\ EMERGENCY_WINDOW \in Nat
  /\ MIN_GRADUATION_RESERVE \in Nat \ {0}
  /\ SampleIntervals \subseteq Nat \ {0}
  /\ Quotes \subseteq Nat
  /\ Deadlines \subseteq Nat
  /\ Windows \subseteq Nat
  /\ Intervals \subseteq Nat
  /\ MaxTime \in Nat
  /\ MaxReserve \in Nat

VARIABLES now,           \* Clock::get().unix_timestamp
          market,        \* the Market account
          circulating,   \* Side.circulating_supply
          accumulator,   \* Side.twap_accumulator
          tokenVault, quoteVault,   \* balances of each side's vaults
          openToken, openQuote,     \* sides whose vault account exists
          held,          \* side tokens in the accounts of the public
          pool           \* what graduation moved out to seed the DEX pool

sideVars == <<circulating, accumulator>>
vaultVars == <<tokenVault, quoteVault, openToken, openQuote, held, pool>>
vars == <<now, config, market, sideVars, vaultVars>>

Other(s) == 1 - s
Unresolved == market.status \in {"Active", "TwapObservation"}
Resolved == market.status = "Resolved"
Drawn == Resolved /\ market.winner = NoWinner

Init == /\ now = 1
        /\ ConfigInit
        /\ market = [status |-> "Uninitialized", winner |-> NoWinner,
                     deadline |-> 0, twap_window |-> 0, twap_interval |-> 1,
                     twap_samples_count |-> 0, last_sample_ts |-> 0,
                     final_twap |-> [s \in Side |-> 0]]
        /\ circulating = [s \in Side |-> 0]
        /\ accumulator = [s \in Side |-> 0]
        /\ tokenVault = [s \in Side |-> 0]
        /\ quoteVault = [s \in Side |-> 0]
        /\ openToken = {} /\ openQuote = {}
        /\ held = [s \in Side |-> 0]
        /\ pool = [quote |-> 0, tokens |-> 0]

Tick == /\ now < MaxTime
        /\ now' = now + 1
        /\ UNCHANGED <<config, market, sideVars, vaultVars>>

UpdateConfig == /\ \E p \in BOOLEAN, r \in FeeRates, f \in FeeSplits,
                      d \in Durations : UpdateConfigOf(p, r, f, d)
                /\ UNCHANGED <<now, market, sideVars, vaultVars>>

(* The mints and vaults are created with the market and the whole supply   *)
(* of each side is minted into its token vault.  The mints are never       *)
(* closed, so a market is initialized once.                                *)
InitializeMarket(deadline, window, interval) ==
  LET terms == [deadline |-> deadline, twap_window |-> window,
                twap_interval |-> interval]
  IN /\ market.status = "Uninitialized"
     /\ ~config.paused
     /\ ValidTerms(terms, now, config.min_market_duration, SampleIntervals)
     /\ market' = [market EXCEPT !.status = "Active", !.deadline = deadline,
                                 !.twap_window = window,
                                 !.twap_interval = interval]
     /\ tokenVault' = [s \in Side |-> TOTAL_SUPPLY_PER_SIDE]
     /\ openToken' = Side /\ openQuote' = Side
     /\ UNCHANGED <<now, config, sideVars, quoteVault, held, pool>>

TradingOpen == Unresolved /\ ~config.paused /\ now < market.deadline

(* What a buy moves: the net quote into the vault, the tokens out of it.   *)
BuyInto(s, paid, t) ==
  /\ quoteVault[s] + paid <= MaxReserve
  /\ quoteVault' = [quoteVault EXCEPT ![s] = @ + paid]
  /\ tokenVault' = [tokenVault EXCEPT ![s] = @ - t]
  /\ held' = [held EXCEPT ![s] = @ + t]
  /\ circulating' = [circulating EXCEPT ![s] = @ + t]
  /\ UNCHANGED <<now, config, market, accumulator, openToken, openQuote, pool>>

(* mutant: the curve is asked for the tokens of the gross amount. *)
BuyTokensOnGross(s, quote, t) ==
  /\ TradingOpen /\ quote > 0
  /\ IsTokensOut(quote, circulating[s], t) /\ t > 0
  /\ BuyInto(s, NetOfFee(quote), t)

(* The fees go to the fee accounts; the vault and the curve see the net    *)
(* amount, all of which is kept even when fewer tokens are left than it    *)
(* would buy.                                                              *)
BuyTokens(s, quote, t) ==
  /\ TradingOpen /\ quote > 0
  /\ IsTokensOut(NetOfFee(quote), circulating[s], t) /\ t > 0
  /\ BuyInto(s, NetOfFee(quote), t)

(* mutant: the curve is not told of the tokens that came back. *)
SellBackUncounted(s, t, payout) ==
  /\ t > 0 /\ t <= held[s] /\ t <= circulating[s]
  /\ quoteVault[s] >= payout
  /\ quoteVault' = [quoteVault EXCEPT ![s] = @ - payout]
  /\ tokenVault' = [tokenVault EXCEPT ![s] = @ + t]
  /\ held' = [held EXCEPT ![s] = @ - t]
  /\ UNCHANGED <<now, config, market, sideVars, openToken, openQuote, pool>>

(* Tokens come back at the curve's price; the vault pays the seller and    *)
(* both fees, together what the curve says.                                *)
SellBack(s, t, payout) ==
  /\ t > 0 /\ t <= held[s]
  /\ t <= circulating[s]
  /\ quoteVault[s] >= payout
  /\ quoteVault' = [quoteVault EXCEPT ![s] = @ - payout]
  /\ tokenVault' = [tokenVault EXCEPT ![s] = @ + t]
  /\ held' = [held EXCEPT ![s] = @ - t]
  /\ circulating' = [circulating EXCEPT ![s] = @ - t]
  /\ UNCHANGED <<now, config, market, accumulator, openToken, openQuote, pool>>

(* mutant: the deadline is not checked. *)
SellTokensAnyTime(s, t) ==
  /\ Unresolved /\ ~config.paused
  /\ SellBack(s, t, SolOut(t, circulating[s]))

SellTokens(s, t) ==
  LET raw == SolOut(t, circulating[s])
  IN /\ TradingOpen
     /\ SellBack(s, t, NetOfFee(raw) + ProtocolFee(raw) + CreatorFee(raw))

(* Both spot prices are added and the sample is counted. *)
TakeSample ==
  /\ accumulator' = [s \in Side |-> accumulator[s] + Price(circulating[s])]
  /\ market' = [market EXCEPT !.status = "TwapObservation",
                              !.twap_samples_count = @ + 1,
                              !.last_sample_ts = now]
  /\ UNCHANGED <<now, config, circulating, vaultVars>>

(* mutant: the interval since the last sample is not checked. *)
RecordTwapSampleAtWill ==
  /\ Unresolved /\ InTwapWindow(market, now)
  /\ TakeSample

(* Anyone may sample; the pause flag is not read. *)
RecordTwapSample ==
  /\ Unresolved
  /\ InTwapWindow(market, now)
  /\ IntervalElapsed(market, market.last_sample_ts, now)
  /\ TakeSample

FinalTwap(s) == accumulator[s] \div market.twap_samples_count

(* The higher TWAP wins; a tie goes to the larger reserve, then to side 0. *)
Leads(s) == \/ FinalTwap(s) > FinalTwap(Other(s))
            \/ /\ FinalTwap(s) = FinalTwap(Other(s))
               /\ \/ quoteVault[s] > quoteVault[Other(s)]
                  \/ quoteVault[s] = quoteVault[Other(s)] /\ s = 0

(* The unsold tokens of the winner and the given quote seed the DEX pool,  *)
(* whose liquidity is locked.                                              *)
Graduate(winner, solForPool) ==
  /\ solForPool >= MIN_GRADUATION_RESERVE
  /\ tokenVault[winner] > 0
  /\ pool' = [quote |-> solForPool, tokens |-> tokenVault[winner]]
  /\ tokenVault' = [tokenVault EXCEPT ![winner] = 0]
  /\ market' = [market EXCEPT !.status = "Resolved", !.winner = winner,
                              !.final_twap = [s \in Side |-> FinalTwap(s)]]
  /\ UNCHANGED <<now, config, sideVars, openToken, openQuote, held>>

(* mutant: the loser's reserve is not swept. *)
ResolveAndGraduateOwnReserve(expected) ==
  /\ Unresolved /\ now >= market.deadline
  /\ market.twap_samples_count >= MinSamples(market)
  /\ Leads(expected)
  /\ Graduate(expected, quoteVault[expected])
  /\ quoteVault' = [quoteVault EXCEPT ![expected] = 0]

(* The losing reserve is swept into the winning vault and all of it goes   *)
(* to the pool; any failing step fails the instruction.                    *)
ResolveAndGraduate(expected) ==
  /\ Unresolved
  /\ now >= market.deadline
  /\ market.twap_samples_count >= MinSamples(market)
  /\ Leads(expected)                     \* else WinnerMismatch
  /\ Graduate(expected, quoteVault[0] + quoteVault[1])
  /\ quoteVault' = [s \in Side |-> 0]

DeclareDraw ==
  /\ market' = [market EXCEPT !.status = "Resolved", !.winner = NoWinner,
                              !.final_twap = [s \in Side |-> 0]]
  /\ UNCHANGED <<now, config, sideVars, vaultVars>>

(* mutant: the fallback waits for the protocol to be unpaused. *)
EmergencyResolveUnpaused ==
  /\ Unresolved /\ ~config.paused
  /\ now >= market.deadline + EMERGENCY_WINDOW
  /\ DeclareDraw

(* mutant: a resolved market can be declared a draw. *)
EmergencyResolveAgain ==
  /\ Unresolved \/ Resolved
  /\ now >= market.deadline + EMERGENCY_WINDOW
  /\ DeclareDraw

(* The draw anyone may declare once the emergency window has passed,       *)
(* whether or not the samples would have allowed a winner.                 *)
EmergencyResolve ==
  /\ Unresolved
  /\ now >= market.deadline
  /\ now >= market.deadline + EMERGENCY_WINDOW
  /\ DeclareDraw

(* After a draw holders sell at the curve's price without fees. *)
SellPostResolution(s, t) ==
  /\ Drawn /\ ~config.paused
  /\ s \in openToken /\ s \in openQuote
  /\ SellBack(s, t, SolOut(t, circulating[s]))

(* mutant: the quote vault is closed whatever it holds. *)
CloseQuoteVaultAlways(s) ==
  /\ Resolved
  /\ s \in openToken /\ s \in openQuote
  /\ openQuote' = openQuote \ {s}
  /\ quoteVault' = [quoteVault EXCEPT ![s] = 0]
  /\ UNCHANGED <<now, config, market, sideVars, tokenVault, openToken, held,
                 pool>>

(* Each of a side's two vaults is closed if it is empty.  Both accounts    *)
(* are arguments of the instruction, so both must still exist.             *)
CloseQuoteVault(s) ==
  /\ Resolved
  /\ s \in openToken /\ s \in openQuote
  /\ openQuote' = IF quoteVault[s] = 0 THEN openQuote \ {s} ELSE openQuote
  /\ openToken' = IF tokenVault[s] = 0 THEN openToken \ {s} ELSE openToken
  /\ UNCHANGED <<now, config, market, sideVars, tokenVault, quoteVault, held,
                 pool>>

(* mutant: only side 0 is checked for circulating tokens. *)
CloseMarketOneSide ==
  /\ Resolved
  /\ circulating[0] = 0
  /\ market' = [market EXCEPT !.status = "Closed"]
  /\ UNCHANGED <<now, config, sideVars, vaultVars>>

(* The Market and Side accounts go; the vaults stay as they are. *)
CloseMarket ==
  /\ Resolved
  /\ \A s \in Side : circulating[s] = 0
  /\ market' = [market EXCEPT !.status = "Closed"]
  /\ UNCHANGED <<now, config, sideVars, vaultVars>>

Trade == \E s \in Side :
           \/ \E q \in Quotes, t \in Supplies : BuyTokens(s, q, t)
           \/ \E t \in Supplies : SellTokens(s, t)

Next == \/ Tick
        \/ UpdateConfig
        \/ \E d \in Deadlines, w \in Windows, i \in Intervals :
             InitializeMarket(d, w, i)
        \/ Trade
        \/ RecordTwapSample
        \/ \E s \in Side : ResolveAndGraduate(s)
        \/ EmergencyResolve
        \/ \E s \in Side, t \in Supplies : SellPostResolution(s, t)
        \/ \E s \in Side : CloseQuoteVault(s)
        \/ CloseMarket

Spec == Init /\ [][Next]_vars

(* Time passes, and when nothing else has resolved the market somebody     *)
(* declares the draw: the call is open to anyone and holders gain by it.   *)
(* Nobody is assumed to sample or to graduate.                             *)
FairSpec == Spec /\ WF_vars(Tick) /\ WF_vars(EmergencyResolve)

-----------------------------------------------------------------------------
MarketType ==
  [status : {"Uninitialized", "Active", "TwapObservation", "Resolved",
             "Closed"},
   winner : Side \cup {NoWinner},
   deadline : Nat, twap_window : Nat, twap_interval : Nat \ {0},
   twap_samples_count : Nat, last_sample_ts : Nat, final_twap : [Side -> Nat]]

TypeOK == /\ now \in Nat \ {0}
          /\ config \in Config
          /\ market \in MarketType
          /\ circulating \in [Side -> Supplies]
          /\ accumulator \in [Side -> Nat]
          /\ tokenVault \in [Side -> Supplies]
          /\ quoteVault \in [Side -> Nat]
          /\ openToken \subseteq Side /\ openQuote \subseteq Side
          /\ held \in [Side -> Supplies]
          /\ pool \in [quote : Nat, tokens : Supplies]

(* Until a winner takes the reserves, each quote vault holds what it would *)
(* cost to buy back every circulating token: no holder can be told         *)
(* InsufficientReserve, however buys, sells, fee changes and truncations   *)
(* interleave.                                                             *)
Solvent == market.winner = NoWinner =>
             \A s \in Side : quoteVault[s] >= ReserveIntegral(circulating[s])

(* Every minted token is in its vault, in the pool or with the public, and *)
(* the supply the curve prices is what the public holds.  The test         *)
(* capital-efficiency.ts asks this of buys and sells; here it is asked of  *)
(* graduation and of the draw's sells as well.                             *)
TokensConserved ==
  market.status # "Uninitialized" =>
    \A s \in Side :
      /\ held[s] = circulating[s]
      /\ tokenVault[s] + held[s]
           + (IF market.winner = s THEN pool.tokens ELSE 0)
         = TOTAL_SUPPLY_PER_SIDE

(* The samples taken fit in the window one interval apart, however many    *)
(* crankers race: what bounds the accumulators and makes each sample of    *)
(* equal weight in the average.                                            *)
SampleBudget ==
  market.twap_samples_count > 0 =>
    /\ WindowStart(market)
         + (market.twap_samples_count - 1) * market.twap_interval
       <= market.last_sample_ts
    /\ market.last_sample_ts <= market.deadline

(* A winner is what the final accumulators say, was sampled often enough,  *)
(* and left nothing behind in the vaults of either side: nothing that runs *)
(* after the resolution disturbs the record it was decided on.             *)
GraduationComplete ==
  market.winner # NoWinner =>
    /\ market.twap_samples_count >= MinSamples(market)
    /\ \A s \in Side : /\ market.final_twap[s] = FinalTwap(s)
                       /\ quoteVault[s] = 0
    /\ market.final_twap[market.winner]
         >= market.final_twap[Other(market.winner)]
    /\ pool.quote >= MIN_GRADUATION_RESERVE /\ pool.tokens > 0

(* After a draw the quote vault of a side with tokens out stays open and   *)
(* covers them, whoever closes vaults in between.                          *)
DrawCovered ==
  Drawn => \A s \in Side :
             held[s] > 0 => /\ s \in openQuote
                            /\ quoteVault[s] >= SolOut(held[s], circulating[s])

(* The accounts of a market are not closed under a holder of its tokens.   *)
NobodyStranded == market.status = "Closed" => \A s \in Side : held[s] = 0

(* From the deadline to the resolution the reserves and supplies stand     *)
(* still: the tiebreaker reads the reserves at the deadline (THESIS.md,    *)
(* "Resolution rule").                                                     *)
FrozenFromDeadline ==
  [][Unresolved /\ now >= market.deadline /\ Unresolved'
       => UNCHANGED <<circulating, quoteVault>>]_vars

(* Status only moves forward, a winner is final, and a side wins only      *)
(* after being observed (SPEC.md SM-1, SM-2).                              *)
Stages == INSTANCE Lifecycle WITH status <- market.status,
                                  winner <- market.winner,
                                  Reusable <- FALSE
LifecycleKept == Stages!Spec

(* Every market is resolved in the end: no pause, no missing sample and no *)
(* reserve below the graduation minimum keeps it open for ever.            *)
EventuallyResolved == Unresolved ~> Resolved
=============================================================================
