----------------------------- MODULE Market_proofs -----------------------------
(***************************************************************************)
(* The safety properties of a market, for every curve, configuration,      *)
(* clock and set of arguments the assumptions allow.                       *)
(***************************************************************************)
EXTENDS Market, Arithmetic_proofs

(* What the properties need beyond themselves: an account that does not    *)
(* exist has no history, only a resolved market has a winner, only an      *)
(* observed market has samples, and vaults stay open while they are used.  *)
Blank ==
  market.status = "Uninitialized" =>
    /\ market.winner = NoWinner /\ market.twap_samples_count = 0
    /\ circulating = [s \in Side |-> 0] /\ held = [s \in Side |-> 0]
    /\ quoteVault = [s \in Side |-> 0]

StatusFits ==
  /\ market.winner # NoWinner => market.status \in {"Resolved", "Closed"}
  /\ market.status = "Active" => market.twap_samples_count = 0
  /\ market.twap_samples_count > 0 => market.last_sample_ts > 0

VaultsUsable ==
  /\ Unresolved => openQuote = Side
  /\ Drawn => \A s \in Side : held[s] > 0 => s \in openQuote

MarketInv == /\ TypeOK /\ Blank /\ StatusFits /\ VaultsUsable
             /\ TokensConserved /\ Solvent /\ SampleBudget
             /\ GraduationComplete /\ NobodyStranded

LEMMA MarketInit == Init => MarketInv
<1> SUFFICES ASSUME Init PROVE MarketInv
  OBVIOUS
<1>1. config \in Config
  BY ConfigInitTyped DEF Init
<1>2. TypeOK
  BY <1>1, MarketAssumption, CurveAssumption
     DEF Init, TypeOK, MarketType, Supplies, Side
<1>3. Solvent
  BY ReserveOfNothing DEF Init, Solvent
<1> QED
  BY <1>2, <1>3, MarketAssumption
     DEF Init, MarketInv, Blank, StatusFits, VaultsUsable, TokensConserved,
         SampleBudget, GraduationComplete, NobodyStranded, Unresolved, Drawn,
         Resolved

-----------------------------------------------------------------------------
(* The types of the market's fields, the form in which the steps use them. *)
LEMMA MarketFields ==
  ASSUME TypeOK
  PROVE  /\ market.winner \in Side \cup {NoWinner}
         /\ market.deadline \in Nat /\ market.twap_window \in Nat
         /\ market.twap_interval \in Nat \ {0}
         /\ market.twap_samples_count \in Nat
         /\ market.last_sample_ts \in Nat
         /\ market.final_twap \in [Side -> Nat]
         /\ market.status \in {"Uninitialized", "Active", "TwapObservation",
                               "Resolved", "Closed"}
BY DEF TypeOK, MarketType

(* Supplies are natural numbers, with prices and reserves that are too.    *)
LEMMA SupplyFacts ==
  ASSUME NEW k \in Supplies
  PROVE  /\ k \in Nat /\ k <= TOTAL_SUPPLY_PER_SIDE
         /\ Price(k) \in Nat /\ ReserveIntegral(k) \in Nat
         /\ k <= ReserveIntegral(k)
<1>1. k \in Nat /\ k <= TOTAL_SUPPLY_PER_SIDE
  BY CurveAssumption DEF Supplies
<1>2. /\ ReserveIntegral(0) + (k - 0) <= ReserveIntegral(k)
      /\ ReserveIntegral(k) \in Nat
  BY <1>1, ReserveGrows
<1> QED
  BY <1>1, <1>2, PriceMonotone, ReserveOfNothing

(* What trading may rely on while there is no winner.                      *)
LEMMA Undecided ==
  ASSUME MarketInv, market.winner = NoWinner,
         market.status # "Uninitialized", NEW s \in Side
  PROVE  /\ circulating[s] \in Supplies /\ quoteVault[s] \in Nat
         /\ held[s] = circulating[s]
         /\ tokenVault[s] = TOTAL_SUPPLY_PER_SIDE - circulating[s]
         /\ quoteVault[s] >= ReserveIntegral(circulating[s])
<1>1. /\ circulating[s] \in Supplies /\ held[s] \in Supplies
      /\ tokenVault[s] \in Supplies /\ quoteVault[s] \in Nat
      /\ TOTAL_SUPPLY_PER_SIDE \in Nat
  BY CurveAssumption DEF MarketInv, TypeOK
<1>2. circulating[s] \in Int /\ tokenVault[s] \in Int /\ held[s] \in Int
  BY <1>1 DEF Supplies
<1>3. market.winner # s
  BY MarketAssumption
<1>4. /\ held[s] = circulating[s]
      /\ tokenVault[s] + held[s] + 0 = TOTAL_SUPPLY_PER_SIDE
  BY <1>3 DEF MarketInv, TokensConserved
<1>5. quoteVault[s] >= ReserveIntegral(circulating[s])
  BY DEF MarketInv, Solvent
<1> QED
  BY <1>1, <1>2, <1>4, <1>5

(* An unresolved market has no winner and exists.                          *)
LEMMA UnresolvedUndecided ==
  ASSUME MarketInv, Unresolved
  PROVE  market.winner = NoWinner /\ market.status # "Uninitialized"
           /\ market.status # "Closed"
BY DEF MarketInv, StatusFits, Unresolved

(* What a buy does to the invariant.                                       *)
LEMMA BuyKeeps ==
  ASSUME MarketInv, NEW s \in Side, NEW q \in Quotes, NEW t \in Supplies,
         BuyTokens(s, q, t)
  PROVE  MarketInv'
<1> DEFINE net == NetOfFee(q)
<1>1. net \in Nat
  BY FeesAddUp, MarketAssumption DEF MarketInv, TypeOK
<1>2. /\ Unresolved
      /\ market' = market /\ accumulator' = accumulator /\ config' = config
      /\ now' = now /\ openToken' = openToken /\ openQuote' = openQuote
      /\ pool' = pool
      /\ quoteVault' = [quoteVault EXCEPT ![s] = @ + net]
      /\ tokenVault' = [tokenVault EXCEPT ![s] = @ - t]
      /\ held' = [held EXCEPT ![s] = @ + t]
      /\ circulating' = [circulating EXCEPT ![s] = @ + t]
  BY DEF BuyTokens, BuyInto, TradingOpen
<1>3. /\ t \in Nat /\ circulating[s] \in Nat
      /\ circulating[s] + t \in Supplies
      /\ Cost(circulating[s], t) <= net
  BY SupplyFacts, CurveAssumption
     DEF BuyTokens, IsTokensOut, MarketInv, TypeOK, Supplies
<1> HIDE DEF net
<1>4. /\ market.winner = NoWinner /\ market.status # "Uninitialized"
      /\ \A r \in Side :
           /\ circulating[r] \in Supplies /\ quoteVault[r] \in Nat
           /\ held[r] = circulating[r]
           /\ tokenVault[r] = TOTAL_SUPPLY_PER_SIDE - circulating[r]
           /\ quoteVault[r] >= ReserveIntegral(circulating[r])
  BY <1>2, Undecided, UnresolvedUndecided
<1>5. TypeOK'
  <2>1. held'[s] = circulating[s] + t /\ tokenVault'[s] \in Supplies
    BY <1>2, <1>3, <1>4, CurveAssumption
       DEF MarketInv, TypeOK, Supplies
  <2> QED
    BY <1>1, <1>2, <1>3, <1>4, <2>1 DEF MarketInv, TypeOK
<1>6. Solvent'
  <2>1. ReserveIntegral(circulating[s] + t) \in Nat
          /\ ReserveIntegral(circulating[s]) \in Nat
    BY <1>3, SupplyFacts DEF MarketInv, TypeOK
  <2>2. quoteVault[s] + net >= ReserveIntegral(circulating[s] + t)
    BY <1>1, <1>3, <1>4, <2>1 DEF Cost, MarketInv, TypeOK
  <2> QED
    BY <1>2, <1>4, <2>2 DEF Solvent, MarketInv, TypeOK
<1>7. TokensConserved'
  BY <1>2, <1>3, <1>4, MarketAssumption, CurveAssumption
     DEF TokensConserved, MarketInv, TypeOK, Supplies
<1>8. UNCHANGED <<market, openQuote>> /\ Unresolved /\ Unresolved'
  BY <1>2 DEF Unresolved
<1> QED
  BY <1>4, <1>5, <1>6, <1>7, <1>8
     DEF MarketInv, Blank, StatusFits, VaultsUsable, SampleBudget,
         GraduationComplete, NobodyStranded, Unresolved, Drawn, Resolved,
         WindowStart

(* What giving tokens back at the curve's price does to the invariant.     *)
LEMMA SellKeeps ==
  ASSUME MarketInv, market.winner = NoWinner,
         market.status \notin {"Uninitialized", "Closed"},
         NEW s \in Side, NEW t \in Supplies,
         SellBack(s, t, SolOut(t, circulating[s]))
  PROVE  MarketInv'
<1> DEFINE payout == SolOut(t, circulating[s])
<1>1. /\ market' = market /\ accumulator' = accumulator /\ config' = config
      /\ now' = now /\ openToken' = openToken /\ openQuote' = openQuote
      /\ pool' = pool
      /\ quoteVault' = [quoteVault EXCEPT ![s] = @ - payout]
      /\ tokenVault' = [tokenVault EXCEPT ![s] = @ + t]
      /\ held' = [held EXCEPT ![s] = @ - t]
      /\ circulating' = [circulating EXCEPT ![s] = @ - t]
      /\ t > 0 /\ t <= circulating[s] /\ quoteVault[s] >= payout
  BY DEF SellBack
<1>2. \A r \in Side :
        /\ circulating[r] \in Supplies /\ quoteVault[r] \in Nat
        /\ held[r] = circulating[r]
        /\ tokenVault[r] = TOTAL_SUPPLY_PER_SIDE - circulating[r]
        /\ quoteVault[r] >= ReserveIntegral(circulating[r])
  BY Undecided
<1>3. /\ t \in Nat /\ circulating[s] \in Nat
      /\ circulating[s] - t \in Supplies
  BY <1>1, <1>2, SupplyFacts, CurveAssumption DEF Supplies
<1>4. /\ ReserveIntegral(circulating[s]) \in Nat
      /\ ReserveIntegral(circulating[s] - t) \in Nat
      /\ payout = ReserveIntegral(circulating[s])
                    - ReserveIntegral(circulating[s] - t)
  BY <1>2, <1>3, SupplyFacts DEF SolOut
<1> HIDE DEF payout
<1>5. TypeOK'
  <2>1. /\ held'[s] = circulating[s] - t
        /\ tokenVault'[s] = TOTAL_SUPPLY_PER_SIDE - (circulating[s] - t)
    BY <1>1, <1>2, <1>3, CurveAssumption DEF MarketInv, TypeOK
  <2>2. tokenVault'[s] \in Supplies
    BY <1>3, <2>1, CurveAssumption DEF Supplies
  <2>3. quoteVault[s] - payout \in Nat
    BY <1>1, <1>2, <1>4
  <2> QED
    BY <1>1, <1>2, <1>3, <2>1, <2>2, <2>3 DEF MarketInv, TypeOK
<1>6. Solvent'
  <2>1. quoteVault[s] - payout >= ReserveIntegral(circulating[s] - t)
    BY <1>2, <1>4
  <2> QED
    BY <1>1, <1>2, <2>1 DEF Solvent, MarketInv, TypeOK
<1>7. TokensConserved'
  BY <1>1, <1>2, <1>3, MarketAssumption, CurveAssumption
     DEF TokensConserved, MarketInv, TypeOK, Supplies
<1>8. VaultsUsable'
  <2>1. \A r \in Side : held'[r] > 0 => held[r] > 0
    BY <1>1, <1>2, <1>3 DEF MarketInv, TypeOK
  <2> QED
    BY <1>1, <2>1
       DEF MarketInv, VaultsUsable, Unresolved, Drawn, Resolved
<1> QED
  BY <1>1, <1>5, <1>6, <1>7, <1>8
     DEF MarketInv, Blank, StatusFits, SampleBudget, GraduationComplete,
         NobodyStranded, WindowStart

LEMMA SellTokensKeeps ==
  ASSUME MarketInv, NEW s \in Side, NEW t \in Supplies, SellTokens(s, t)
  PROVE  MarketInv'
<1> DEFINE raw == SolOut(t, circulating[s])
<1>1. Unresolved /\ t <= circulating[s]
      /\ SellBack(s, t, NetOfFee(raw) + ProtocolFee(raw) + CreatorFee(raw))
  BY DEF SellTokens, TradingOpen, SellBack
<1>2. market.winner = NoWinner /\ market.status \notin {"Uninitialized", "Closed"}
  BY <1>1, UnresolvedUndecided
<1>3. raw \in Nat
  <2>1. /\ circulating[s] \in Nat /\ t \in Nat
        /\ circulating[s] - t \in Nat
    BY <1>1, SupplyFacts DEF MarketInv, TypeOK
  <2>2. /\ ReserveIntegral(circulating[s] - t) \in Nat
        /\ ReserveIntegral(circulating[s] - t)
             + (circulating[s] - (circulating[s] - t))
           <= ReserveIntegral(circulating[s])
        /\ ReserveIntegral(circulating[s]) \in Nat
    BY <2>1, ReserveGrows
  <2> QED
    BY <2>1, <2>2 DEF SolOut
<1> HIDE DEF raw
<1>4. NetOfFee(raw) + ProtocolFee(raw) + CreatorFee(raw) = raw
  BY <1>3, FeesAddUp DEF MarketInv, TypeOK
<1>5. SellBack(s, t, raw)
  BY <1>1, <1>4
<1> QED
  BY <1>2, <1>5, SellKeeps DEF raw

LEMMA SellPostResolutionKeeps ==
  ASSUME MarketInv, NEW s \in Side, NEW t \in Supplies,
         SellPostResolution(s, t)
  PROVE  MarketInv'
BY SellKeeps DEF SellPostResolution, Drawn, Resolved

-----------------------------------------------------------------------------
LEMMA InitializeKeeps ==
  ASSUME MarketInv, NEW d \in Deadlines, NEW w \in Windows, NEW i \in Intervals,
         InitializeMarket(d, w, i)
  PROVE  MarketInv'
<1>1. /\ market.status = "Uninitialized"
      /\ market' = [market EXCEPT !.status = "Active", !.deadline = d,
                                  !.twap_window = w, !.twap_interval = i]
      /\ tokenVault' = [s \in Side |-> TOTAL_SUPPLY_PER_SIDE]
      /\ openToken' = Side /\ openQuote' = Side
      /\ UNCHANGED <<now, config, circulating, accumulator, quoteVault, held,
                     pool>>
      /\ d \in Nat /\ w \in Nat /\ i \in Nat \ {0}
  BY MarketAssumption DEF InitializeMarket, ValidTerms, sideVars
<1>2. /\ market'.status = "Active" /\ market'.winner = NoWinner
      /\ market'.twap_samples_count = 0
      /\ market' \in MarketType
  BY <1>1 DEF MarketInv, TypeOK, MarketType, Blank
<1>3. /\ circulating = [s \in Side |-> 0] /\ held = [s \in Side |-> 0]
      /\ quoteVault = [s \in Side |-> 0]
  BY <1>1 DEF MarketInv, Blank
<1>4. TypeOK'
  BY <1>1, <1>2, CurveAssumption DEF MarketInv, TypeOK, Supplies
<1>5. Solvent'
  BY <1>1, <1>3, ReserveOfNothing DEF Solvent
<1>6. TokensConserved'
  BY <1>1, <1>2, <1>3, MarketAssumption, CurveAssumption
     DEF TokensConserved
<1> QED
  BY <1>1, <1>2, <1>3, <1>4, <1>5, <1>6
     DEF MarketInv, Blank, StatusFits, VaultsUsable, SampleBudget,
         GraduationComplete, NobodyStranded, Unresolved, Drawn, Resolved

LEMMA SampleKeeps ==
  ASSUME MarketInv, RecordTwapSample
  PROVE  MarketInv'
<1> DEFINE n == market.twap_samples_count
<1>1. /\ Unresolved /\ InTwapWindow(market, now)
      /\ IntervalElapsed(market, market.last_sample_ts, now)
      /\ accumulator' = [s \in Side |-> accumulator[s] + Price(circulating[s])]
      /\ market' = [market EXCEPT !.status = "TwapObservation",
                                  !.twap_samples_count = @ + 1,
                                  !.last_sample_ts = now]
      /\ UNCHANGED <<now, config, circulating, vaultVars>>
  BY DEF RecordTwapSample, TakeSample
<1>2. /\ market.winner = NoWinner
      /\ now \in Nat \ {0} /\ n \in Nat
      /\ market.deadline \in Nat /\ market.twap_window \in Nat
      /\ market.twap_interval \in Nat \ {0} /\ market.last_sample_ts \in Nat
      /\ market \in MarketType
  BY <1>1, UnresolvedUndecided, MarketFields DEF MarketInv, TypeOK
<1>3. /\ market'.status = "TwapObservation"
      /\ market'.winner = NoWinner
      /\ market'.twap_samples_count = n + 1
      /\ market'.last_sample_ts = now
      /\ market'.deadline = market.deadline
      /\ market'.twap_window = market.twap_window
      /\ market'.twap_interval = market.twap_interval
      /\ market' \in MarketType
  <2>1. n + 1 \in Nat
    BY <1>2
  <2> HIDE DEF n
  <2>2. market' = [market EXCEPT !.status = "TwapObservation",
                                 !.twap_samples_count = n + 1,
                                 !.last_sample_ts = now]
    BY <1>1 DEF n
  <2>3. market' \in MarketType
    BY <1>2, <2>1, <2>2 DEF MarketType
  <2> QED
    BY <1>2, <2>2, <2>3 DEF MarketType
<1>4. TypeOK'
  <2>1. \A s \in Side : accumulator[s] + Price(circulating[s]) \in Nat
    BY SupplyFacts DEF MarketInv, TypeOK
  <2> QED
    BY <1>1, <1>3, <2>1 DEF MarketInv, TypeOK, vaultVars
<1>5. SampleBudget'
  <2>1. /\ n > 0 => market.last_sample_ts > 0
        /\ n > 0 => WindowStart(market) + (n - 1) * market.twap_interval
                      <= market.last_sample_ts
    BY DEF MarketInv, StatusFits, SampleBudget
  <2>2. /\ WindowStart(market) + ((n + 1) - 1) * market.twap_interval <= now
        /\ now <= market.deadline
    BY <1>1, <1>2, <2>1, OneMoreSampleFits
  <2>3. WindowStart(market') = WindowStart(market)
    BY <1>3 DEF WindowStart
  <2> QED
    BY <1>1, <1>3, <2>2, <2>3 DEF SampleBudget, WindowStart
<1>6. StatusFits'
  BY <1>1, <1>2, <1>3 DEF StatusFits
<1>7. VaultsUsable'
  BY <1>1, <1>3 DEF MarketInv, VaultsUsable, Unresolved, Drawn, Resolved,
                    vaultVars
<1>8. Solvent' /\ TokensConserved'
  BY <1>1, <1>2, <1>3, UnresolvedUndecided
     DEF MarketInv, Solvent, TokensConserved, vaultVars
<1> QED
  BY <1>3, <1>4, <1>5, <1>6, <1>7, <1>8
     DEF MarketInv, Blank, GraduationComplete, NobodyStranded

LEMMA GraduateKeeps ==
  ASSUME MarketInv, NEW w \in Side, ResolveAndGraduate(w)
  PROVE  MarketInv'
<1>1. /\ Unresolved
      /\ market.twap_samples_count >= MinSamples(market)
      /\ Leads(w)
      /\ quoteVault[0] + quoteVault[1] >= MIN_GRADUATION_RESERVE
      /\ tokenVault[w] > 0
      /\ pool' = [quote |-> quoteVault[0] + quoteVault[1],
                  tokens |-> tokenVault[w]]
      /\ tokenVault' = [tokenVault EXCEPT ![w] = 0]
      /\ market' = [market EXCEPT !.status = "Resolved", !.winner = w,
                                  !.final_twap = [s \in Side |-> FinalTwap(s)]]
      /\ quoteVault' = [s \in Side |-> 0]
      /\ UNCHANGED <<now, config, circulating, accumulator, openToken,
                     openQuote, held>>
  BY DEF ResolveAndGraduate, Graduate, sideVars
<1>2. /\ market.winner = NoWinner
      /\ market.status # "Uninitialized" /\ w # NoWinner
      /\ market \in MarketType
      /\ \A s \in Side : /\ quoteVault[s] \in Nat
                         /\ circulating[s] \in Nat
                         /\ held[s] = circulating[s]
                         /\ tokenVault[s]
                              = TOTAL_SUPPLY_PER_SIDE - circulating[s]
  BY <1>1, UnresolvedUndecided, Undecided, SupplyFacts, MarketAssumption
     DEF MarketInv, TypeOK
<1>3. market.twap_samples_count \in Nat \ {0}
  BY <1>1, MarketFields, MinSamplesPositive DEF MarketInv
<1>4. \A s \in Side : FinalTwap(s) \in Nat
  BY <1>3, DivNat DEF FinalTwap, MarketInv, TypeOK
<1>5. /\ market'.status = "Resolved" /\ market'.winner = w
      /\ \A s \in Side : market'.final_twap[s] = FinalTwap(s)
      /\ market'.twap_samples_count = market.twap_samples_count
      /\ market'.last_sample_ts = market.last_sample_ts
      /\ market'.deadline = market.deadline
      /\ market'.twap_window = market.twap_window
      /\ market'.twap_interval = market.twap_interval
      /\ market' \in MarketType
  BY <1>1, <1>2, <1>4 DEF MarketType
<1>6. TypeOK'
  <2>1. quoteVault[0] + quoteVault[1] \in Nat /\ 0 \in Supplies
    BY <1>2, CurveAssumption DEF Side, Supplies
  <2> QED
    BY <1>1, <1>5, <2>1 DEF MarketInv, TypeOK
<1>7. TokensConserved'
  <2> SUFFICES ASSUME NEW s \in Side
               PROVE  /\ held'[s] = circulating'[s]
                      /\ tokenVault'[s] + held'[s]
                           + (IF market'.winner = s THEN pool'.tokens ELSE 0)
                         = TOTAL_SUPPLY_PER_SIDE
    BY DEF TokensConserved
  <2>1. tokenVault \in [Side -> Supplies] /\ TOTAL_SUPPLY_PER_SIDE \in Nat
    BY CurveAssumption DEF MarketInv, TypeOK
  <2>2. CASE s = w
    BY <1>1, <1>2, <1>5, <2>1, <2>2
  <2>3. CASE s # w
    BY <1>1, <1>2, <1>5, <2>1, <2>3
  <2> QED
    BY <2>2, <2>3
<1>8. GraduationComplete'
  <2>1. FinalTwap(w) >= FinalTwap(Other(w))
    BY <1>1, <1>4 DEF Leads, Other, Side
  <2>2. MinSamples(market') = MinSamples(market)
    BY <1>5 DEF MinSamples
  <2>3. \A s \in Side : FinalTwap(s)' = FinalTwap(s)
    BY <1>1, <1>5 DEF FinalTwap
  <2>4. Other(w) \in Side
    BY DEF Other, Side
  <2> QED
    BY <1>1, <1>5, <2>1, <2>2, <2>3, <2>4
       DEF GraduationComplete, MinSamples, FinalTwap
<1>9. SampleBudget'
  BY <1>1, <1>5 DEF MarketInv, SampleBudget, WindowStart
<1>10. VaultsUsable' /\ StatusFits' /\ Blank' /\ NobodyStranded' /\ Solvent'
  BY <1>2, <1>5, <1>1
     DEF MarketInv, VaultsUsable, StatusFits, Blank, NobodyStranded, Solvent,
         Unresolved, Drawn, Resolved
<1> QED
  BY <1>6, <1>7, <1>8, <1>9, <1>10 DEF MarketInv

LEMMA EmergencyKeeps ==
  ASSUME MarketInv, EmergencyResolve
  PROVE  MarketInv'
<1>1. /\ Unresolved
      /\ market' = [market EXCEPT !.status = "Resolved", !.winner = NoWinner,
                                  !.final_twap = [s \in Side |-> 0]]
      /\ UNCHANGED <<now, config, circulating, accumulator, tokenVault,
                     quoteVault, openToken, openQuote, held, pool>>
  BY DEF EmergencyResolve, DeclareDraw, sideVars, vaultVars
<1>2. /\ market.winner = NoWinner /\ market.status # "Uninitialized"
      /\ market \in MarketType
  BY <1>1, UnresolvedUndecided DEF MarketInv, TypeOK
<1>3. /\ market'.status = "Resolved" /\ market'.winner = NoWinner
      /\ market'.twap_samples_count = market.twap_samples_count
      /\ market'.last_sample_ts = market.last_sample_ts
      /\ market'.deadline = market.deadline
      /\ market'.twap_window = market.twap_window
      /\ market'.twap_interval = market.twap_interval
      /\ market' \in MarketType
  BY <1>1, <1>2 DEF MarketType
<1>4. TypeOK'
  BY <1>1, <1>3 DEF MarketInv, TypeOK
<1>5. Solvent' /\ TokensConserved'
  BY <1>1, <1>2, <1>3 DEF MarketInv, Solvent, TokensConserved
<1> QED
  BY <1>1, <1>2, <1>3, <1>4, <1>5
     DEF MarketInv, Blank, StatusFits, VaultsUsable, SampleBudget,
         GraduationComplete, NobodyStranded, Unresolved, Drawn, Resolved,
         WindowStart

(* A quote vault that still backs tokens is not empty, so it stays open.   *)
LEMMA CloseQuoteVaultKeeps ==
  ASSUME MarketInv, NEW c \in Side, CloseQuoteVault(c)
  PROVE  MarketInv'
<1>1. /\ Resolved
      /\ openQuote' = IF quoteVault[c] = 0 THEN openQuote \ {c} ELSE openQuote
      /\ openToken' \subseteq openToken
      /\ UNCHANGED <<now, config, market, circulating, accumulator, tokenVault,
                     quoteVault, held, pool>>
  BY DEF CloseQuoteVault, sideVars
<1>2. ASSUME Drawn, NEW s \in Side, held[s] > 0
      PROVE  s \in openQuote'
  <2>1. /\ s \in openQuote
        /\ circulating[s] \in Supplies /\ quoteVault[s] \in Nat
        /\ held[s] = circulating[s]
        /\ quoteVault[s] >= ReserveIntegral(circulating[s])
    BY <1>1, <1>2, Undecided DEF MarketInv, VaultsUsable, Drawn, Resolved
  <2>2. quoteVault[s] # 0
    BY <1>2, <2>1, SupplyFacts
  <2> QED
    BY <1>1, <2>1, <2>2
<1>3. VaultsUsable'
  BY <1>1, <1>2 DEF VaultsUsable, Unresolved, Drawn, Resolved
<1> QED
  BY <1>1, <1>3
     DEF MarketInv, TypeOK, Blank, StatusFits, TokensConserved, Solvent,
         SampleBudget, GraduationComplete, NobodyStranded, FinalTwap,
         WindowStart

LEMMA CloseMarketKeeps ==
  ASSUME MarketInv, CloseMarket
  PROVE  MarketInv'
<1>1. /\ Resolved
      /\ \A s \in Side : circulating[s] = 0
      /\ market' = [market EXCEPT !.status = "Closed"]
      /\ UNCHANGED <<now, config, circulating, accumulator, tokenVault,
                     quoteVault, openToken, openQuote, held, pool>>
  BY DEF CloseMarket, sideVars, vaultVars
<1>2. /\ market.status = "Resolved" /\ market \in MarketType
      /\ \A s \in Side : held[s] = 0
  BY <1>1 DEF MarketInv, TypeOK, TokensConserved, Resolved
<1>3. /\ market'.status = "Closed" /\ market'.winner = market.winner
      /\ market'.twap_samples_count = market.twap_samples_count
      /\ market'.last_sample_ts = market.last_sample_ts
      /\ market'.deadline = market.deadline
      /\ market'.twap_window = market.twap_window
      /\ market'.twap_interval = market.twap_interval
      /\ market'.final_twap = market.final_twap
      /\ market' \in MarketType
  BY <1>1, <1>2 DEF MarketType
<1>4. TypeOK'
  BY <1>1, <1>3 DEF MarketInv, TypeOK
<1>5. Solvent' /\ TokensConserved'
  BY <1>1, <1>2, <1>3 DEF MarketInv, Solvent, TokensConserved
<1>6. GraduationComplete'
  <2>1. MinSamples(market') = MinSamples(market)
    BY <1>3 DEF MinSamples
  <2>2. \A s \in Side : FinalTwap(s)' = FinalTwap(s)
    BY <1>1, <1>3 DEF FinalTwap
  <2> QED
    BY <1>1, <1>3, <2>1, <2>2
       DEF MarketInv, GraduationComplete, MinSamples, FinalTwap
<1> QED
  BY <1>1, <1>2, <1>3, <1>4, <1>5, <1>6
     DEF MarketInv, Blank, StatusFits, VaultsUsable, SampleBudget,
         NobodyStranded, Unresolved, Drawn, Resolved, WindowStart

LEMMA QuietKeeps ==
  ASSUME MarketInv, Tick \/ UpdateConfig \/ UNCHANGED vars
  PROVE  MarketInv'
<1>1. /\ UNCHANGED <<market, circulating, accumulator, tokenVault, quoteVault,
                     openToken, openQuote, held, pool>>
      /\ now' \in Nat \ {0} /\ config' \in Config
  BY ConfigUpdateTyped
     DEF Tick, UpdateConfig, vars, sideVars, vaultVars, MarketInv, TypeOK
<1> QED
  BY <1>1
     DEF MarketInv, TypeOK, Blank, StatusFits, VaultsUsable, TokensConserved,
         Solvent, SampleBudget, GraduationComplete, NobodyStranded, FinalTwap,
         WindowStart, Unresolved, Drawn, Resolved

LEMMA MarketStep == MarketInv /\ [Next]_vars => MarketInv'
BY BuyKeeps, SellTokensKeeps, SellPostResolutionKeeps, InitializeKeeps,
   SampleKeeps, GraduateKeeps, EmergencyKeeps, CloseQuoteVaultKeeps,
   CloseMarketKeeps, QuietKeeps
   DEF Next, Trade

-----------------------------------------------------------------------------
(* The invariant the theorems below rest on.                               *)
THEOREM MarketInvariant == Spec => []MarketInv
BY MarketInit, MarketStep, PTL DEF Spec

(* Supplies stay within the mint, samples and balances never go below zero *)
(* and every field of the account keeps its type.                          *)
THEOREM MarketTypeCorrect == Spec => []TypeOK
<1>1. MarketInv => TypeOK
  BY DEF MarketInv
<1> QED
  BY <1>1, MarketInvariant, PTL

(* Until there is a winner each vault can buy back what it sold: a seller  *)
(* never meets InsufficientReserve (sell_tokens, sell_post_resolution).    *)
THEOREM MarketSolvent == Spec => []Solvent
<1>1. MarketInv => Solvent
  BY DEF MarketInv
<1> QED
  BY <1>1, MarketInvariant, PTL

(* No token appears or disappears, through trading, graduation and exits.  *)
THEOREM MarketConservesTokens == Spec => []TokensConserved
<1>1. MarketInv => TokensConserved
  BY DEF MarketInv
<1> QED
  BY <1>1, MarketInvariant, PTL

(* Samples are at least an interval apart and inside the window, for any   *)
(* window and interval and any number of crankers.                         *)
THEOREM MarketSampleBudget == Spec => []SampleBudget
<1>1. MarketInv => SampleBudget
  BY DEF MarketInv
<1> QED
  BY <1>1, MarketInvariant, PTL

(* A recorded winner is the one the samples support, and graduation took   *)
(* both reserves.                                                          *)
THEOREM MarketGraduationComplete == Spec => []GraduationComplete
<1>1. MarketInv => GraduationComplete
  BY DEF MarketInv
<1> QED
  BY <1>1, MarketInvariant, PTL

(* The accounts of a market are closed only when nobody holds its tokens.  *)
THEOREM MarketStrandsNobody == Spec => []NobodyStranded
<1>1. MarketInv => NobodyStranded
  BY DEF MarketInv
<1> QED
  BY <1>1, MarketInvariant, PTL

(* After a draw the open quote vaults cover all tokens still held.         *)
THEOREM MarketDrawCovered == Spec => []DrawCovered
<1>1. MarketInv => DrawCovered
  <2> SUFFICES ASSUME MarketInv, Drawn, NEW s \in Side, held[s] > 0
               PROVE  /\ s \in openQuote
                      /\ quoteVault[s] >= SolOut(held[s], circulating[s])
    BY DEF DrawCovered
  <2>1. /\ circulating[s] \in Supplies /\ quoteVault[s] \in Nat
        /\ held[s] = circulating[s]
        /\ quoteVault[s] >= ReserveIntegral(circulating[s])
    BY Undecided DEF Drawn, Resolved
  <2>2. circulating[s] - held[s] = 0 /\ ReserveIntegral(circulating[s]) \in Nat
    BY <2>1, SupplyFacts
  <2>3. SolOut(held[s], circulating[s]) = ReserveIntegral(circulating[s])
    BY <2>2, ReserveOfNothing DEF SolOut
  <2> QED
    BY <2>1, <2>3 DEF MarketInv, VaultsUsable
<1> QED
  BY <1>1, MarketInvariant, PTL

(* From the deadline on nothing but the resolution moves supplies or       *)
(* reserves.                                                               *)
LEMMA FrozenStep ==
  ASSUME MarketInv, Next, Unresolved, now >= market.deadline, Unresolved'
  PROVE  UNCHANGED <<circulating, quoteVault>>
<1>1. ~(now < market.deadline)
  BY MarketFields DEF MarketInv, TypeOK
<1>2. ~TradingOpen /\ ~Drawn /\ ~Resolved
  BY <1>1 DEF TradingOpen, Drawn, Resolved, Unresolved
<1>3. ASSUME NEW w \in Side, ResolveAndGraduate(w)
      PROVE  FALSE
  <2>1. market'.status = "Resolved"
    BY <1>3 DEF ResolveAndGraduate, Graduate, MarketInv, TypeOK, MarketType
  <2> QED
    BY <2>1 DEF Unresolved
<1> QED
  BY <1>2, <1>3
     DEF Next, Trade, Tick, UpdateConfig, InitializeMarket, BuyTokens,
         SellTokens, RecordTwapSample, TakeSample, EmergencyResolve,
         DeclareDraw, SellPostResolution, CloseQuoteVault, CloseMarket,
         sideVars, vaultVars

THEOREM MarketFrozen == Spec => FrozenFromDeadline
<1>1. MarketInv /\ [Next]_vars
        => [Unresolved /\ now >= market.deadline /\ Unresolved'
              => UNCHANGED <<circulating, quoteVault>>]_vars
  BY FrozenStep
<1> QED
  BY <1>1, MarketInvariant, PTL DEF Spec, FrozenFromDeadline

-----------------------------------------------------------------------------
(* Every step of a market is a step of its abstract life or leaves status  *)
(* and winner alone.                                                       *)
LEMMA LifecycleStep ==
  ASSUME MarketInv, [Next]_vars
  PROVE  [Stages!Next]_(Stages!lifecycleVars)
<1> USE DEF Stages!lifecycleVars
<1>t. market \in MarketType
  BY DEF MarketInv, TypeOK
<1>1. ASSUME NEW d \in Deadlines, NEW w \in Windows, NEW i \in Intervals,
             InitializeMarket(d, w, i)
      PROVE  Stages!Create
  BY <1>1, <1>t
     DEF InitializeMarket, Stages!Create, MarketInv, Blank, MarketType
<1>2. ASSUME RecordTwapSample
      PROVE  Stages!Observe \/ UNCHANGED <<market.status, market.winner>>
  BY <1>2, <1>t
     DEF RecordTwapSample, TakeSample, Unresolved, Stages!Observe, MarketType
<1>3. ASSUME NEW w \in Side, ResolveAndGraduate(w)
      PROVE  Stages!Win
  <2>1. market.twap_samples_count # 0
    BY <1>3, MinSamplesPositive, MarketFields
       DEF ResolveAndGraduate, MarketInv
  <2>2. market.status = "TwapObservation"
    BY <1>3, <2>1
       DEF ResolveAndGraduate, Unresolved, MarketInv, StatusFits
  <2>3. market'.status = "Resolved" /\ market'.winner = w
    BY <1>3, <1>t DEF ResolveAndGraduate, Graduate, MarketType
  <2> QED
    BY <2>2, <2>3 DEF Stages!Win, Stages!Side, Side
<1>4. ASSUME EmergencyResolve
      PROVE  Stages!Draw
  BY <1>4, <1>t
     DEF EmergencyResolve, DeclareDraw, Unresolved, Stages!Draw, MarketType
<1>5. ASSUME CloseMarket
      PROVE  Stages!Close
  BY <1>5, <1>t DEF CloseMarket, Resolved, Stages!Close, MarketType
<1>6. ASSUME Tick \/ UpdateConfig \/ Trade \/ UNCHANGED vars
               \/ (\E s \in Side, t \in Supplies : SellPostResolution(s, t))
               \/ (\E s \in Side : CloseQuoteVault(s))
      PROVE  UNCHANGED <<market.status, market.winner>>
  <2>1. UNCHANGED market
    BY <1>6
       DEF Tick, UpdateConfig, Trade, BuyTokens, BuyInto, SellTokens, SellBack,
           SellPostResolution, CloseQuoteVault, vars
  <2> QED
    BY <2>1
<1> QED
  BY <1>1, <1>2, <1>3, <1>4, <1>5, <1>6 DEF Next, Stages!Next

(* A market implements its lifecycle: forward-only status, one resolution, *)
(* a final winner (SPEC.md SM-1, SM-2), for every instance.                *)
THEOREM MarketImplementsLifecycle == Spec => LifecycleKept
<1>1. Init => Stages!Init
  BY DEF Init, Stages!Init
<1>2. MarketInv /\ [Next]_vars => [Stages!Next]_(Stages!lifecycleVars)
  BY LifecycleStep
<1> QED
  BY <1>1, <1>2, MarketInvariant, PTL DEF Spec, LifecycleKept, Stages!Spec
=============================================================================
