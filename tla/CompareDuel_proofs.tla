--------------------------- MODULE CompareDuel_proofs ---------------------------
(***************************************************************************)
(* The safety properties of a duel, for any number of users, duels at the  *)
(* address, amounts and prices: first those that speak of totals, then     *)
(* those that sum over the depositors.                                     *)
(***************************************************************************)
EXTENDS CompareDuel, Arithmetic_proofs

(* What the properties need beyond themselves: nothing is left of a closed *)
(* account, vaults hold the totals until the resolution, only a resolved   *)
(* duel has a winner and only an observed one has samples.                 *)
ClosedIsBlank == ~Live => duel = NoDuel

PotsMatch == Unresolved => pot = total /\ paidOut = 0

StatusFits ==
  /\ duel.winner # NoWinner => duel.status = "Resolved"
  /\ duel.status = "Active" => duel.twap_samples_count = 0
  /\ duel.twap_samples_count > 0 => duel.last_sample_ts > 0

DuelInv == /\ TypeOK /\ ClosedIsBlank /\ PotsMatch /\ StatusFits
           /\ NetPoolExact /\ SampleBudget /\ WinnerJustified

(* Truncating division by the same divisor keeps the order.                *)
LEMMA QuotientMonotone ==
  ASSUME NEW a \in Nat, NEW b \in Nat, NEW d \in Nat \ {0}, a <= b
  PROVE  a \div d \in Nat /\ a \div d <= b \div d /\ a \div d <= a
OBVIOUS

(* Whatever an oracle account says, the program reads a price of 64 bits   *)
(* or fails.                                                               *)
LEMMA OraclePricesFit == \A p \in OraclePrices : p \in Nat /\ p <= U64_MAX
<1> SUFFICES ASSUME NEW f \in Readable
             PROVE  ScaledPrice(f) \in Nat /\ ScaledPrice(f) <= U64_MAX
  BY DEF OraclePrices
<1>1. /\ f.price \in Nat \ {0} /\ Factor(f) \in Nat \ {0}
      /\ U64_MAX \in Nat /\ ScaledPrice(f) <= U64_MAX
  BY OracleAssumption DEF Readable, Valid, FitsU64
<1>2. ScaledPrice(f) \in Nat
  BY <1>1, QuotientMonotone DEF ScaledPrice
<1> QED
  BY <1>1, <1>2

(* Scaling keeps what a comparison of performances rests on: of two reads  *)
(* of a feed, whose exponent stays, the higher never scales lower; and     *)
(* only a price moved down can scale to 0, never one moved up              *)
(* (scale_price, math/oracle.rs:60-89).                                    *)
THEOREM ScalingKeepsOrder ==
  ASSUME NEW f \in Readable, NEW g \in Readable
  PROVE  /\ f.expo = g.expo /\ f.price <= g.price
              => ScaledPrice(f) <= ScaledPrice(g)
         /\ f.expo >= -PRICE_DECIMALS => ScaledPrice(f) > 0
<1>1. \A h \in Readable :
        /\ h.price \in Nat \ {0} /\ Factor(h) \in Nat \ {0}
        /\ h.expo \in Int /\ PRICE_DECIMALS \in Nat
  BY OracleAssumption DEF Readable, Valid
<1>2. ASSUME f.expo = g.expo, f.price <= g.price
      PROVE  ScaledPrice(f) <= ScaledPrice(g)
  <2>1. Places(f) = Places(g) /\ Factor(f) = Factor(g)
    BY <1>2 DEF Places, Factor
  <2>2. \A a, b \in Nat, d \in Nat \ {0} : a <= b => a * d <= b * d
    OBVIOUS
  <2> QED
    BY <1>1, <1>2, <2>1, <2>2, QuotientMonotone DEF ScaledPrice
<1>3. ASSUME f.expo >= -PRICE_DECIMALS
      PROVE  ScaledPrice(f) > 0
  <2>1. Places(f) >= 0
    BY <1>1, <1>3 DEF Places
  <2>2. \A a, d \in Nat \ {0} : a * d > 0
    OBVIOUS
  <2> QED
    BY <1>1, <2>1, <2>2 DEF ScaledPrice
<1> QED
  BY <1>2, <1>3

LEMMA NoDuelTyped == /\ NoDuel \in DuelType
                     /\ NoDuel.status = "Uninitialized"
                     /\ NoDuel.winner = NoWinner
                     /\ NoDuel.twap_samples_count = 0
BY DEF NoDuel, DuelType

LEMMA DuelInit == Init => DuelInv
<1> SUFFICES ASSUME Init PROVE DuelInv
  OBVIOUS
<1>1. config \in Config
  BY ConfigInitTyped DEF Init
<1>2. TypeOK
  BY <1>1, NoDuelTyped, DuelAssumption
     DEF Init, TypeOK, Zero, NoDeposit, DepositType, Side
<1> QED
  BY <1>2, NoDuelTyped
     DEF Init, DuelInv, ClosedIsBlank, PotsMatch, StatusFits, NetPoolExact,
         SampleBudget, WinnerJustified, Live, Unresolved, Resolved

(* The types of the duel's fields, the form in which the steps use them.   *)
LEMMA DuelFields ==
  ASSUME TypeOK
  PROVE  /\ duel.winner \in Side \cup {NoWinner}
         /\ duel.deadline \in Nat /\ duel.twap_window \in Nat
         /\ duel.twap_interval \in Nat \ {0}
         /\ duel.twap_samples_count \in Nat
         /\ duel.last_sample_ts \in Nat
         /\ duel.net_pool \in Nat /\ duel.min_deposit \in Nat
         /\ duel.status \in {"Uninitialized", "Active", "TwapObservation",
                             "Resolved"}
BY DEF TypeOK, DuelType

(* An unresolved duel has no winner.                                       *)
LEMMA UnresolvedUndecided ==
  ASSUME DuelInv, Unresolved
  PROVE  duel.winner = NoWinner
BY DEF DuelInv, StatusFits, Unresolved

LEMMA PoolTotalNat == ASSUME TypeOK PROVE PoolTotal \in Nat
BY DEF TypeOK, PoolTotal, Side

(* A payout is an amount: no winner is measured against an empty side.     *)
LEMMA PayoutNat ==
  ASSUME DuelInv, Resolved, NEW d \in DepositType
  PROVE  Payout(d) \in Nat
<1>1. d.amount \in Nat /\ d.side \in Side /\ duel.net_pool \in Nat
  BY DuelFields DEF DepositType, DuelInv
<1>2. CASE duel.winner = NoWinner
  BY <1>1, <1>2 DEF Payout
<1>3. CASE duel.winner # NoWinner
  <2>1. total[d.side] \in Nat \ {0}
    BY <1>1, <1>3 DEF DuelInv, WinnerJustified, TypeOK, Side
  <2>2. d.amount * duel.net_pool \in Nat
    BY <1>1
  <2>3. \A a \in Nat, b \in Nat \ {0} : a \div b \in Nat
    OBVIOUS
  <2>4. (d.amount * duel.net_pool) \div total[d.side] \in Nat
    BY <2>1, <2>2, <2>3
  <2> QED
    BY <1>3, <2>4 DEF Payout
<1> QED
  BY <1>2, <1>3

-----------------------------------------------------------------------------
LEMMA CreateKeeps ==
  ASSUME DuelInv, NEW d \in Deadlines, NEW w \in Windows, NEW i \in Intervals,
         NEW m \in MinDeposits, CreateCompareDuel(d, w, i, m)
  PROVE  DuelInv'
<1> DEFINE floor == IF m > 0 THEN m ELSE DEFAULT_MIN_DEPOSIT
<1>1. /\ duel' = [NoDuel EXCEPT !.status = "Active", !.deadline = d,
                                !.twap_window = w, !.twap_interval = i,
                                !.min_deposit = floor]
      /\ total' = Zero /\ start_price' = Zero /\ accumulator' = Zero
      /\ openVault' = Side /\ pot' = Zero
      /\ creations' = creations + 1 /\ paidOut' = 0
      /\ UNCHANGED <<now, config, deposit>>
      /\ d \in Nat /\ w \in Nat /\ i \in Nat \ {0} /\ floor \in Nat
  BY DuelAssumption DEF CreateCompareDuel, MayCreate, FreshDuel, ValidTerms
<1> HIDE DEF floor
<1>2. /\ duel' \in DuelType /\ duel'.status = "Active"
      /\ duel'.winner = NoWinner /\ duel'.twap_samples_count = 0
  BY <1>1 DEF NoDuel, DuelType
<1>3. TypeOK'
  BY <1>1, <1>2 DEF DuelInv, TypeOK, Zero
<1> QED
  BY <1>1, <1>2, <1>3
     DEF DuelInv, ClosedIsBlank, PotsMatch, StatusFits, NetPoolExact,
         SampleBudget, WinnerJustified, Live, Unresolved, Resolved

LEMMA DepositKeeps ==
  ASSUME DuelInv, NEW u \in Users, NEW s \in Side, NEW a \in Amounts,
         DepositSol(u, s, a)
  PROVE  DuelInv'
<1>1. /\ duel.status = "Active"
      /\ pot' = [pot EXCEPT ![s] = @ + a]
      /\ total' = [total EXCEPT ![s] = @ + a]
      /\ deposit' = [deposit EXCEPT ![u] = [side |-> s, amount |-> a,
                                            withdrawn |-> FALSE,
                                            creation |-> creations]]
      /\ UNCHANGED <<now, config, duel, start_price, accumulator, openVault,
                     creations, paidOut>>
      /\ a \in Nat
  BY DuelAssumption DEF DepositSol, Stake, observed
<1>2. [side |-> s, amount |-> a, withdrawn |-> FALSE, creation |-> creations]
        \in DepositType
  BY <1>1 DEF DuelInv, TypeOK, DepositType
<1>3. TypeOK'
  BY <1>1, <1>2 DEF DuelInv, TypeOK
<1>4. PotsMatch'
  BY <1>1 DEF DuelInv, PotsMatch, Unresolved
<1>5. duel.winner = NoWinner
  BY <1>1, UnresolvedUndecided DEF Unresolved
<1> QED
  BY <1>1, <1>3, <1>4, <1>5
     DEF DuelInv, ClosedIsBlank, StatusFits, NetPoolExact, SampleBudget,
         WinnerJustified, Live, Resolved, WindowStart

LEMMA SampleKeeps ==
  ASSUME DuelInv, NEW price \in [Side -> OraclePrices],
         RecordCompareTwap(price)
  PROVE  DuelInv'
<1> DEFINE n == duel.twap_samples_count
<1>1. /\ Unresolved /\ InTwapWindow(duel, now)
      /\ IntervalElapsed(duel, duel.last_sample_ts, now)
      /\ start_price' \in {price, start_price}
      /\ accumulator' = [s \in Side |-> accumulator[s] + price[s]]
      /\ duel' = [duel EXCEPT !.twap_samples_count = n + 1,
                              !.last_sample_ts = now,
                              !.status = "TwapObservation"]
      /\ UNCHANGED <<now, config, total, pot, openVault, deposit, creations,
                     paidOut>>
  BY DEF RecordCompareTwap, TakeSample, moneyVars
<1>2. /\ duel.winner = NoWinner
      /\ now \in Nat \ {0} /\ n \in Nat /\ n + 1 \in Nat
      /\ duel.deadline \in Nat /\ duel.twap_window \in Nat
      /\ duel.twap_interval \in Nat \ {0} /\ duel.last_sample_ts \in Nat
      /\ duel \in DuelType
  BY <1>1, UnresolvedUndecided, DuelFields DEF DuelInv, TypeOK
<1> HIDE DEF n
<1>3. /\ duel'.status = "TwapObservation"
      /\ duel'.winner = NoWinner
      /\ duel'.twap_samples_count = n + 1
      /\ duel'.last_sample_ts = now
      /\ duel'.deadline = duel.deadline
      /\ duel'.twap_window = duel.twap_window
      /\ duel'.twap_interval = duel.twap_interval
      /\ duel' \in DuelType
  <2>1. duel' \in DuelType
    BY <1>1, <1>2 DEF DuelType
  <2> QED
    BY <1>1, <1>2, <2>1 DEF DuelType
<1>4. TypeOK'
  <2>1. price \in [Side -> Nat]
    BY OraclePricesFit
  <2>2. \A s \in Side : accumulator[s] + price[s] \in Nat
    BY <2>1 DEF DuelInv, TypeOK
  <2> QED
    BY <1>1, <1>3, <2>1, <2>2 DEF DuelInv, TypeOK
<1>5. SampleBudget'
  <2>1. /\ n > 0 => duel.last_sample_ts > 0
        /\ n > 0 => WindowStart(duel) + (n - 1) * duel.twap_interval
                      <= duel.last_sample_ts
    BY DEF DuelInv, StatusFits, SampleBudget, n
  <2>2. /\ WindowStart(duel) + ((n + 1) - 1) * duel.twap_interval <= now
        /\ now <= duel.deadline
    BY <1>1, <1>2, <2>1, OneMoreSampleFits
  <2>3. WindowStart(duel') = WindowStart(duel)
    BY <1>3 DEF WindowStart
  <2> QED
    BY <1>1, <1>3, <2>2, <2>3 DEF SampleBudget, WindowStart
<1>6. PotsMatch'
  BY <1>1 DEF DuelInv, PotsMatch
<1> QED
  BY <1>1, <1>2, <1>3, <1>4, <1>5, <1>6
     DEF DuelInv, ClosedIsBlank, StatusFits, NetPoolExact, WinnerJustified,
         Live, Resolved

(* Resolution pays the fees out of the joined vaults, so what is left is   *)
(* net_pool, in the winner's vault.                                        *)
LEMMA ResolveKeeps ==
  ASSUME DuelInv, NEW w \in Side \cup {NoWinner}, ResolveCompare(w)
  PROVE  DuelInv'
<1> DEFINE net == IF w \in Side THEN NetOfFee(PoolTotal) ELSE PoolTotal
<1>1. /\ Unresolved
      /\ duel.twap_samples_count >= MinSamples(duel)
      /\ total[0] > 0 /\ total[1] > 0 /\ Outcome(w)
      /\ pot' = SettlePot(w)
      /\ duel' = [duel EXCEPT !.status = "Resolved", !.winner = w,
                              !.net_pool = net]
      /\ UNCHANGED <<now, config, start_price, accumulator, total, openVault,
                     deposit, creations, paidOut>>
  BY DEF ResolveCompare, observed
<1>2. /\ pot = total /\ paidOut = 0 /\ duel \in DuelType
      /\ total[0] \in Nat /\ total[1] \in Nat
      /\ PoolTotal \in Nat /\ PoolTotal = total[0] + total[1]
      /\ NoWinner \notin Side
  BY <1>1, DuelAssumption
     DEF DuelInv, PotsMatch, TypeOK, PoolTotal, Side
<1>3. /\ NetOfFee(PoolTotal) \in Nat
      /\ ProtocolFee(PoolTotal) \in Nat /\ CreatorFee(PoolTotal) \in Nat
      /\ NetOfFee(PoolTotal) + ProtocolFee(PoolTotal) + CreatorFee(PoolTotal)
           = PoolTotal
  <2>1. /\ TradeFee(PoolTotal) \in 0 .. PoolTotal
        /\ CreatorFee(PoolTotal) \in 0 .. TradeFee(PoolTotal)
        /\ NetOfFee(PoolTotal) \in 0 .. PoolTotal
        /\ ProtocolFee(PoolTotal) \in 0 .. PoolTotal
        /\ NetOfFee(PoolTotal) + ProtocolFee(PoolTotal)
             + CreatorFee(PoolTotal) = PoolTotal
    BY <1>2, FeesAddUp DEF DuelInv, TypeOK
  <2> QED
    BY <1>2, <2>1
<1>4. net \in Nat
  BY <1>2, <1>3
<1>5. /\ pot' \in [Side -> Nat]
      /\ pot'[0] + pot'[1] = net
      /\ w \in Side => pot'[Other(w)] = 0
  <2>1. CASE w = NoWinner
    BY <1>1, <1>2, <2>1 DEF SettlePot, DuelInv, TypeOK
  <2>2. CASE w \in Side
    <3>1. pot' = [s \in Side |-> IF s = w THEN net ELSE 0]
      BY <1>1, <1>2, <1>3, <2>2 DEF SettlePot
    <3> QED
      BY <1>4, <2>2, <3>1 DEF Side, Other
  <2> QED
    BY <2>1, <2>2
<1> HIDE DEF net
<1>6. /\ duel'.status = "Resolved" /\ duel'.winner = w
      /\ duel'.net_pool = net
      /\ duel'.twap_samples_count = duel.twap_samples_count
      /\ duel'.last_sample_ts = duel.last_sample_ts
      /\ duel'.deadline = duel.deadline
      /\ duel'.twap_window = duel.twap_window
      /\ duel'.twap_interval = duel.twap_interval
      /\ duel' \in DuelType
  BY <1>1, <1>2, <1>4 DEF DuelType
<1>7. TypeOK'
  BY <1>1, <1>5, <1>6 DEF DuelInv, TypeOK
<1>8. NetPoolExact'
  BY <1>1, <1>2, <1>4, <1>5, <1>6 DEF NetPoolExact, TypeOK, DuelInv, Side
<1>9. WinnerJustified'
  <2>1. MinSamples(duel') = MinSamples(duel)
    BY <1>6 DEF MinSamples
  <2>2. \A s \in Side : Performance(s)' = Performance(s)
    BY <1>1, <1>6 DEF Performance, FinalTwap
  <2>3. w \in Side => Other(w) \in Side
                      /\ Performance(w) > Performance(Other(w))
    BY <1>1, <1>2 DEF Outcome, Other, Side
  <2> QED
    BY <1>1, <1>6, <2>1, <2>2, <2>3
       DEF WinnerJustified, MinSamples, Performance, FinalTwap
<1> QED
  BY <1>1, <1>6, <1>7, <1>8, <1>9
     DEF DuelInv, ClosedIsBlank, PotsMatch, StatusFits, SampleBudget, Live,
         Unresolved, WindowStart

LEMMA EmergencyKeeps ==
  ASSUME DuelInv, EmergencyResolveCompare
  PROVE  DuelInv'
<1>1. /\ Unresolved
      /\ duel' = [duel EXCEPT !.status = "Resolved", !.winner = NoWinner,
                              !.net_pool = PoolTotal]
      /\ UNCHANGED <<now, config, start_price, accumulator, total, pot,
                     openVault, deposit, creations, paidOut>>
  BY DEF EmergencyResolveCompare, DeclareDraw, observed, moneyVars
<1>2. /\ pot = total /\ paidOut = 0 /\ duel \in DuelType
      /\ total[0] \in Nat /\ total[1] \in Nat
      /\ PoolTotal \in Nat /\ PoolTotal = total[0] + total[1]
  BY <1>1 DEF DuelInv, PotsMatch, TypeOK, PoolTotal, Side
<1>3. /\ duel'.status = "Resolved" /\ duel'.winner = NoWinner
      /\ duel'.net_pool = PoolTotal
      /\ duel'.twap_samples_count = duel.twap_samples_count
      /\ duel'.last_sample_ts = duel.last_sample_ts
      /\ duel'.deadline = duel.deadline
      /\ duel'.twap_window = duel.twap_window
      /\ duel'.twap_interval = duel.twap_interval
      /\ duel' \in DuelType
  BY <1>1, <1>2 DEF DuelType
<1>4. TypeOK'
  BY <1>1, <1>3 DEF DuelInv, TypeOK
<1> QED
  BY <1>1, <1>2, <1>3, <1>4
     DEF DuelInv, ClosedIsBlank, PotsMatch, StatusFits, NetPoolExact,
         SampleBudget, WinnerJustified, Live, Unresolved, Resolved,
         WindowStart

LEMMA WithdrawKeeps ==
  ASSUME DuelInv, NEW u \in Users, Withdraw(u)
  PROVE  DuelInv'
<1> DEFINE d == deposit[u]
           p == Payout(d)
<1>1. /\ Resolved /\ p <= pot[d.side]
      /\ pot' = [pot EXCEPT ![d.side] = @ - p]
      /\ deposit' = [deposit EXCEPT ![u].withdrawn = TRUE]
      /\ paidOut' = paidOut + p
      /\ UNCHANGED <<now, config, duel, start_price, accumulator, total,
                     openVault, creations>>
  BY DEF Withdraw, observed
<1>2. d \in DepositType /\ d.side \in Side
  BY DEF DuelInv, TypeOK, DepositType
<1>3. p \in Nat
  BY <1>1, <1>2, PayoutNat
<1>4. duel.winner # NoWinner /\ d.side # duel.winner => p = 0
  BY DEF Payout
<1> HIDE DEF p
<1>5. /\ pot' \in [Side -> Nat]
      /\ paidOut' + pot'[0] + pot'[1] = paidOut + pot[0] + pot[1]
  BY <1>1, <1>2, <1>3 DEF DuelInv, TypeOK, Side
<1>6. TypeOK'
  <2>1. deposit' \in [Users -> DepositType]
    BY <1>1, <1>2 DEF DuelInv, TypeOK, DepositType
  <2> QED
    BY <1>1, <1>3, <1>5, <2>1 DEF DuelInv, TypeOK
<1>7. NetPoolExact'
  <2>1. paidOut' + pot'[0] + pot'[1] = duel'.net_pool
    BY <1>1, <1>5 DEF DuelInv, NetPoolExact
  <2>2. ASSUME duel'.winner # NoWinner
        PROVE  pot'[Other(duel'.winner)] = 0
    <3>1. duel.winner \in Side /\ Other(duel.winner) \in Side
          /\ pot[Other(duel.winner)] = 0
      BY <1>1, <2>2, DuelFields
         DEF DuelInv, NetPoolExact, Other, Side
    <3>2. d.side = Other(duel.winner) => p = 0
      BY <1>4, <2>2, <1>1, <3>1 DEF Other, Side
    <3> QED
      BY <1>1, <1>2, <1>3, <3>1, <3>2 DEF DuelInv, TypeOK, Other
  <2> QED
    BY <2>1, <2>2 DEF NetPoolExact
<1> QED
  BY <1>1, <1>6, <1>7
     DEF DuelInv, ClosedIsBlank, PotsMatch, StatusFits, SampleBudget,
         WinnerJustified, Live, Unresolved, Resolved, WindowStart, FinalTwap,
         Performance

LEMMA CloseDuelKeeps ==
  ASSUME DuelInv, CloseCompareDuel
  PROVE  DuelInv'
<1>1. /\ duel' = NoDuel
      /\ total' = Zero /\ start_price' = Zero /\ accumulator' = Zero
      /\ openVault' \subseteq openVault /\ paidOut' = 0
      /\ UNCHANGED <<now, config, pot, deposit, creations>>
  BY DEF CloseCompareDuel
<1>2. TypeOK'
  BY <1>1, NoDuelTyped DEF DuelInv, TypeOK, Zero
<1> QED
  BY <1>1, <1>2, NoDuelTyped
     DEF DuelInv, ClosedIsBlank, PotsMatch, StatusFits, NetPoolExact,
         SampleBudget, WinnerJustified, Live, Unresolved, Resolved

LEMMA CloseDepositKeeps ==
  ASSUME DuelInv, NEW u \in Users, CloseDeposit(u)
  PROVE  DuelInv'
<1>1. /\ deposit' = [deposit EXCEPT ![u] = NoDeposit]
      /\ UNCHANGED <<now, config, duel, start_price, accumulator, total, pot,
                     openVault, creations, paidOut>>
      /\ NoDeposit \in DepositType
  BY DEF CloseDeposit, observed, NoDeposit, DepositType, Side
<1>2. TypeOK'
  BY <1>1 DEF DuelInv, TypeOK
<1> QED
  BY <1>1, <1>2
     DEF DuelInv, ClosedIsBlank, PotsMatch, StatusFits, NetPoolExact,
         SampleBudget, WinnerJustified, Live, Unresolved, Resolved,
         WindowStart, FinalTwap, Performance

LEMMA QuietKeeps ==
  ASSUME DuelInv, Tick \/ UpdateConfig \/ UNCHANGED vars
  PROVE  DuelInv'
<1>1. /\ UNCHANGED <<duel, start_price, accumulator, total, pot, openVault,
                     deposit, creations, paidOut>>
      /\ now' \in Nat \ {0} /\ config' \in Config
  BY ConfigUpdateTyped
     DEF Tick, UpdateConfig, vars, observed, moneyVars, DuelInv, TypeOK
<1> QED
  BY <1>1
     DEF DuelInv, TypeOK, ClosedIsBlank, PotsMatch, StatusFits, NetPoolExact,
         SampleBudget, WinnerJustified, Live, Unresolved, Resolved,
         WindowStart, FinalTwap, Performance

LEMMA DuelStep == DuelInv /\ [Next]_vars => DuelInv'
BY CreateKeeps, DepositKeeps, SampleKeeps, ResolveKeeps, EmergencyKeeps,
   WithdrawKeeps, CloseDuelKeeps, CloseDepositKeeps, QuietKeeps
   DEF Next

-----------------------------------------------------------------------------
(* The invariant the theorems below rest on.                               *)
THEOREM DuelInvariant == Spec => []DuelInv
BY DuelInit, DuelStep, PTL DEF Spec

(* Balances, totals and payouts are amounts, never below zero, in every    *)
(* duel that is created at the address.                                    *)
THEOREM DuelTypeCorrect == Spec => []TypeOK
<1>1. DuelInv => TypeOK
  BY DEF DuelInv
<1> QED
  BY <1>1, DuelInvariant, PTL

(* What was paid and what is left is net_pool, and the losing vault is     *)
(* empty (resolve_compare, withdraw): more than net_pool is never paid.    *)
THEOREM DuelNetPoolExact == Spec => []NetPoolExact
<1>1. DuelInv => NetPoolExact
  BY DEF DuelInv
<1> QED
  BY <1>1, DuelInvariant, PTL

(* Samples are at least an interval apart and inside the window.           *)
THEOREM DuelSampleBudget == Spec => []SampleBudget
<1>1. DuelInv => SampleBudget
  BY DEF DuelInv
<1> QED
  BY <1>1, DuelInvariant, PTL

(* A recorded winner had stakes on both sides, enough samples and the      *)
(* better performance, and the record still says so.                       *)
THEOREM DuelWinnerJustified == Spec => []WinnerJustified
<1>1. DuelInv => WinnerJustified
  BY DEF DuelInv
<1> QED
  BY <1>1, DuelInvariant, PTL

(* One step in the life of a deposit.                                      *)
DepositStepOf(u) ==
  \/ deposit'[u] = deposit[u]
  \/ /\ Resolved /\ ~deposit[u].withdrawn
     /\ deposit'[u] = [deposit[u] EXCEPT !.withdrawn = TRUE]
     /\ paidOut' - paidOut = Payout(deposit[u])
  \/ deposit[u].withdrawn /\ deposit'[u] = NoDeposit

LEMMA DepositFateStep ==
  ASSUME DuelInv, [Next]_vars, NEW u \in Users, HasDeposit(u)
  PROVE  DepositStepOf(u)
<1>t. deposit \in [Users -> DepositType] /\ paidOut \in Nat
  BY DEF DuelInv, TypeOK
<1>1. ASSUME NEW v \in Users, NEW s \in Side, NEW a \in Amounts,
             DepositSol(v, s, a)
      PROVE  deposit'[u] = deposit[u]
  BY <1>1, <1>t DEF DepositSol, Stake
<1>2. ASSUME NEW v \in Users, Withdraw(v)
      PROVE  DepositStepOf(u)
  <2>1. CASE v = u
    <3>1. /\ Resolved /\ ~deposit[u].withdrawn
          /\ deposit' = [deposit EXCEPT ![u].withdrawn = TRUE]
          /\ paidOut' = paidOut + Payout(deposit[u])
      BY <1>2, <2>1 DEF Withdraw, Unpaid
    <3>2. Payout(deposit[u]) \in Nat
      BY <1>t, <3>1, PayoutNat
    <3> QED
      BY <1>t, <3>1, <3>2 DEF DepositStepOf
  <2>2. CASE v # u
    BY <1>2, <1>t, <2>2 DEF Withdraw, DepositStepOf
  <2> QED
    BY <2>1, <2>2
<1>3. ASSUME NEW v \in Users, CloseDeposit(v)
      PROVE  DepositStepOf(u)
  BY <1>3, <1>t DEF CloseDeposit, DepositStepOf
<1>4. ASSUME \/ Tick \/ UpdateConfig \/ EmergencyResolveCompare
             \/ CloseCompareDuel \/ UNCHANGED vars
             \/ \E d \in Deadlines, w \in Windows, i \in Intervals,
                   m \in MinDeposits : CreateCompareDuel(d, w, i, m)
             \/ \E price \in [Side -> OraclePrices] : RecordCompareTwap(price)
             \/ \E w \in Side \cup {NoWinner} : ResolveCompare(w)
      PROVE  deposit'[u] = deposit[u]
  BY <1>4
     DEF Tick, UpdateConfig, EmergencyResolveCompare, DeclareDraw,
         CloseCompareDuel, CreateCompareDuel, FreshDuel, RecordCompareTwap,
         TakeSample,
         ResolveCompare, moneyVars, vars
<1> QED
  BY <1>1, <1>2, <1>3, <1>4 DEF Next, DepositStepOf

(* No step changes the side or the amount of a deposit, and none pays it   *)
(* twice or drops it unpaid (SPEC.md goal 7, SM-3).                        *)
THEOREM DuelDepositFate == Spec => DepositFate
<1>1. DuelInv /\ [Next]_vars
        => [\A u \in Users : HasDeposit(u) =>
              \/ deposit'[u] = deposit[u]
              \/ /\ Resolved /\ ~deposit[u].withdrawn
                 /\ deposit'[u] = [deposit[u] EXCEPT !.withdrawn = TRUE]
                 /\ paidOut' - paidOut = Payout(deposit[u])
              \/ deposit[u].withdrawn /\ deposit'[u] = NoDeposit]_vars
  BY DepositFateStep DEF DepositStepOf
<1> QED
  BY <1>1, DuelInvariant, PTL DEF Spec, DepositFate

(* Totals stand still once the window has opened (deposit.rs cutoff).      *)
THEOREM DuelStakesPrecedeSampling == Spec => StakesPrecedeSampling
<1>1. DuelInv /\ [Next]_vars
        => [Unresolved /\ Unresolved' /\ total' # total
              => /\ now < WindowStart(duel)
                 /\ duel.twap_samples_count = 0]_vars
  <2> SUFFICES ASSUME DuelInv, Next, Unresolved, Unresolved', total' # total
               PROVE  /\ now < WindowStart(duel)
                      /\ duel.twap_samples_count = 0
    OBVIOUS
  <2>1. \E u \in Users, s \in Side, a \in Amounts : DepositSol(u, s, a)
    BY DEF Next, Tick, UpdateConfig, EmergencyResolveCompare, DeclareDraw,
           CloseCompareDuel, CreateCompareDuel, MayCreate, RecordCompareTwap,
           TakeSample, ResolveCompare, Withdraw, CloseDeposit, moneyVars, Unresolved,
           Live, Resolved
  <2> QED
    BY <2>1 DEF DepositSol, DuelInv, StatusFits
<1> QED
  BY <1>1, DuelInvariant, PTL DEF Spec, StakesPrecedeSampling

-----------------------------------------------------------------------------
(* Each sample adds at most a price of 64 bits, so with a count of 32 bits *)
(* the 128 bits of an accumulator suffice, and the averages that           *)
(* resolve_compare compares fit 64 bits like the prices they come from     *)
(* (record_compare_twap.rs:76-84, resolve_compare.rs:80-110).              *)
AccumulatorsFit ==
  \A s \in Side : /\ start_price[s] <= U64_MAX
                  /\ accumulator[s] <= duel.twap_samples_count * U64_MAX

LEMMA AccumulatorsFitStep ==
  ASSUME DuelInv, AccumulatorsFit, [Next]_vars
  PROVE  AccumulatorsFit'
<1> DEFINE n == duel.twap_samples_count
<1>1. /\ U64_MAX \in Nat /\ n \in Nat /\ duel \in DuelType
      /\ start_price \in [Side -> Nat] /\ accumulator \in [Side -> Nat]
  BY OracleAssumption, DuelFields DEF DuelInv, TypeOK
<1>2. ASSUME NEW price \in [Side -> OraclePrices], RecordCompareTwap(price)
      PROVE  AccumulatorsFit'
  <2>1. /\ duel'.twap_samples_count = n + 1
        /\ start_price' \in {price, start_price}
        /\ accumulator' = [s \in Side |-> accumulator[s] + price[s]]
    BY <1>1, <1>2 DEF RecordCompareTwap, TakeSample, DuelType
  <2>2. \A s \in Side : price[s] \in Nat /\ price[s] <= U64_MAX
    BY OraclePricesFit
  <2>3. (n + 1) * U64_MAX = n * U64_MAX + U64_MAX
    BY <1>1
  <2>4. n * U64_MAX \in Nat
    BY <1>1
  <2> HIDE DEF n
  <2>5. ASSUME NEW s \in Side
        PROVE  /\ start_price'[s] <= U64_MAX
               /\ accumulator'[s] <= n * U64_MAX + U64_MAX
    <3>1. /\ accumulator[s] \in Nat /\ accumulator[s] <= n * U64_MAX
          /\ start_price[s] <= U64_MAX
      BY <1>1 DEF AccumulatorsFit, n
    <3>2. accumulator'[s] = accumulator[s] + price[s]
      BY <2>1
    <3> QED
      BY <1>1, <2>1, <2>2, <2>4, <3>1, <3>2
  <2> QED
    BY <2>1, <2>3, <2>5 DEF AccumulatorsFit
<1>3. ASSUME \/ \E d \in Deadlines, w \in Windows, i \in Intervals,
                    m \in MinDeposits : CreateCompareDuel(d, w, i, m)
             \/ CloseCompareDuel
      PROVE  AccumulatorsFit'
  <2>1. start_price' = Zero /\ accumulator' = Zero
    BY <1>3 DEF CreateCompareDuel, FreshDuel, CloseCompareDuel
  <2>2. duel'.twap_samples_count = 0
    <3>1. ASSUME CloseCompareDuel
          PROVE  duel'.twap_samples_count = 0
      BY <3>1, NoDuelTyped DEF CloseCompareDuel
    <3>2. ASSUME NEW d \in Deadlines, NEW w \in Windows, NEW i \in Intervals,
                 NEW m \in MinDeposits, CreateCompareDuel(d, w, i, m)
          PROVE  duel'.twap_samples_count = 0
      <4> DEFINE floor == IF m > 0 THEN m ELSE DEFAULT_MIN_DEPOSIT
      <4>1. duel' = [NoDuel EXCEPT !.status = "Active", !.deadline = d,
                                   !.twap_window = w, !.twap_interval = i,
                                   !.min_deposit = floor]
        BY <3>2 DEF CreateCompareDuel, FreshDuel
      <4> HIDE DEF floor
      <4> QED
        BY <4>1 DEF NoDuel
    <3> QED
      BY <1>3, <3>1, <3>2
  <2> QED
    BY <1>1, <2>1, <2>2 DEF AccumulatorsFit, Zero
<1>4. ASSUME \/ Tick \/ UpdateConfig \/ EmergencyResolveCompare
             \/ UNCHANGED vars
             \/ \E u \in Users, s \in Side, a \in Amounts : DepositSol(u, s, a)
             \/ \E w \in Side \cup {NoWinner} : ResolveCompare(w)
             \/ \E u \in Users : Withdraw(u)
             \/ \E u \in Users : CloseDeposit(u)
      PROVE  AccumulatorsFit'
  <2>1. /\ start_price' = start_price /\ accumulator' = accumulator
        /\ duel'.twap_samples_count = n
    BY <1>1, <1>4
       DEF Tick, UpdateConfig, EmergencyResolveCompare, DeclareDraw, vars,
           DepositSol, Stake, ResolveCompare, Withdraw, CloseDeposit, observed,
           DuelType
  <2> QED
    BY <2>1 DEF AccumulatorsFit
<1> QED
  BY <1>2, <1>3, <1>4 DEF Next

THEOREM DuelAccumulatorsFit == Spec => []AccumulatorsFit
<1>1. Init => AccumulatorsFit
  BY OracleAssumption DEF Init, AccumulatorsFit, Zero, NoDuel, Side
<1>2. DuelInv /\ AccumulatorsFit /\ [Next]_vars => AccumulatorsFit'
  BY AccumulatorsFitStep
<1> QED
  BY <1>1, <1>2, DuelInvariant, PTL DEF Spec

-----------------------------------------------------------------------------
(* The sums of a duel.  The terms of the sums as functions, and the users  *)
(* of a side who have still to withdraw.                                   *)
Stakes == [u \in Users |-> deposit[u].amount]
Shares == [u \in Users |-> Payout(deposit[u])]
Unclaimed(s) == {u \in StakersOn(s) : ~deposit[u].withdrawn}

(* What the sums need beyond themselves: a deposit was made in this duel   *)
(* or an earlier one, and nobody withdraws before the resolution.          *)
Dated == /\ Live => creations >= 1
         /\ \A u \in Users :
              HasDeposit(u) => deposit[u].creation \in 1 .. creations

NothingWithdrawn ==
  Unresolved => \A s \in Side : \A u \in StakersOn(s) : ~deposit[u].withdrawn

StakesInv == DuelInv /\ Dated /\ NothingWithdrawn /\ TotalsBacked

LEMMA StakesTyped ==
  ASSUME TypeOK
  PROVE  /\ Stakes \in [Users -> Nat] /\ IsFiniteSet(Users)
         /\ \A s \in Side : /\ StakersOn(s) \in SUBSET Users
                            /\ AmountOf(StakersOn(s)) \in Nat
<1>1. Stakes \in [Users -> Nat] /\ IsFiniteSet(Users)
  BY DuelAssumption DEF Stakes, TypeOK, DepositType
<1>2. ASSUME NEW s \in Side
      PROVE  StakersOn(s) \in SUBSET Users /\ AmountOf(StakersOn(s)) \in Nat
  <2>1. StakersOn(s) \in SUBSET Users
    BY DEF StakersOn
  <2> QED
    BY <1>1, <2>1, SumTyped DEF AmountOf, Stakes
<1> QED
  BY <1>1, <1>2

LEMMA SharesTyped ==
  ASSUME DuelInv, Resolved
  PROVE  /\ Shares \in [Users -> Nat] /\ IsFiniteSet(Users)
         /\ \A s \in Side : /\ Unclaimed(s) \in SUBSET Users
                            /\ ClaimsOf(StakersOn(s)) \in Nat
                            /\ ClaimsOf(StakersOn(s))
                                 = SumFunctionOnSet(Shares, Unclaimed(s))
<1>1. Shares \in [Users -> Nat] /\ IsFiniteSet(Users)
  BY DuelAssumption, PayoutNat DEF Shares, DuelInv, TypeOK
<1>2. ASSUME NEW s \in Side
      PROVE  /\ Unclaimed(s) \in SUBSET Users
             /\ ClaimsOf(StakersOn(s)) \in Nat
             /\ ClaimsOf(StakersOn(s)) = SumFunctionOnSet(Shares, Unclaimed(s))
  <2>1. Unclaimed(s) \in SUBSET Users
    BY DEF Unclaimed, StakersOn
  <2>2. ClaimsOf(StakersOn(s)) = SumFunctionOnSet(Shares, Unclaimed(s))
    BY DEF ClaimsOf, Shares, Unclaimed
  <2> QED
    BY <1>1, <2>1, <2>2, SumTyped
<1> QED
  BY <1>1, <1>2

(* A deposit adds its amount to its side's sum and leaves the other alone. *)
LEMMA StakeAdds ==
  ASSUME StakesInv, NEW u \in Users, NEW s \in Side, NEW a \in Amounts,
         DepositSol(u, s, a), NEW r \in Side
  PROVE  AmountOf(StakersOn(r))'
           = AmountOf(StakersOn(r)) + IF r = s THEN a ELSE 0
<1>1. /\ ~HasDeposit(u) /\ a \in Nat /\ UNCHANGED creations
      /\ deposit' = [deposit EXCEPT ![u] = [side |-> s, amount |-> a,
                                            withdrawn |-> FALSE,
                                            creation |-> creations]]
  BY DuelAssumption DEF DepositSol, Stake
<1>2. /\ TypeOK /\ TypeOK' /\ deposit \in [Users -> DepositType]
  BY DepositKeeps DEF StakesInv, DuelInv, TypeOK
<1>3. /\ Stakes \in [Users -> Nat] /\ Stakes' \in [Users -> Nat]
      /\ IsFiniteSet(Users)
      /\ StakersOn(r) \in SUBSET Users /\ StakersOn(r)' \in SUBSET Users
      /\ AmountOf(StakersOn(r)) \in Nat
  <2>1. IsFiniteSet(Users) /\ Stakes \in [Users -> Nat]
        /\ StakersOn(r) \in SUBSET Users /\ AmountOf(StakersOn(r)) \in Nat
    BY <1>2, StakesTyped
  <2>2. Stakes' \in [Users -> Nat] /\ StakersOn(r)' \in SUBSET Users
    BY <1>2 DEF Stakes, StakersOn, TypeOK, DepositType
  <2> QED
    BY <2>1, <2>2
<1>4. /\ \A v \in Users : v # u => deposit'[v] = deposit[v]
      /\ deposit'[u].amount = a /\ deposit'[u].side = s
      /\ deposit'[u].creation = creations
  BY <1>1, <1>2
<1>5. u \notin StakersOn(r)
  BY <1>1 DEF StakersOn
<1>6. StakersOn(r)' \ {u} = StakersOn(r)
  BY <1>1, <1>4, <1>5 DEF StakersOn, HasDeposit
<1>7. u \in StakersOn(r)' <=> r = s /\ a > 0
  BY <1>1, <1>4 DEF StakersOn, HasDeposit
<1>8. SumFunctionOnSet(Stakes', StakersOn(r))
        = SumFunctionOnSet(Stakes, StakersOn(r))
  <2>1. \A v \in StakersOn(r) : Stakes'[v] = Stakes[v]
    BY <1>3, <1>4, <1>5 DEF Stakes
  <2> HIDE DEF Stakes
  <2>2. Stakes' \in [Users -> Nat]
    BY <1>3
  <2> QED
    BY <1>3, <2>1, <2>2, SumSameTerms
<1>9. AmountOf(StakersOn(r))' = SumFunctionOnSet(Stakes', StakersOn(r)')
      /\ AmountOf(StakersOn(r)) = SumFunctionOnSet(Stakes, StakersOn(r))
  BY DEF AmountOf, Stakes
<1>10. CASE r = s /\ a > 0
  <2>1. SumFunctionOnSet(Stakes', StakersOn(r)')
          = Stakes'[u] + SumFunctionOnSet(Stakes', StakersOn(r)' \ {u})
    BY <1>3, <1>7, <1>10, SumWithout
  <2>2. Stakes'[u] = a
    BY <1>4 DEF Stakes
  <2>3. SumFunctionOnSet(Stakes', StakersOn(r)')
          = a + AmountOf(StakersOn(r))
    BY <1>6, <1>8, <1>9, <2>1, <2>2
  <2> QED
    BY <1>1, <1>3, <1>9, <1>10, <2>3
<1>11. CASE ~(r = s /\ a > 0)
  <2>1. StakersOn(r)' = StakersOn(r)
    BY <1>6, <1>7, <1>11
  <2> QED
    BY <1>1, <1>3, <1>8, <1>9, <1>11, <2>1
<1> QED
  BY <1>10, <1>11

LEMMA StakesInit == Init => StakesInv
<1> SUFFICES ASSUME Init PROVE StakesInv
  OBVIOUS
<1> QED
  BY DuelInit, NoDuelTyped
     DEF Init, StakesInv, Dated, NothingWithdrawn, TotalsBacked, Live,
         Unresolved, HasDeposit, NoDeposit

(* Before the resolution the books change with a creation and a deposit    *)
(* only; afterwards they are closed.                                       *)
LEMMA StakesStep ==
  ASSUME StakesInv, [Next]_vars
  PROVE  StakesInv'
<1>1. DuelInv'
  BY DuelStep DEF StakesInv
<1>t. /\ deposit \in [Users -> DepositType] /\ creations \in Nat
      /\ duel \in DuelType
  BY DEF StakesInv, DuelInv, TypeOK
<1>2. ASSUME NEW d \in Deadlines, NEW w \in Windows, NEW i \in Intervals,
             NEW m \in MinDeposits, CreateCompareDuel(d, w, i, m)
      PROVE  Dated' /\ NothingWithdrawn' /\ TotalsBacked'
  <2>1. /\ creations' = creations + 1 /\ deposit' = deposit
        /\ pot' = Zero /\ total' = Zero
    BY <1>2 DEF CreateCompareDuel, FreshDuel
  <2>2. ASSUME NEW s \in Side
        PROVE  StakersOn(s)' = {}
    BY <1>t, <2>1 DEF StakersOn, StakesInv, Dated, HasDeposit
  <2>3. ASSUME NEW s \in Side
        PROVE  AmountOf(StakersOn(s))' = 0
    <3>1. Stakes' \in [Users -> Nat] /\ IsFiniteSet(Users)
      BY <1>1, DuelAssumption DEF Stakes, DuelInv, TypeOK, DepositType
    <3>2. AmountOf(StakersOn(s))' = SumFunctionOnSet(Stakes', {})
      BY <2>2 DEF AmountOf, Stakes
    <3> QED
      BY <3>1, <3>2, SumOfNone
  <2>4. Dated'
    BY <1>t, <2>1 DEF Dated, StakesInv, HasDeposit
  <2> QED
    BY <2>1, <2>2, <2>3, <2>4 DEF NothingWithdrawn, TotalsBacked, Zero
<1>3. ASSUME NEW u \in Users, NEW s \in Side, NEW a \in Amounts,
             DepositSol(u, s, a)
      PROVE  Dated' /\ NothingWithdrawn' /\ TotalsBacked'
  <2>1. /\ Unresolved /\ Live /\ ~HasDeposit(u) /\ a \in Nat
        /\ UNCHANGED <<creations, duel>>
        /\ deposit' = [deposit EXCEPT ![u] = [side |-> s, amount |-> a,
                                              withdrawn |-> FALSE,
                                              creation |-> creations]]
        /\ pot' = [pot EXCEPT ![s] = @ + a]
        /\ total' = [total EXCEPT ![s] = @ + a]
    BY <1>3, DuelAssumption DEF DepositSol, Stake, Unresolved, Live
  <2>2. /\ \A v \in Users : v # u => deposit'[v] = deposit[v]
        /\ deposit'[u].creation = creations /\ ~deposit'[u].withdrawn
    BY <1>t, <2>1
  <2>3. Dated'
    BY <1>t, <2>1, <2>2 DEF Dated, StakesInv, HasDeposit, Live
  <2>4. NothingWithdrawn'
    BY <2>1, <2>2
       DEF NothingWithdrawn, StakesInv, StakersOn, HasDeposit, Unresolved
  <2>5. ASSUME NEW r \in Side
        PROVE  pot'[r] = total'[r] /\ AmountOf(StakersOn(r))' = total'[r]
    <3>1. AmountOf(StakersOn(r))'
            = AmountOf(StakersOn(r)) + IF r = s THEN a ELSE 0
      BY <1>3, StakeAdds
    <3>2. /\ AmountOf(StakersOn(r)) = total[r] /\ pot[r] = total[r]
          /\ total \in [Side -> Nat] /\ pot \in [Side -> Nat]
      BY <2>1 DEF StakesInv, TotalsBacked, DuelInv, TypeOK
    <3> QED
      BY <2>1, <3>1, <3>2
  <2> QED
    BY <2>3, <2>4, <2>5 DEF TotalsBacked
<1>4. ASSUME \/ Tick \/ UpdateConfig \/ UNCHANGED vars
             \/ \E price \in [Side -> OraclePrices] : RecordCompareTwap(price)
      PROVE  Dated' /\ NothingWithdrawn' /\ TotalsBacked'
  <2>1. /\ UNCHANGED <<total, pot, deposit, creations>>
        /\ Unresolved' <=> Unresolved
        /\ Live' <=> Live
    BY <1>4, <1>t
       DEF Tick, UpdateConfig, vars, RecordCompareTwap, TakeSample, moneyVars,
           Unresolved, Live, DuelType
  <2> QED
    BY <2>1
       DEF StakesInv, Dated, NothingWithdrawn, TotalsBacked, StakersOn,
           AmountOf, HasDeposit
<1>5. ASSUME \/ \E w \in Side \cup {NoWinner} : ResolveCompare(w)
             \/ EmergencyResolveCompare
             \/ CloseCompareDuel
             \/ \E u \in Users : Withdraw(u)
             \/ \E u \in Users : CloseDeposit(u)
      PROVE  Dated' /\ NothingWithdrawn' /\ TotalsBacked'
  <2>1. ~Unresolved'
    BY <1>5, <1>t, NoDuelTyped
       DEF ResolveCompare, EmergencyResolveCompare, DeclareDraw,
           CloseCompareDuel, Withdraw, CloseDeposit, Unresolved, Resolved,
           DuelType
  <2>2. UNCHANGED creations /\ (Live' => Live)
    BY <1>5, NoDuelTyped
       DEF ResolveCompare, EmergencyResolveCompare, DeclareDraw, moneyVars,
           CloseCompareDuel, Withdraw, CloseDeposit, Live, Unresolved, Resolved
  <2>3. \A v \in Users : HasDeposit(v)' =>
          HasDeposit(v) /\ deposit'[v].creation = deposit[v].creation
    <3>1. ASSUME NEW u \in Users, Withdraw(u)
          PROVE  \A v \in Users :
                   /\ deposit'[v].amount = deposit[v].amount
                   /\ deposit'[v].creation = deposit[v].creation
      BY <1>t, <3>1 DEF Withdraw, DepositType
    <3>2. ASSUME NEW u \in Users, CloseDeposit(u)
          PROVE  \A v \in Users : HasDeposit(v)' => deposit'[v] = deposit[v]
      BY <1>t, <3>2 DEF CloseDeposit, HasDeposit, NoDeposit
    <3>3. ASSUME ~\E u \in Users : Withdraw(u) \/ CloseDeposit(u)
          PROVE  UNCHANGED deposit
      BY <1>5, <3>3
         DEF ResolveCompare, EmergencyResolveCompare, DeclareDraw, moneyVars,
             CloseCompareDuel
    <3> QED
      BY <3>1, <3>2, <3>3 DEF HasDeposit
  <2> QED
    BY <2>1, <2>2, <2>3 DEF Dated, StakesInv, NothingWithdrawn, TotalsBacked
<1> QED
  BY <1>1, <1>2, <1>3, <1>4, <1>5 DEF Next, StakesInv

(* Until the resolution the totals, the vaults and the deposits of the     *)
(* present duel agree, for any number of users and of duels at the address *)
(* (deposit.rs, create_compare_duel.rs).                                   *)
THEOREM DuelTotalsBacked == Spec => []TotalsBacked
<1>1. StakesInv => TotalsBacked
  BY DEF StakesInv
<1> QED
  BY <1>1, StakesInit, StakesStep, PTL DEF Spec

(* What a vault is worth to those who have still to withdraw from it in    *)
(* the first duel at the address: it covers their claims; in a draw it is  *)
(* exactly their claims; and of the winner's vault less than one unit per  *)
(* user is left over.                                                      *)
Covered(s) ==
  /\ ClaimsOf(StakersOn(s)) <= pot[s]
  /\ duel.winner = NoWinner => pot[s] = ClaimsOf(StakersOn(s))
  /\ duel.winner = s => pot[s] < ClaimsOf(StakersOn(s)) + Cardinality(Users)

ClaimsInv == Resolved /\ creations = 1 => \A s \in Side : Covered(s)

(* At the resolution: every term of a draw's sum is the amount deposited.  *)
LEMMA DrawCoversClaims ==
  ASSUME StakesInv, DuelInv', Unresolved,
         duel'.status = "Resolved", duel'.winner = NoWinner,
         UNCHANGED <<pot, deposit, creations>>, NEW s \in Side
  PROVE  Covered(s)'
<1>1. Unclaimed(s)' = StakersOn(s) /\ StakersOn(s)' = StakersOn(s)
  BY DEF StakesInv, NothingWithdrawn, Unclaimed, StakersOn, HasDeposit
<1>2. Shares' = Stakes
  BY DEF Shares, Stakes, Payout
<1>3. Resolved'
  BY DEF Resolved
<1>4. ClaimsOf(StakersOn(s))' = SumFunctionOnSet(Shares', Unclaimed(s)')
  BY DEF ClaimsOf, Shares, Unclaimed
<1>5. AmountOf(StakersOn(s)) = SumFunctionOnSet(Stakes, StakersOn(s))
  BY DEF AmountOf, Stakes
<1>6. /\ pot'[s] = AmountOf(StakersOn(s))
      /\ AmountOf(StakersOn(s)) \in Nat
  BY StakesTyped DEF StakesInv, TotalsBacked, DuelInv
<1>7. ClaimsOf(StakersOn(s))' = pot'[s]
  BY <1>1, <1>2, <1>4, <1>5, <1>6
<1>8. duel'.winner # s
  BY DuelAssumption
<1> QED
  BY <1>6, <1>7, <1>8 DEF Covered

(* With a winner: its stakers share net_pool by their stakes, and the sum  *)
(* of the truncated shares is net_pool up to less than one unit each.      *)
LEMMA WinCoversClaims ==
  ASSUME StakesInv, DuelInv', Unresolved,
         duel'.status = "Resolved", duel'.winner \in Side, paidOut' = 0,
         UNCHANGED <<total, deposit, creations>>, NEW s \in Side
  PROVE  Covered(s)'
<1> DEFINE N == duel'.net_pool
           P == ClaimsOf(StakersOn(s))'
           n == Cardinality(StakersOn(s))
<1>1. Unclaimed(s)' = StakersOn(s) /\ StakersOn(s)' = StakersOn(s)
  BY DEF StakesInv, NothingWithdrawn, Unclaimed, StakersOn, HasDeposit
<1>2. /\ Stakes \in [Users -> Nat] /\ IsFiniteSet(Users)
      /\ StakersOn(s) \in SUBSET Users
      /\ AmountOf(StakersOn(s)) = total[s]
      /\ AmountOf(StakersOn(s)) = SumFunctionOnSet(Stakes, StakersOn(s))
  BY StakesTyped DEF StakesInv, DuelInv, TotalsBacked, AmountOf, Stakes
<1>3. /\ Resolved' /\ N \in Nat /\ duel'.winner # NoWinner
      /\ pot' \in [Side -> Nat] /\ total \in [Side -> Nat]
      /\ total[duel'.winner] > 0
  BY DuelAssumption
     DEF Resolved, DuelInv, StakesInv, TypeOK, DuelType, WinnerJustified, Side
<1>4. /\ Shares' \in [Users -> Nat]
      /\ P = SumFunctionOnSet(Shares', StakersOn(s))
      /\ P \in Nat
  <2>1. Shares' \in [Users -> Nat]
    <3>1. ASSUME NEW u \in Users
          PROVE  Payout(deposit[u])' \in Nat
      <4>1. deposit[u] \in DepositType /\ deposit' = deposit
        BY DEF StakesInv, DuelInv, TypeOK
      <4>2. deposit[u].amount \in Nat /\ deposit[u].side \in Side
        BY <4>1 DEF DepositType
      <4>3. CASE deposit[u].side = duel'.winner
        <5>1. /\ deposit[u].amount * N \in Nat
              /\ total[deposit[u].side] \in Nat \ {0}
          BY <1>3, <4>2, <4>3
        <5>2. \A a \in Nat, b \in Nat \ {0} : a \div b \in Nat
          OBVIOUS
        <5> HIDE DEF N
        <5>3. (deposit[u].amount * N) \div total[deposit[u].side] \in Nat
          BY <5>1, <5>2
        <5> QED
          BY <1>3, <4>1, <4>3, <5>3 DEF Payout, N
      <4>4. CASE deposit[u].side # duel'.winner
        BY <1>3, <4>1, <4>4 DEF Payout
      <4> QED
        BY <4>3, <4>4
    <3> QED
      BY <3>1 DEF Shares
  <2>2. P = SumFunctionOnSet(Shares', Unclaimed(s)')
    BY DEF ClaimsOf, Shares, Unclaimed
  <2> HIDE DEF P
  <2>3. SumFunctionOnSet(Shares', StakersOn(s)) \in Nat
    <3> HIDE DEF Shares
    <3> QED
      BY <1>2, <2>1, SumTyped
  <2> QED
    BY <1>1, <2>1, <2>2, <2>3
<1>5. \A u \in StakersOn(s) : deposit'[u] = deposit[u] /\ deposit[u].side = s
  BY DEF StakersOn
<1>6. CASE duel'.winner # s
  <2>1. \A u \in StakersOn(s) : Shares'[u] = 0
    BY <1>2, <1>3, <1>5, <1>6 DEF Shares, Payout
  <2>2. P = 0
    BY <1>2, <1>4, <2>1, SumOfZeros
  <2> QED
    BY <1>3, <1>6, <2>2 DEF Covered
<1>7. CASE duel'.winner = s
  <2>1. pot'[s] = N
    BY <1>3, <1>7 DEF DuelInv, NetPoolExact, Other, Side
  <2>2. \A u \in StakersOn(s) : Shares'[u] = (Stakes[u] * N) \div total[s]
    BY <1>2, <1>3, <1>5, <1>7 DEF Shares, Stakes, Payout
  <2>3. total[s] \in Nat \ {0}
    BY <1>3, <1>7
  <2>4. /\ n \in Nat /\ n <= Cardinality(Users) /\ Cardinality(Users) \in Nat
        /\ n = 0 => StakersOn(s) = {}
    BY <1>2, FS_Subset, FS_CardinalityType, FS_EmptySet
  <2>5. n # 0
    BY <1>2, <2>3, <2>4, SumOfNone
  <2>6. /\ P * total[s] <= total[s] * N
        /\ total[s] * N <= P * total[s] + n * (total[s] - 1)
    <3> HIDE DEF N, P, n, Shares, Stakes
    <3>1. /\ SumFunctionOnSet(Shares', StakersOn(s)) * total[s]
               <= SumFunctionOnSet(Stakes, StakersOn(s)) * N
          /\ SumFunctionOnSet(Stakes, StakersOn(s)) * N
               <= SumFunctionOnSet(Shares', StakersOn(s)) * total[s]
                    + Cardinality(StakersOn(s)) * (total[s] - 1)
      BY <1>2, <1>3, <1>4, <2>2, <2>3, SharesOfPool
    <3> QED
      BY <1>2, <1>4, <3>1 DEF n
  <2>7. P <= N /\ N < P + n
    <3> HIDE DEF N, P, n
    <3> QED
      BY <1>3, <1>4, <2>3, <2>4, <2>5, <2>6, WithinOneEach
  <2> QED
    <3> HIDE DEF N, P, n
    <3>1. P <= pot'[s] /\ pot'[s] < P + Cardinality(Users)
      BY <1>3, <1>4, <2>1, <2>4, <2>7
    <3> QED
      BY <1>3, <3>1 DEF Covered, P
<1> QED
  BY <1>6, <1>7

(* Once resolved, only a withdrawal touches the claims: it lowers the vault*)
(* and the claims on it by the same payout.                                *)
LEMMA WithdrawKeepsCovered ==
  ASSUME StakesInv, ClaimsInv, creations = 1,
         NEW u \in Users, Withdraw(u), NEW s \in Side
  PROVE  Covered(s)'
<1> DEFINE p == Payout(deposit[u])
<1>1. /\ Resolved /\ Resolved' /\ Unpaid(u) /\ HasDeposit(u)
      /\ p <= pot[deposit[u].side]
      /\ pot' = [pot EXCEPT ![deposit[u].side] = @ - p]
      /\ deposit' = [deposit EXCEPT ![u].withdrawn = TRUE]
      /\ UNCHANGED <<duel, total, creations>>
  BY DEF Withdraw, Unpaid, Resolved
<1>2. /\ DuelInv /\ DuelInv' /\ deposit \in [Users -> DepositType]
      /\ pot \in [Side -> Nat] /\ deposit[u].side \in Side
  BY WithdrawKeeps DEF StakesInv, DuelInv, TypeOK, DepositType
<1>3. \A v \in Users :
        /\ deposit'[v].side = deposit[v].side
        /\ deposit'[v].amount = deposit[v].amount
        /\ deposit'[v].creation = deposit[v].creation
        /\ deposit'[v].withdrawn <=> deposit[v].withdrawn \/ v = u
  BY <1>1, <1>2 DEF DepositType
<1>4. StakersOn(s)' = StakersOn(s) /\ Unclaimed(s)' = Unclaimed(s) \ {u}
  BY <1>1, <1>3 DEF StakersOn, Unclaimed, HasDeposit
<1>5. u \in Unclaimed(s) <=> deposit[u].side = s
  BY <1>1 DEF Unclaimed, StakersOn, Unpaid, StakesInv, Dated
<1>6. Shares' = Shares
  BY <1>1, <1>3 DEF Shares, Payout
<1>7. /\ Shares \in [Users -> Nat] /\ IsFiniteSet(Users)
      /\ Unclaimed(s) \in SUBSET Users
      /\ ClaimsOf(StakersOn(s)) \in Nat
      /\ ClaimsOf(StakersOn(s)) = SumFunctionOnSet(Shares, Unclaimed(s))
  BY <1>1, <1>2, SharesTyped
<1>8. ClaimsOf(StakersOn(s))' = SumFunctionOnSet(Shares, Unclaimed(s) \ {u})
  <2>1. ClaimsOf(StakersOn(s))' = SumFunctionOnSet(Shares', Unclaimed(s)')
    BY DEF ClaimsOf, Shares, Unclaimed
  <2> QED
    BY <1>4, <1>6, <2>1
<1>9. /\ Covered(s) /\ p \in Nat
  BY <1>1, <1>2, PayoutNat DEF ClaimsInv
<1>10. CASE deposit[u].side = s
  <2>1. Shares[u] = p
    BY DEF Shares
  <2>2. ClaimsOf(StakersOn(s)) = p + ClaimsOf(StakersOn(s))'
    <3> HIDE DEF p, Shares
    <3> QED
      BY <1>5, <1>7, <1>8, <1>10, <2>1, SumWithout
  <2>3. /\ ClaimsOf(StakersOn(s))' \in Nat
    <3> HIDE DEF p, Shares
    <3>1. Unclaimed(s) \ {u} \in SUBSET Users
      BY <1>7
    <3> QED
      BY <1>7, <1>8, <3>1, SumTyped
  <2>4. Cardinality(Users) \in Nat
    BY <1>7, FS_CardinalityType
  <2> HIDE DEF p
  <2>5. pot'[s] = pot[s] - p /\ pot[s] \in Nat
    BY <1>1, <1>2, <1>10
  <2> QED
    BY <1>1, <1>9, <2>2, <2>3, <2>4, <2>5 DEF Covered
<1>11. CASE deposit[u].side # s
  <2>1. Unclaimed(s) \ {u} = Unclaimed(s)
    BY <1>5, <1>11
  <2>2. pot'[s] = pot[s]
    BY <1>1, <1>2, <1>11
  <2> QED
    BY <1>1, <1>7, <1>8, <1>9, <2>1, <2>2 DEF Covered
<1> QED
  BY <1>10, <1>11

(* Only a deposit that was paid out is closed: no claim goes with it.      *)
LEMMA CloseDepositKeepsCovered ==
  ASSUME StakesInv, ClaimsInv, creations = 1,
         NEW u \in Users, CloseDeposit(u), NEW s \in Side
  PROVE  Covered(s)'
<1>1. /\ Resolved /\ Resolved' /\ deposit[u].withdrawn
      /\ deposit' = [deposit EXCEPT ![u] = NoDeposit]
      /\ UNCHANGED <<duel, total, pot, creations>>
  BY DEF CloseDeposit, Resolved
<1>2. /\ DuelInv /\ DuelInv' /\ deposit \in [Users -> DepositType]
  BY CloseDepositKeeps DEF StakesInv, DuelInv, TypeOK
<1>3. /\ \A v \in Users : v # u => deposit'[v] = deposit[v]
      /\ ~HasDeposit(u)'
  BY <1>1, <1>2 DEF HasDeposit, NoDeposit
<1>4. Unclaimed(s)' = Unclaimed(s) /\ u \notin Unclaimed(s)
  BY <1>1, <1>3 DEF StakersOn, Unclaimed, HasDeposit
<1>5. \A v \in Unclaimed(s) : Shares'[v] = Shares[v]
  BY <1>1, <1>3, <1>4 DEF Shares, Payout, Unclaimed, StakersOn
<1>6. /\ Shares \in [Users -> Nat] /\ IsFiniteSet(Users)
      /\ Unclaimed(s) \in SUBSET Users
      /\ ClaimsOf(StakersOn(s)) = SumFunctionOnSet(Shares, Unclaimed(s))
  BY <1>1, <1>2, SharesTyped
<1>7. Shares' \in [Users -> Nat]
  <2>1. \A d \in DepositType : Payout(d) \in Nat
    BY <1>1, <1>2, PayoutNat
  <2>2. \A d \in DepositType : Payout(d)' = Payout(d)
    BY <1>1 DEF Payout
  <2>3. deposit' \in [Users -> DepositType]
    BY <1>2 DEF DuelInv, TypeOK
  <2>4. ASSUME NEW v \in Users
        PROVE  Payout(deposit[v])' \in Nat
    <3>1. deposit'[v] \in DepositType
      BY <2>3
    <3>2. Payout(deposit[v])' = Payout(deposit'[v])
      BY <1>1 DEF Payout
    <3> QED
      BY <2>1, <3>1, <3>2
  <2> QED
    BY <2>4 DEF Shares
<1>8. ClaimsOf(StakersOn(s))' = SumFunctionOnSet(Shares', Unclaimed(s)')
  BY DEF ClaimsOf, Shares, Unclaimed
<1>9. ClaimsOf(StakersOn(s))' = ClaimsOf(StakersOn(s))
  <2> HIDE DEF Shares
  <2>1. SumFunctionOnSet(Shares, Unclaimed(s))
          = SumFunctionOnSet(Shares', Unclaimed(s))
    BY <1>5, <1>6, <1>7, SumSameTerms
  <2> QED
    BY <1>4, <1>6, <1>8, <2>1
<1> QED
  BY <1>1, <1>9 DEF Covered, ClaimsInv

LEMMA ClaimsStep ==
  ASSUME StakesInv, ClaimsInv, [Next]_vars
  PROVE  ClaimsInv'
<1> SUFFICES ASSUME Resolved', creations' = 1, NEW s \in Side
             PROVE  Covered(s)'
  BY DEF ClaimsInv
<1>1. DuelInv /\ DuelInv' /\ duel \in DuelType
  BY DuelStep DEF StakesInv, DuelInv, TypeOK
<1>2. ASSUME NEW w \in Side \cup {NoWinner}, ResolveCompare(w)
      PROVE  Covered(s)'
  <2>1. /\ Unresolved /\ duel'.status = "Resolved" /\ duel'.winner = w
        /\ pot' = SettlePot(w) /\ paidOut = 0
        /\ UNCHANGED <<total, deposit, creations, paidOut>>
    BY <1>1, <1>2 DEF ResolveCompare, DuelType, DuelInv, PotsMatch
  <2>2. CASE w \in Side
    BY <1>1, <2>1, <2>2, WinCoversClaims
  <2>3. CASE w = NoWinner
    <3>1. pot' = pot
      BY <2>1, <2>3, DuelAssumption DEF SettlePot
    <3> QED
      BY <1>1, <2>1, <2>3, <3>1, DrawCoversClaims
  <2> QED
    BY <2>2, <2>3
<1>3. ASSUME EmergencyResolveCompare
      PROVE  Covered(s)'
  <2>1. /\ Unresolved /\ duel'.status = "Resolved" /\ duel'.winner = NoWinner
        /\ UNCHANGED <<pot, deposit, creations>>
    BY <1>1, <1>3
       DEF EmergencyResolveCompare, DeclareDraw, moneyVars, DuelType
  <2> QED
    BY <1>1, <2>1, DrawCoversClaims
<1>4. ASSUME NEW u \in Users, Withdraw(u)
      PROVE  Covered(s)'
  <2>1. creations = 1
    BY <1>4 DEF Withdraw
  <2> QED
    BY <1>4, <2>1, WithdrawKeepsCovered
<1>5. ASSUME NEW u \in Users, CloseDeposit(u)
      PROVE  Covered(s)'
  <2>1. creations = 1
    BY <1>5 DEF CloseDeposit
  <2> QED
    BY <1>5, <2>1, CloseDepositKeepsCovered
<1>6. ASSUME Tick \/ UpdateConfig \/ UNCHANGED vars
      PROVE  Covered(s)'
  <2>1. UNCHANGED <<duel, total, pot, deposit, creations>>
    BY <1>6 DEF Tick, UpdateConfig, vars, moneyVars
  <2>2. Resolved /\ creations = 1
    BY <2>1 DEF Resolved
  <2>3. ClaimsOf(StakersOn(s))' = ClaimsOf(StakersOn(s))
    BY <2>1 DEF ClaimsOf, StakersOn, Payout, HasDeposit
  <2> QED
    BY <2>1, <2>2, <2>3 DEF ClaimsInv, Covered
<1>7. ASSUME \/ CloseCompareDuel
             \/ \E d \in Deadlines, w \in Windows, i \in Intervals,
                   m \in MinDeposits : CreateCompareDuel(d, w, i, m)
             \/ \E u \in Users, t \in Side, a \in Amounts : DepositSol(u, t, a)
             \/ \E price \in [Side -> OraclePrices] : RecordCompareTwap(price)
      PROVE  FALSE
  BY <1>1, <1>7, NoDuelTyped
     DEF CloseCompareDuel, CreateCompareDuel, FreshDuel, DepositSol, Stake,
         RecordCompareTwap, TakeSample, Resolved, NoDuel, DuelType
<1> QED
  BY <1>2, <1>3, <1>4, <1>5, <1>6, <1>7 DEF Next

(* The claims and the vaults, at every point of every duel (see Covered).   *)
THEOREM DuelClaimsInvariant == Spec => [](StakesInv /\ ClaimsInv)
<1>1. Init => ClaimsInv
  BY NoDuelTyped DEF Init, ClaimsInv, Resolved
<1> QED
  BY <1>1, StakesInit, StakesStep, ClaimsStep, PTL DEF Spec

(* In the first duel at an address every vault covers what is still to be  *)
(* withdrawn from it (withdraw.rs), for any number of users and stakes.    *)
THEOREM DuelClaimsBacked == Spec => []ClaimsBacked
<1>1. ClaimsInv => ClaimsBacked
  BY DEF ClaimsInv, ClaimsBacked, Covered
<1> QED
  BY <1>1, DuelClaimsInvariant, PTL

(* Of a winner's vault less than one unit per user is left when all its    *)
(* stakers are paid (SPEC.md goal 10).                                     *)
THEOREM DuelOnlyDustLeft == Spec => []OnlyDustLeft
<1>1. ASSUME StakesInv, ClaimsInv
      PROVE  OnlyDustLeft
  <2> SUFFICES ASSUME Resolved, creations = 1, duel.winner # NoWinner,
                      \A u \in StakersOn(duel.winner) : deposit[u].withdrawn
               PROVE  pot[duel.winner] < Cardinality(Users)
    BY DEF OnlyDustLeft
  <2> DEFINE w == duel.winner
  <2>1. w \in Side /\ DuelInv
    BY <1>1, DuelFields DEF StakesInv, DuelInv
  <2>2. Unclaimed(w) = {}
    BY DEF Unclaimed
  <2>3. /\ Shares \in [Users -> Nat] /\ IsFiniteSet(Users)
        /\ ClaimsOf(StakersOn(w)) = SumFunctionOnSet(Shares, Unclaimed(w))
    BY <2>1, SharesTyped
  <2>4. ClaimsOf(StakersOn(w)) = 0
    <3> HIDE DEF Shares, w
    <3> QED
      BY <2>2, <2>3, SumOfNone
  <2>5. Covered(w)
    BY <1>1, <2>1 DEF ClaimsInv
  <2>6. /\ pot[w] < 0 + Cardinality(Users) /\ Cardinality(Users) \in Nat
    BY <2>3, <2>4, <2>5, FS_CardinalityType DEF Covered
  <2> QED
    BY <2>6
<1> QED
  BY <1>1, DuelClaimsInvariant, PTL

(* No withdrawal of the first duel fails for want of money, in whatever    *)
(* order depositors come, and a draw pays each the amount deposited        *)
(* (SPEC.md M2-1, M2-2): the transfer of withdraw.rs finds its payout in   *)
(* the vault.                                                              *)
NobodyTurnedAway ==
  Resolved /\ creations = 1 =>
    \A u \in Users :
      Unpaid(u) => /\ Payout(deposit[u]) <= pot[deposit[u].side]
                   /\ Drawn => Payout(deposit[u]) = deposit[u].amount

THEOREM DuelTurnsNobodyAway == Spec => []NobodyTurnedAway
<1>1. ASSUME StakesInv, ClaimsInv
      PROVE  NobodyTurnedAway
  <2> SUFFICES ASSUME Resolved, creations = 1, NEW u \in Users, Unpaid(u)
               PROVE  /\ Payout(deposit[u]) <= pot[deposit[u].side]
                      /\ Drawn => Payout(deposit[u]) = deposit[u].amount
    BY DEF NobodyTurnedAway
  <2> DEFINE s == deposit[u].side
  <2>1. s \in Side /\ DuelInv /\ pot \in [Side -> Nat]
    BY <1>1 DEF StakesInv, DuelInv, TypeOK, DepositType
  <2>2. u \in Unclaimed(s)
    BY <1>1 DEF Unclaimed, StakersOn, Unpaid, StakesInv, Dated
  <2>3. /\ Shares \in [Users -> Nat] /\ IsFiniteSet(Users)
        /\ Unclaimed(s) \in SUBSET Users
        /\ ClaimsOf(StakersOn(s)) = SumFunctionOnSet(Shares, Unclaimed(s))
    BY <2>1, SharesTyped
  <2>4. Shares[u] = Payout(deposit[u])
    BY DEF Shares
  <2> HIDE DEF s
  <2>5. /\ ClaimsOf(StakersOn(s))
             = Shares[u] + SumFunctionOnSet(Shares, Unclaimed(s) \ {u})
        /\ SumFunctionOnSet(Shares, Unclaimed(s) \ {u}) \in Nat
        /\ Shares[u] \in Nat
    <3> HIDE DEF Shares
    <3>1. Unclaimed(s) \ {u} \in SUBSET Users
      BY <2>3
    <3> QED
      BY <2>2, <2>3, <3>1, SumWithout, SumTyped
  <2>6. ClaimsOf(StakersOn(s)) <= pot[s] /\ pot[s] \in Nat
    BY <1>1, <2>1 DEF ClaimsInv, Covered
  <2>7. Payout(deposit[u]) <= pot[s]
    BY <2>4, <2>5, <2>6
  <2>8. Drawn => Payout(deposit[u]) = deposit[u].amount
    BY DEF Drawn, Payout
  <2> QED
    BY <2>7, <2>8 DEF s
<1> QED
  BY <1>1, DuelClaimsInvariant, PTL

-----------------------------------------------------------------------------
(* Every step of a duel is a step of its abstract life or leaves status    *)
(* and winner alone.                                                       *)
LEMMA LifecycleStep ==
  ASSUME DuelInv, [Next]_vars
  PROVE  [Stages!Next]_(Stages!lifecycleVars)
<1> USE DEF Stages!lifecycleVars
<1>t. duel \in DuelType
  BY DEF DuelInv, TypeOK
<1>1. ASSUME NEW d \in Deadlines, NEW w \in Windows, NEW i \in Intervals,
             NEW m \in MinDeposits, CreateCompareDuel(d, w, i, m)
      PROVE  Stages!Create
  BY <1>1 DEF CreateCompareDuel, MayCreate, FreshDuel, Live, NoDuel,
              Stages!Create
<1>2. ASSUME NEW price \in [Side -> OraclePrices], RecordCompareTwap(price)
      PROVE  Stages!Observe \/ UNCHANGED <<duel.status, duel.winner>>
  BY <1>2, <1>t
     DEF RecordCompareTwap, TakeSample, Unresolved, Stages!Observe, DuelType
<1>3. ASSUME NEW w \in Side \cup {NoWinner}, ResolveCompare(w)
      PROVE  Stages!Win \/ Stages!Draw
  <2>1. duel.twap_samples_count # 0
    BY <1>3, MinSamplesPositive, DuelFields
       DEF ResolveCompare, DuelInv
  <2>2. duel.status = "TwapObservation"
    BY <1>3, <2>1 DEF ResolveCompare, Unresolved, DuelInv, StatusFits
  <2>3. duel'.status = "Resolved" /\ duel'.winner = w
    BY <1>3, <1>t DEF ResolveCompare, DuelType
  <2> QED
    BY <2>2, <2>3 DEF Stages!Win, Stages!Draw, Stages!Side, Side
<1>4. ASSUME EmergencyResolveCompare
      PROVE  Stages!Draw
  BY <1>4, <1>t
     DEF EmergencyResolveCompare, DeclareDraw, Unresolved, Stages!Draw,
         DuelType
<1>5. ASSUME CloseCompareDuel
      PROVE  Stages!Close
  BY <1>5 DEF CloseCompareDuel, Resolved, NoDuel, Stages!Close
<1>6. ASSUME \/ Tick \/ UpdateConfig \/ UNCHANGED vars
             \/ \E u \in Users, s \in Side, a \in Amounts : DepositSol(u, s, a)
             \/ \E u \in Users : Withdraw(u)
             \/ \E u \in Users : CloseDeposit(u)
      PROVE  UNCHANGED <<duel.status, duel.winner>>
  <2>1. UNCHANGED duel
    BY <1>6
       DEF Tick, UpdateConfig, DepositSol, Stake, Withdraw, CloseDeposit, vars
  <2> QED
    BY <2>1
<1> QED
  BY <1>1, <1>2, <1>3, <1>4, <1>5, <1>6 DEF Next, Stages!Next

(* A duel implements its lifecycle, again after every re-creation of the   *)
(* address (SPEC.md SM-1, SM-2).                                           *)
THEOREM DuelImplementsLifecycle == Spec => LifecycleKept
<1>1. Init => Stages!Init
  BY DEF Init, NoDuel, Stages!Init
<1>2. DuelInv /\ [Next]_vars => [Stages!Next]_(Stages!lifecycleVars)
  BY LifecycleStep
<1> QED
  BY <1>1, <1>2, DuelInvariant, PTL DEF Spec, LifecycleKept, Stages!Spec
=============================================================================
