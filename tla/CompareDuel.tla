----------------------------- MODULE CompareDuel -----------------------------
(***************************************************************************)
(* One Mode 2 duel of the program, at one address (creator and duel_id):   *)
(* users stake quote tokens on one of two existing tokens, an oracle       *)
(* prices both until the deadline, and the side whose token performed      *)
(* better shares the pool.                                                 *)
(*                                                                         *)
(* The accounts are the duel, its two pool vaults and one Deposit per      *)
(* user; each is created and closed by an instruction of its own, so one   *)
(* may outlive another, and a closed duel's address can be created again.  *)
(* An oracle read yields any price of OraclePrices (module Oracle), so     *)
(* successive reads are unrelated.  A read that fails validation fails the *)
(* call, which changes nothing.                                            *)
(***************************************************************************)
EXTENDS ProgramConfig, Twap, Oracle, FiniteSetsExt

CONSTANTS NoWinner,              \* Option::None
          EMERGENCY_WINDOW,      \* DEFAULT_EMERGENCY_WINDOW
          DEFAULT_MIN_DEPOSIT,
          PERF_SCALE,            \* 10^9 in resolve_compare
          SampleIntervals,       \* MIN_TWAP_INTERVAL .. MAX_TWAP_INTERVAL
          Users,
          Amounts, MinDeposits,  \* arguments of deposit and of create
          Deadlines, Windows, Intervals,   \* arguments of create
          MaxTime,               \* bound of the clock
          MaxCreations           \* bound of the duels at this address

Side == {0, 1}

ASSUME DuelAssumption ==
  /\ NoWinner \notin Side
  /\ EMERGENCY_WINDOW \in Nat
  /\ DEFAULT_MIN_DEPOSIT \in Nat \ {0}
  /\ PERF_SCALE \in Nat \ {0}
  /\ SampleIntervals \subseteq Nat \ {0}
  /\ IsFiniteSet(Users)
  /\ Amounts \subseteq Nat
  /\ MinDeposits \subseteq Nat
  /\ Deadlines \subseteq Nat
  /\ Windows \subseteq Nat
  /\ Intervals \subseteq Nat
  /\ MaxTime \in Nat
  /\ MaxCreations \in Nat

VARIABLES now,          \* Clock::get().unix_timestamp
          duel,         \* the CompareDuel account, "Uninitialized" if none
          total,        \* side_a_total, side_b_total
          start_price,  \* start_price_a, start_price_b
          accumulator,  \* twap_accumulator_a, twap_accumulator_b
          pot,          \* balances of the pool vaults
          openVault,    \* sides whose vault account exists
          deposit,      \* each user's Deposit account, or NoDeposit
          creations,    \* history: duels created at the address so far
          paidOut       \* history: paid to depositors of the present duel

observed == <<start_price, accumulator>>
moneyVars == <<total, pot, openVault, deposit, creations, paidOut>>
vars == <<now, config, duel, observed, moneyVars>>

Other(s) == 1 - s
Live == duel.status # "Uninitialized"
Unresolved == duel.status \in {"Active", "TwapObservation"}
Resolved == duel.status = "Resolved"
Drawn == Resolved /\ duel.winner = NoWinner

Zero == [s \in Side |-> 0]
NoDuel == [status |-> "Uninitialized", winner |-> NoWinner, deadline |-> 0,
           twap_window |-> 0, twap_interval |-> 1, twap_samples_count |-> 0,
           last_sample_ts |-> 0, net_pool |-> 0, min_deposit |-> 0]

(* min_deposit is positive, so an amount of 0 marks the missing account;   *)
(* creation is history: the duel the deposit was made in.                  *)
NoDeposit == [side |-> 0, amount |-> 0, withdrawn |-> FALSE, creation |-> 0]
HasDeposit(u) == deposit[u].amount > 0
Unpaid(u) == HasDeposit(u) /\ ~deposit[u].withdrawn

Init == /\ now = 1
        /\ ConfigInit
        /\ duel = NoDuel
        /\ total = Zero /\ start_price = Zero /\ accumulator = Zero
        /\ pot = Zero /\ openVault = {}
        /\ deposit = [u \in Users |-> NoDeposit]
        /\ creations = 0 /\ paidOut = 0

Tick == /\ now < MaxTime
        /\ now' = now + 1
        /\ UNCHANGED <<config, duel, observed, moneyVars>>

UpdateConfig == /\ \E p \in BOOLEAN, r \in FeeRates, f \in FeeSplits,
                      d \in Durations : UpdateConfigOf(p, r, f, d)
                /\ UNCHANGED <<now, duel, observed, moneyVars>>

(* The state the handler writes, all of it. *)
FreshDuel(deadline, window, interval, min_deposit) ==
  /\ duel' = [NoDuel EXCEPT
                !.status = "Active", !.deadline = deadline,
                !.twap_window = window, !.twap_interval = interval,
                !.min_deposit = IF min_deposit > 0 THEN min_deposit
                                ELSE DEFAULT_MIN_DEPOSIT]
  /\ total' = Zero /\ start_price' = Zero /\ accumulator' = Zero
  /\ openVault' = Side
  /\ creations' = creations + 1 /\ paidOut' = 0
  /\ UNCHANGED <<now, config, deposit>>

MayCreate(deadline, window, interval) ==
  /\ ~Live
  /\ creations < MaxCreations
  /\ ~config.paused
  /\ ValidTerms([deadline |-> deadline, twap_window |-> window,
                 twap_interval |-> interval],
                now, config.min_market_duration, SampleIntervals)

(* mutant: a vault that is still there is used again (init_if_needed). *)
CreateReusingVaults(deadline, window, interval, min_deposit) ==
  /\ MayCreate(deadline, window, interval)
  /\ FreshDuel(deadline, window, interval, min_deposit)
  /\ UNCHANGED pot

(* The duel and both vaults are created together: none of the three may    *)
(* exist.  Deposit accounts of an earlier duel may.                        *)
CreateCompareDuel(deadline, window, interval, min_deposit) ==
  /\ MayCreate(deadline, window, interval)
  /\ openVault = {}
  /\ FreshDuel(deadline, window, interval, min_deposit)
  /\ pot' = Zero

(* The transfer into the side's vault and the account that records it. *)
Stake(u, s, amount) ==
  /\ pot' = [pot EXCEPT ![s] = @ + amount]
  /\ total' = [total EXCEPT ![s] = @ + amount]
  /\ deposit' = [deposit EXCEPT ![u] = [side |-> s, amount |-> amount,
                                        withdrawn |-> FALSE,
                                        creation |-> creations]]
  /\ UNCHANGED <<now, config, duel, observed, openVault, creations, paidOut>>

(* mutant: deposits are taken until the deadline. *)
DepositSolUntilDeadline(u, s, amount) ==
  /\ duel.status = "Active" /\ ~config.paused
  /\ ~HasDeposit(u)
  /\ amount >= duel.min_deposit
  /\ now < duel.deadline
  /\ Stake(u, s, amount)

(* mutant: the deposit is recorded for the other side. *)
DepositSolOtherSide(u, s, amount) ==
  /\ duel.status = "Active" /\ ~config.paused
  /\ ~HasDeposit(u)
  /\ amount >= duel.min_deposit
  /\ now < WindowStart(duel)
  /\ pot' = [pot EXCEPT ![s] = @ + amount]
  /\ total' = [total EXCEPT ![s] = @ + amount]
  /\ deposit' = [deposit EXCEPT ![u] = [side |-> Other(s), amount |-> amount,
                                        withdrawn |-> FALSE,
                                        creation |-> creations]]
  /\ UNCHANGED <<now, config, duel, observed, openVault, creations, paidOut>>

(* The Deposit account must not exist yet: one deposit per user. *)
DepositSol(u, s, amount) ==
  /\ duel.status = "Active" /\ ~config.paused
  /\ ~HasDeposit(u)
  /\ amount >= duel.min_deposit
  /\ now < WindowStart(duel)
  /\ Stake(u, s, amount)

(* The prices join the accumulators; the first are the start prices. *)
TakeSample(price) ==
  /\ start_price' = IF duel.twap_samples_count = 0 THEN price ELSE start_price
  /\ accumulator' = [s \in Side |-> accumulator[s] + price[s]]
  /\ duel' = [duel EXCEPT !.twap_samples_count = @ + 1,
                          !.last_sample_ts = now, !.status = "TwapObservation"]
  /\ UNCHANGED <<now, config, moneyVars>>

(* mutant: a resolved duel can be sampled. *)
RecordCompareTwapLate(price) ==
  /\ Live /\ InTwapWindow(duel, now)
  /\ IntervalElapsed(duel, duel.last_sample_ts, now)
  /\ TakeSample(price)

(* Anyone may sample. *)
RecordCompareTwap(price) ==
  /\ Unresolved
  /\ InTwapWindow(duel, now)
  /\ IntervalElapsed(duel, duel.last_sample_ts, now)
  /\ TakeSample(price)

(* Division of an i128, which truncates toward zero. *)
SignedDiv(a, b) == IF a < 0 THEN -((-a) \div b) ELSE a \div b

FinalTwap(s) == accumulator[s] \div duel.twap_samples_count

(* The change of a side's price since the first sample. *)
Performance(s) ==
  SignedDiv((FinalTwap(s) - start_price[s]) * PERF_SCALE, start_price[s])

PoolTotal == total[0] + total[1]

(* mutant: the fees are taken before the losing vault is swept. *)
SettlePotUnswept(winner) ==
  IF winner \in Side
  THEN [pot EXCEPT ![winner] = @ - (ProtocolFee(PoolTotal)
                                     + CreatorFee(PoolTotal))]
  ELSE pot

(* What resolution leaves in the vaults: the winner's takes the loser's    *)
(* and pays the fees on the whole pool; a draw moves nothing.              *)
SettlePot(winner) ==
  IF winner \in Side
  THEN [s \in Side |->
          IF s = winner
          THEN pot[0] + pot[1]
                 - (ProtocolFee(PoolTotal) + CreatorFee(PoolTotal))
          ELSE 0]
  ELSE pot

(* The side that did better, or nobody when both did the same. *)
Outcome(winner) ==
  \/ winner \in Side /\ Performance(winner) > Performance(Other(winner))
  \/ winner = NoWinner /\ Performance(0) = Performance(1)

(* A winner shares the pool net of the fees; a draw refunds all of it.     *)
ResolveCompare(winner) ==
  /\ Unresolved
  /\ now >= duel.deadline
  /\ duel.twap_samples_count >= MinSamples(duel)
  /\ total[0] > 0 /\ total[1] > 0                \* else OneSideEmpty
  /\ start_price[0] > 0 /\ start_price[1] > 0
  /\ Outcome(winner)
  /\ pot' = SettlePot(winner)
  /\ duel' = [duel EXCEPT !.status = "Resolved", !.winner = winner,
                          !.net_pool = IF winner \in Side
                                       THEN NetOfFee(PoolTotal) ELSE PoolTotal]
  /\ UNCHANGED <<now, config, observed, total, openVault, deposit, creations,
                 paidOut>>

(* The full refund: no fee is taken. *)
DeclareDraw == /\ duel' = [duel EXCEPT !.status = "Resolved",
                                       !.winner = NoWinner,
                                       !.net_pool = PoolTotal]
               /\ UNCHANGED <<now, config, observed, moneyVars>>

(* mutant: the fallback too wants deposits on both sides. *)
EmergencyResolveCompareBothSides ==
  /\ Unresolved
  /\ now >= duel.deadline + EMERGENCY_WINDOW
  /\ total[0] > 0 /\ total[1] > 0
  /\ DeclareDraw

(* The draw anyone may declare once the emergency window has passed. *)
EmergencyResolveCompare ==
  /\ Unresolved
  /\ now >= duel.deadline
  /\ now >= duel.deadline + EMERGENCY_WINDOW
  /\ DeclareDraw

(* mutant: the winners' shares are measured by the whole pool. *)
PayoutOfWholePool(d) ==
  IF duel.winner = NoWinner THEN d.amount
  ELSE IF d.side = duel.winner THEN (d.amount * duel.net_pool) \div PoolTotal
  ELSE 0

(* mutant: a winner's share is rounded up. *)
PayoutRoundedUp(d) ==
  IF duel.winner = NoWinner THEN d.amount
  ELSE IF d.side = duel.winner
  THEN (d.amount * duel.net_pool + total[d.side] - 1) \div total[d.side]
  ELSE 0

(* Winners share net_pool by their stakes, rounded down. *)
Payout(d) ==
  IF duel.winner = NoWinner THEN d.amount
  ELSE IF d.side = duel.winner THEN (d.amount * duel.net_pool) \div total[d.side]
  ELSE 0

(* The payout comes from the vault of the deposit's side: the winner's     *)
(* vault or, in a draw, the depositor's own.  Losers are paid nothing and  *)
(* only have their account marked.  Neither the pause flag nor any fee is  *)
(* read.                                                                   *)
Withdraw(u) ==
  LET d == deposit[u]
  IN /\ Resolved
     /\ Unpaid(u)
     /\ Payout(d) <= pot[d.side]            \* or transfer_checked fails
     /\ pot' = [pot EXCEPT ![d.side] = @ - Payout(d)]
     /\ deposit' = [deposit EXCEPT ![u].withdrawn = TRUE]
     /\ paidOut' = paidOut + Payout(d)
     /\ UNCHANGED <<now, config, duel, observed, total, openVault, creations>>

(* The duel goes, and with it each vault that is empty.  Neither the       *)
(* deposits nor the vaults' balances are looked at otherwise.              *)
CloseCompareDuel ==
  /\ Resolved
  /\ duel' = NoDuel
  /\ total' = Zero /\ start_price' = Zero /\ accumulator' = Zero
  /\ openVault' = {s \in openVault : pot[s] # 0}
  /\ paidOut' = 0
  /\ UNCHANGED <<now, config, pot, deposit, creations>>

(* mutant: a deposit can be closed before it was withdrawn. *)
CloseDepositUnpaid(u) ==
  /\ Resolved /\ HasDeposit(u)
  /\ deposit' = [deposit EXCEPT ![u] = NoDeposit]
  /\ UNCHANGED <<now, config, duel, observed, total, pot, openVault, creations,
                 paidOut>>

(* The duel is an argument, so the account outlives a closed duel. *)
CloseDeposit(u) ==
  /\ Resolved
  /\ HasDeposit(u) /\ deposit[u].withdrawn
  /\ deposit' = [deposit EXCEPT ![u] = NoDeposit]
  /\ UNCHANGED <<now, config, duel, observed, total, pot, openVault, creations,
                 paidOut>>

Next == \/ Tick
        \/ UpdateConfig
        \/ \E d \in Deadlines, w \in Windows, i \in Intervals,
              m \in MinDeposits : CreateCompareDuel(d, w, i, m)
        \/ \E u \in Users, s \in Side, a \in Amounts : DepositSol(u, s, a)
        \/ \E price \in [Side -> OraclePrices] : RecordCompareTwap(price)
        \/ \E w \in Side \cup {NoWinner} : ResolveCompare(w)
        \/ EmergencyResolveCompare
        \/ \E u \in Users : Withdraw(u)
        \/ CloseCompareDuel
        \/ \E u \in Users : CloseDeposit(u)

Spec == Init /\ [][Next]_vars

(* Time passes, somebody declares the overdue draw, and every depositor    *)
(* asks for their money: each is free to call and gains by calling.        *)
(* Nobody is assumed to sample, to resolve or to close.                    *)
FairSpec == /\ Spec
            /\ WF_vars(Tick)
            /\ WF_vars(EmergencyResolveCompare)
            /\ \A u \in Users : WF_vars(Withdraw(u))

-----------------------------------------------------------------------------
DuelType ==
  [status : {"Uninitialized", "Active", "TwapObservation", "Resolved"},
   winner : Side \cup {NoWinner},
   deadline : Nat, twap_window : Nat, twap_interval : Nat \ {0},
   twap_samples_count : Nat, last_sample_ts : Nat,
   net_pool : Nat, min_deposit : Nat]

DepositType == [side : Side, amount : Nat, withdrawn : BOOLEAN, creation : Nat]

TypeOK == /\ now \in Nat \ {0}
          /\ config \in Config
          /\ duel \in DuelType
          /\ total \in [Side -> Nat]
          /\ start_price \in [Side -> Nat]
          /\ accumulator \in [Side -> Nat]
          /\ pot \in [Side -> Nat]
          /\ openVault \subseteq Side
          /\ deposit \in [Users -> DepositType]
          /\ creations \in Nat
          /\ paidOut \in Nat

(* The users whose deposit on side s was made in the present duel. *)
StakersOn(s) == {u \in Users : /\ HasDeposit(u)
                               /\ deposit[u].side = s
                               /\ deposit[u].creation = creations}

(* The sum of the amounts deposited, and of what is still to be paid, for  *)
(* the deposits of a set of users.                                         *)
AmountOf(us) == SumFunctionOnSet([u \in Users |-> deposit[u].amount], us)
ClaimsOf(us) == SumFunctionOnSet([u \in Users |-> Payout(deposit[u])],
                                 {u \in us : ~deposit[u].withdrawn})

(* Until the resolution a side's total, its vault and its depositors'      *)
(* accounts all tell the same amount, whatever an earlier duel at the      *)
(* address left behind.                                                    *)
TotalsBacked ==
  Unresolved => \A s \in Side : /\ pot[s] = total[s]
                                /\ AmountOf(StakersOn(s)) = total[s]

(* After the resolution what was paid and what is left make up net_pool    *)
(* (SPEC.md goal 1 and M2-3), and nothing is left on the losing side.      *)
NetPoolExact ==
  Resolved => /\ paidOut + pot[0] + pot[1] = duel.net_pool
              /\ duel.winner # NoWinner => pot[Other(duel.winner)] = 0

(* In the first duel at an address every vault covers the claims on it, in *)
(* whatever order they are made and rounded: no depositor is turned away   *)
(* because others came first (M2-1, M2-2).                                 *)
ClaimsBacked ==
  Resolved /\ creations = 1 =>
    \A s \in Side : ClaimsOf(StakersOn(s)) <= pot[s]

(* When every winner was paid, less than one unit per user is left over:   *)
(* rounding is all that winners lose (SPEC.md goal 10).                    *)
OnlyDustLeft ==
  /\ Resolved /\ creations = 1 /\ duel.winner # NoWinner
  /\ \A u \in StakersOn(duel.winner) : deposit[u].withdrawn
  => pot[duel.winner] < Cardinality(Users)

(* The samples taken fit in the window one interval apart, however many    *)
(* crankers race.                                                          *)
SampleBudget ==
  duel.twap_samples_count > 0 =>
    /\ WindowStart(duel)
         + (duel.twap_samples_count - 1) * duel.twap_interval
       <= duel.last_sample_ts
    /\ duel.last_sample_ts <= duel.deadline

(* A winner is what the record still says: sampled often enough, staked on *)
(* both sides, and ahead by the accumulated prices (SPEC.md goal 6).       *)
WinnerJustified ==
  duel.winner # NoWinner =>
    /\ duel.twap_samples_count >= MinSamples(duel)
    /\ total[0] > 0 /\ total[1] > 0
    /\ Performance(duel.winner) > Performance(Other(duel.winner))

(* A deposit keeps its side and amount, is marked withdrawn once, in a     *)
(* resolved duel and against the payout, and is closed only after that     *)
(* (SPEC.md goal 7 and SM-3).                                              *)
DepositFate ==
  [][\A u \in Users : HasDeposit(u) =>
       \/ deposit'[u] = deposit[u]
       \/ /\ Resolved /\ ~deposit[u].withdrawn
          /\ deposit'[u] = [deposit[u] EXCEPT !.withdrawn = TRUE]
          /\ paidOut' - paidOut = Payout(deposit[u])
       \/ deposit[u].withdrawn /\ deposit'[u] = NoDeposit]_vars

(* Stakes are placed before the window opens: nobody stakes on a price     *)
(* that was, or could have been, sampled.                                  *)
StakesPrecedeSampling ==
  [][Unresolved /\ Unresolved' /\ total' # total
       => /\ now < WindowStart(duel)
          /\ duel.twap_samples_count = 0]_vars

(* Status only moves forward until the account is closed, and a winner is  *)
(* final (SPEC.md SM-1, SM-2).                                             *)
Stages == INSTANCE Lifecycle WITH status <- duel.status,
                                  winner <- duel.winner,
                                  Reusable <- TRUE
LifecycleKept == Stages!Spec

(* Every deposit is paid out in the end, unless the authority closes the   *)
(* duel: no pause, no missing sample, no one-sided pool and no zero price  *)
(* locks it for ever.  Of later duels at the address it is not true: see   *)
(* DrawPaysDepositors.                                                     *)
EveryDepositSettled ==
  \A u \in Users :
    Unpaid(u) /\ creations = 1 ~> (HasDeposit(u) /\ deposit[u].withdrawn) \/ ~Live

(* SPEC.md goal 8: "In a draw, each depositor MUST receive exactly their   *)
(* deposited amount back"; close_compare_duel asks for a resolved duel     *)
(* only.                                                                   *)
DrawSafety ==
  [][Drawn /\ ~Live' => \A u \in Users : ~Unpaid(u)]_vars

(* SPEC.md M2-2, "each depositor receives exactly their deposit amount":   *)
(* a depositor of the present duel, once it is drawn, finds the amount in  *)
(* the vault.                                                              *)
DrawPaysDepositors ==
  Drawn => \A u \in Users :
             Unpaid(u) /\ deposit[u].creation = creations
               => deposit[u].amount <= pot[deposit[u].side]
=============================================================================
