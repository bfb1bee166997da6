# Duel protocol: specifications, model checking and proofs

This directory specifies the duel protocol in TLA+: the on-chain program
(`src/programs/duel`), the SDK's client (`src/sdk`), the crankers and the indexer
(`src/backend`, `src/scripts`) and the two pages on which users act (`src/app`). TLC
checks it on small instances and TLAPS proves the main safety properties for
every value of the constants. Each definition stands for lines of the source;
`PROJECT.json` ("map") says which.

## 1. The system

### 1.1 Components

| Component | Source | State it keeps | Operations |
|---|---|---|---|
| Bonding curve | `programs/duel/src/math/bonding_curve.rs` | none (pure functions) | `price`, `reserve_integral`, `tokens_out` (binary search), `sol_out` |
| Protocol configuration | `state/program_config.rs`, `instructions/{initialize,update}_config.rs` | pause flag, trade fee, creator's share, creation fee, minimum duration, admin, fee account | `initialize_config`, `update_config` |
| Mode 1 market | `state/{market,side}.rs` and ten instructions | `Market`, two `Side` accounts, two token vaults, two quote vaults | initialize, buy, sell, sample, resolve and graduate, emergency resolve, sell after a draw, close a vault, close the market |
| Mode 2 compare duel | `state/{compare_duel,deposit}.rs` and eight instructions | `CompareDuel`, two pool vaults, one `Deposit` per user | create, deposit, sample, resolve, emergency resolve, withdraw, close the duel, close a deposit |
| Oracle reader | `math/oracle.rs` | none | read, validate and scale a Pyth price |
| Graduation arithmetic | `resolve_and_graduate.rs` 505-547 | none | square root in Q64.64, initial liquidity |
| DEX and metadata calls | `cpi/*.rs`, `claim_pool_fees.rs` | external (Meteora DAMM v2, Metaplex) | create pool, lock position, claim fees, freeze the loser's metadata |
| Cranker | `backend/src/cranker.ts`, `scripts/cranker.ts` | in memory: `isProcessing`, `isShuttingDown`, counters | poll: sample or resolve each market |
| Indexer and database | `backend/src/indexer.ts`, `db.ts`, `migrations/` | Postgres: `markets`, `trades`, `twap_samples`, `indexer_state` | handle event, sync, backfill, refresh reserves |
| Deployment | `backend/docker-compose.yml`, `migrate.ts`, `index.ts`, `db.ts` | the schema; which processes run | start, migrate, serve, stop, restart |
| API | `backend/src/routes/*.ts` | none | read-only queries, health |
| SDK client | `sdk/src/client.ts`, `pda.ts`, `types.ts` | none; what a caller holds is a transaction built on fetched accounts | build transactions, derive addresses, quote prices |
| Web application | `app/` | React state: account, own position, `loading`, `depositing`, `withdrawing` | poll, click, send, confirm, reload; price estimates |
| Analytics indexer | `sdk/src/indexer.ts`, `run-indexer.ts` | in memory: counters per market and in all | backfill, count an event, snapshot |
| Supabase indexer script | `scripts/indexer.ts` | a Supabase database | an earlier form of the backend's indexer |
| Lean proofs | `formal_verification/` | none | earlier proofs over hand-written state machines |

### 1.2 How they interact

Everything that matters is shared account state on the ledger. An instruction is
one transaction, atomic and isolated; *between* instructions anything may happen:
another trader, another cranker, the admin changing fees or pausing, the creator
closing accounts, the clock. So the interleavings to worry about are those of
whole instructions of many signers, over accounts with lives of their own: the
market, its two sides, its four vaults, the SPL mints, the duel, its vaults and
the deposits are each created and closed by instructions that see only some of
the others.

Off chain, every participant works on copies: it fetches accounts, decides, and
sends a transaction that arrives later, on accounts that others have changed.
The crankers decide on a clock and a snapshot, the client derives a winner's
vault or a fee account from what it fetched, a page draws its buttons from a
poll. The program checks everything again, so the question is in each case what
a stale copy can still do. The indexer follows logs through a websocket and
repairs what it missed by a synchronisation and a backfill at start. Indexer,
cranker and server share one Postgres database and migrate it at every start.

### 1.3 What is hard here

* **Money across many steps.** A vault must cover every later sale at a price
  that depends on all earlier buys and sales, under a fee that changes in
  between, with three different truncating divisions on the way.
* **A resolution nobody is obliged to trigger.** Sampling and resolving are
  permissionless and may never happen; the way out is a time-out (`deadline +
  emergency_window`) that the test suite cannot wait for
  (`tests/compare-duel.ts:1393`).
* **Two ways to resolve one account** (by samples, by time-out), both open to
  anyone, racing.
* **Closing.** Rent is reclaimed by instructions that close vaults, markets,
  duels and deposits separately and in any order; an address can then be used
  again.
* **Boundary instants.** `now = deadline` is still in the sampling window, closed
  for trading and open for resolution; `now = deadline - twap_window` is the
  first instant of sampling and the first one closed to deposits.
* **Crankers.** A loop awaits a dozen requests per market between reading the
  clock and sending a resolution; ticks of the script overlap; a request has no
  time-out; a transaction may land although its sender saw an error.
* **Indexer.** Handlers of events run concurrently without being awaited, a
  cursor is overwritten by whichever ends last, the backfill goes from new to
  old, notifications are dropped, and the process may die between any two writes.
* **Client.** A transaction is built on one state and executed on another.
* **Pages.** Polls overlap, and an older answer can arrive after a newer one; the wallet is switched under
  open requests; handlers keep the values of the render they were clicked in; phases come from the
  browser's clock, and no page looks at the pause flag.

### 1.4 What makes each component correct

* Curve: price and reserve monotone; what a quantity costs does not depend on how it is
  split; a round trip never pays; `tokens_out` returns the largest affordable
  amount and its unsigned indices never wrap; nothing overflows 64 bits; the
  floating-point copies agree with it where floats are exact.
* Configuration: rates stay below their limits; the shares of a fee add up.
* Market: every vault stays solvent, tokens are conserved, samples are spaced and
  bounded, a graduation is justified by the record and takes everything, a draw leaves
  every holder covered, nothing trades after the deadline, status moves forward, a market
  is resolved in the end.
* Duel: totals, vaults and deposits agree; the pool is paid out exactly, up to
  rounding; a winner is justified by the record; a deposit is paid once;
  stakes precede sampling; every deposit can be settled in the end.
* Cranker: staleness only costs failed calls; a decision made after the deadline
  is the program's; a market that can graduate does, while the daemon lives.
* Indexer: a row never shows what the chain did not have; an event is recorded
  at most once per start; an undisturbed start repairs the row.
* Client: what the program writes is declared writable; a late transaction does
  what a fresh one would do or nothing; a market id is used once.
* Pages: a button on current data works, or is one of a few that are known not to; nobody is denied the
  button of what is due to them; pending marks are true; the page converges to the chain.

## 2. Modules

| Module | Models | Kind |
|---|---|---|
| `BondingCurve` | `price`, `reserve_integral`, `sol_out` and what `tokens_out` promises | operators |
| `TokensOutSearch` | the loop of `tokens_out`, one action per way through its body | state machine; implements `IsTokensOut` |
| `SdkMath` | the SDK's search (`calculateTokensOut`) and the page's two estimates, on the same side after the program's search; floating point rounded operation by operation | state machine; its theorem `ClientsOnlyRead` makes every behaviour one of `TokensOutSearch` |
| `ProgramConfig` | the config account, `update_config`, the fee arithmetic | shared by `Market` and `CompareDuel` |
| `Twap` | window, interval and minimum number of samples | shared operators |
| `Oracle` | what a read of a price account yields: validation, scaling, overflow | operators |
| `Market` | a Mode 1 market, all its instructions and the clock | state machine; implements `Lifecycle` |
| `CompareDuel` | a Mode 2 duel address with all its users | state machine; implements `Lifecycle` |
| `Lifecycle` | what status and winner promise, and nothing else | abstract specification |
| `Cranker` | the production cranker: the daemon and one invocation of its loop, and the program as it sees it | actions |
| `ScriptCranker` | the cranker script, its overlapping ticks, and both crankers together | state machine |
| `Accounts` | every instruction as a function of the accounts a transaction names: what must exist, what is derived, created, written, closed | operators |
| `Idl` | the generated interface: which account of each instruction is writable | operators |
| `Client` | the 20 transaction builders, and transactions that land later than they were built | state machine over `Accounts` and `Idl` |
| `Indexer` | one market's rows and the cursor under all tasks of the indexer process | state machine |
| `Services` | four processes that migrate one database at each start | state machine |
| `WebApp` | a mounted market or compare page: renders, polls, click handlers | state machine |
| `Arithmetic_proofs`, `TokensOutSearch_proofs`, `Market_proofs`, `CompareDuel_proofs`, `Client_proofs`, `Cranker_proofs`, `Indexer_proofs`, `WebApp_proofs` | | theorems |
| `MCTokensOutSearch`, `MCMarket`, `MCCompareDuel`, `MCCranker`, `MCClient`, `MCIndexer`, `MCWebApp` | | TLC instances |

`Market` extends `BondingCurve`, `ProgramConfig` and `Twap`; `CompareDuel` extends
`ProgramConfig`, `Twap` and `Oracle`. Both instantiate `Lifecycle` with a refinement mapping
that reads `status` and `winner` off the account. `SdkMath` extends
`TokensOutSearch`, whose steps are its first phase (`turn` says whose loop runs); `ScriptCranker` extends `Cranker`, which extends `Twap`; `Client`
extends `Accounts` and takes the interface as an instance of `Idl`.

The program appears three times, at three resolutions: in full (`Market`,
`CompareDuel`), as the accounts a transaction touches (`Accounts`), and as the few fields
a cranker or a page reads (the first section of `Cranker` and of `WebApp`). Each is
translated from the same handlers.

### 2.1 Market: state and actions

| Variable | In the code |
|---|---|
| `now` | `Clock::get()?.unix_timestamp`; every action between two ticks sees the same instant |
| `config` | `ProgramConfig` |
| `market` | the fields of `Market` that a guard or a property reads; `"Uninitialized"` before `initialize_market`, `"Closed"` after `close_market` |
| `circulating`, `accumulator` | `Side.circulating_supply`, `Side.twap_accumulator` |
| `tokenVault`, `quoteVault` | SPL balances of the vaults |
| `openToken`, `openQuote` | which vault accounts exist |
| `held` | side tokens in the hands of the public, all users together: no instruction of the program asks who holds them |
| `pool` | what graduation handed to the DEX |

| Action | Instruction |
|---|---|
| `InitializeMarket` | `initialize_market`: account constraints, validation, creation of vaults and supply |
| `BuyTokens`, `SellTokens` | `buy_tokens`, `sell_tokens`: fee split, curve, every transfer |
| `RecordTwapSample` | `record_twap_sample` |
| `ResolveAndGraduate` | `resolve_and_graduate`: winner, tiebreak, sweep, pool, final state |
| `EmergencyResolve` | `emergency_resolve` |
| `SellPostResolution` | `sell_post_resolution` |
| `CloseQuoteVault`, `CloseMarket` | `close_quote_vault`, `close_market` |
| `UpdateConfig`, `Tick` | `update_config` at any moment, time |

`resolve_and_graduate` calls Meteora and Metaplex. An error there fails the whole
transaction, so the model's action stands for the call in which they succeed, and the
graduation may also never succeed: no fairness is assumed of it.

### 2.2 CompareDuel: state and actions

`duel` is the account at one address (the seeds are creator and `duel_id`),
`"Uninitialized"` when there is none; `total`, `start_price` and `accumulator`
are its per-side fields; `pot` and `openVault` are the pool vaults; `deposit[u]` is
the user's `Deposit` account, which outlives a closed duel. `creations` and
`paidOut` are history variables: they appear in no guard except the bound
`MaxCreations`. Actions: `CreateCompareDuel`, `DepositSol`, `RecordCompareTwap`,
`ResolveCompare`, `EmergencyResolveCompare`, `Withdraw`, `CloseCompareDuel`,
`CloseDeposit`, `UpdateConfig`, `Tick`, each the instruction of that name.

An oracle read (`Oracle`) validates and scales what some account of `Feeds` says; a
price that is not positive, too uncertain or too large for 64 bits fails the
call. `scale_price` divides when the exponent is below -9, so a small positive price scales to 0. The
age of a price is not checked by the code (`MAX_ORACLE_AGE_SECS` is declared in
`constants.rs:34` and never used), so successive reads are unrelated.

### 2.3 Crankers: state and actions

`now` is the cluster's clock; `chain[m]` the fields of market `m` a cranker reads
or changes; `atas` the token accounts that exist for market PDAs. `loop[l]` is an invocation of
`crankerLoop`: `pc` names the request it awaits, `clock` the local time it
started with (`Skew` is the difference from the cluster's), `snap` the accounts it fetched, `todo` the markets not yet
dealt with. `isProcessing` and `isShuttingDown` are the daemon's flags and
`phase` says how far its `main` has come.

| Action | Code |
|---|---|
| `StartTick`, `FetchMarkets`, `TakeMarket`, `LoopEnds` | the poll timer, the list of markets, one turn of the `for` loop, the `finally` block |
| `ReadSide`, `PickWinner`, `EnsureAtas` | the awaits between the decision to resolve and the transaction |
| `Confirmed`, `Rejected`, `Unconfirmed` | a transaction executes and is confirmed; is refused; executes and its sender sees an error |
| `RequestFails`, `RequestHangs` | an await throws, or never ends |
| `Signal`, `Exit` | SIGTERM before and after the handlers are installed, the ten second limit |
| `StartScriptTick`, `Script...` | the same requests on a timer that looks at no flag |
| `Tick`, `Trade`, `EmergencyResolve` | the program and its other users |

### 2.4 Client: state and actions

`data[x]` is the account at address `x` (`Absent` if there is none), addresses are
tuples of seeds, `clock` is before the window, in it, past the deadline or late.
`pending` is a transaction that was built and has not landed. `Build(a, d)` is what the builder of
request `a` makes of the accounts `d`; `Submit(a)` runs it on what is fetched now; `Land` executes it on the accounts of that moment; `Drop` loses it;
`Others(a)` is anybody else's transaction; `Pass` and `Report` are time and prices.
An instruction in `Accounts` is a function from accounts, addresses and request to
its set of outcomes, the empty set when it fails; an outcome whose written accounts are
not all locked fails as a whole (`Permitted`).

### 2.5 Indexer and services: state and actions

`ledger` is the program's log of events, `row`, `inserted` and `cursor` what the
database holds, `task[t]` what the task `t` awaits: `main` (0), a handler per
event, the reserve timer. `Start`, `ListSignatures`, `BackfillNext`, `startEventListener` are `main`'s
phases; `handleEvent`, `SetState`, `FetchMarket`, `FetchSides`, `WriteSync` the
awaits of a handler or a synchronisation; `UpdateReserves`, `WriteReserves` the
timer's; `RequestFails` and `Crash` the failures. An upsert that leaves out a NOT
NULL column fails although the row exists, because Postgres checks the proposed row
before it looks for the conflict: of the handlers only `MarketCreated`'s changes the
row, through the synchronisation that follows it. `Services` has the schema, whether
the database answers, and how far each process has come.

### 2.6 Pages: state and actions

`chain`, `own` and `clock` are the account, what each wallet holds of it and the
time. `wallet` is the connected one, `view` the React state a page is rendered from, with `loading`, `depositing`,
`withdrawing`. `request[r]` is an open `fetchData` with the wallet of the render it
belongs to and, in `got`, the answer that is on its way; `handler[h]` is a click's handler with the values it
was clicked with. Both are numbered in the order in which they start.

| Action | Code |
|---|---|
| `Poll` | the interval timer calls the `fetchData` of the current render |
| `Answer` | the endpoint answers a request for the account, or for what the wallet has of it, with what it has then |
| `FetchAccount`, `FetchSides`, `FetchOwn`, `FetchFails` | the answer arrives: the state is set and the next request sent; or the `catch` |
| `Click`, `Land`, `Confirm`, `Reload`, `Refused`, `TimesOut` | handler up to the transaction, the instruction on chain, confirmation, the `setTimeout`, the `catch` |
| `SwitchWallet`, `Pass`, `Resolve` | the wallet adapter, time, a cranker |

Between `Answer` and arrival the account may change and other requests of the same wallet may be
answered and shown: an old answer overwrites a newer one. `FetchSides` needs no `Answer`, because what the page uses of
the sides, their addresses, never changes; the vaults' amounts only feed the estimates.

Two inputs are parameters and not state, because nothing orders them with the page's steps. A
transaction lands under either value of the pause flag (`BuyAccepted` and the other `...Accepted` take it), and
a render may show any time at all on the browser's clock (`Buttons(now)`), whatever the cluster's `clock` says: the
skew is not bounded.

### 2.7 The client's arithmetic: state and actions

`supply`, `sol` and `best` are the program's, from `TokensOutSearch`. `sdkLo`, `sdkHi`, `sdkBest`
are `lo`, `hi`, `best` of `calculateTokensOut`; `at` and `remaining` are `supply` and `remaining` of the page's loops,
`tokens` and `lamports` what these return.

| Action | Code |
|---|---|
| `ProgramStep` | a step of `tokens_out` |
| `calculateTokensOut`, `LookAbove`, `LookBelow`, `NothingBetween` | call, the two branches of the loop's body with their exits, the loop's condition |
| `estimateTokensOut`, `BuyStep`, `BuyRest`, `BuyEnds` | call, a whole step (or one that is free), the partial step that breaks off, the loop's condition |
| `estimateSolOut`, `SellStep`, `SellEnds` | the same for a sale of what the buyer got |

A double is a whole number of the smallest positive ones (`One` of them make 1), and rounding goes to the
nearest multiple of the spacing (`Grid`) around the exact quotient, the even one of two. `Over` and `FloorOfSum`
round after each operation of `calculatePrice` and `calculateReserve`; the difference of two reserves is rounded too. Three
things are taken from JavaScript: supplies and amounts are integers a double holds, `Math.pow` of an integer is rounded
once, and no quotient of the curve is near underflow (`SdkAssumption`, which 53 and 1074 digits meet by far).

### 2.8 What is abstracted

* Signers: an action is a call whose signer passes the check. The authority's
  and admin's calls are therefore possible at any moment.
* `market.locked`: set and cleared within one instruction, never seen set by another.
* Slippage arguments: a call that misses its slippage fails and changes nothing.
* Fee destinations: what leaves for the fee accounts is subtracted, not followed.
* SPL transfers and burns outside the program: side tokens move between users
  freely (they are one amount, `held`), but nobody sends tokens directly to a
  vault or burns them.
* Widths: the theorem `CurveFitsU64` bounds every value of the production curve by its value
  for the whole supply T = 10^9: T*T + T = 10^18 + 10^9 for reserves and prices (u64), T*T*T = 10^27
  for the products (u128), so no operation of the curve overflows; `SampleBudget` bounds the samples and with them the
  accumulators. Amounts of quote tokens are naturals.

## 3. Runs

| Run | Question | States | What it shows |
|---|---|---|---|
| `search` | does the binary search return the best amount, and do its copies agree? | 36,744 | all 13 supplies and all 158 quote amounts; the bracket invariant, correctness, no free round trip; the SDK's and the page's loops beside it; all four loops end |
| `market` | is a market safe under every interleaving, and resolved in the end? | 1,174,380 | type, solvency, conservation, sampling, graduation, draw, closing, freeze, lifecycle, resolution |
| `duel` | is a duel safe under every interleaving? | 367,452 | totals, exact pool, claims, dust, winner, deposits, lifecycle; three users |
| `duel_live` | is every deposit settled in the end, at an address used twice? | 376,238 | `EveryDepositSettled`, and a second duel that starts from exactly its own deposits |
| `cranker` | what can stale, failing and overlapping crankers do? | 875,536 | winners by the final record, exact late decisions, resolution in the end |
| `indexer` | what can a row of the database show? | 1,436,114 | true rows, no event recorded twice by one start, repair at a start |
| `client` | does a transaction do what its builder saw? | 230,766 | writable flags, staleness, reuse of a market id |
| `web` | do the pages offer what works, and show the chain in the end? | 1,710,925 | buttons under any pause and any browser clock, pending marks, convergence |
| `duel_close` | violation | | a drawn duel is closed over unpaid deposits (section 6) |
| `duel_reuse` | violation | | a deposit of the earlier duel is paid from the later one's pot (section 6) |
| `migrations` | violation | | a second start fails in the second migration (section 6) |
| `creation_fee` | violation | | no creation succeeds while a creation fee is set (section 6) |

### 3.1 Bounds

* `search`: a curve with `CURVE_SCALE` 4 and 12 tokens, steep enough for the
  quadratic term and its truncation to show; the quotes run from 0 to one more than the
  whole supply costs, so both early returns, all exits of the loop and a buyer
  that buys out the curve occur. Floats have 9 bits of mantissa (`MANTISSA`), so that
  reserves are guaranteed up to five tokens (`PreciseReserve`) and prices everywhere; at eleven tokens the SDK's reserve is off by
  one and so are some of its answers: both halves of `MirrorsAgree` are met. `FRACTION` 13 is the least that
  `SdkAssumption` allows. The page's estimates walk in steps of 2 (`STEP`), so whole and partial steps occur.
* `market`: three tokens a side that cost 1, 2 and 6 in all. The offer of 1 is too
  small for a fee, the offer of 4 pays one and leaves dust. Deadline 4, window 2,
  interval 1, clock up to 5, emergency window 1: there is room for two instants of
  trading outside the window, three sampling instants, a deadline instant and one for the
  emergency. Fee rates 0 and 3 of 10, and 4, which is refused. `MaxReserve` bounds what one vault may
  collect; it is above the price of the whole supply, so surplus dust accumulates.
* `duel`: three users, so that two can share a win and one lose; stakes 2 and 3 with a fee of 3 in
  10, so that shares do not divide evenly; prices 1 and 2, so that a side can rise, fall
  or tie; among the feeds one of each kind that is refused (`U64_MAX` 20, `BASE` 2). `duel_live`: two users and two creations, with deadlines 3 and 6 so
  that the second fits in the clock; it adds the price 0, which leaves
  a duel without a valid start.
* `cranker`: one market with deadline 2, a window of one instant before it and room
  for two samples, clock up to 3, where the emergency window ends. The daemon and one tick of
  the script overlap in every order; one request of the daemon may fail, hang or go
  unconfirmed, any number of the script's may fail. The local clock is one ahead (`Skew`), so the loop acts before
  the cluster agrees. Reserves 0 and 1 make a tie, a lead of either side and a
  market too poor to graduate.
* `indexer`: four events (a creation, up to two trades, a resolution, a closing, in
  any legal order), slots that may coincide, a backfill of three signatures, so that
  the creation can fall out of it, two starts with a crash anywhere, one failed request per start.
* `client`: two wallets, one of them creator and administrator, two interchangeable fee
  accounts (hence the symmetry), a supply of two tokens a side of which a wallet holds at most one (`MaxHeld`), so
  that a side can be empty, held or sold; `StaleEqualsFresh` compares one pending transaction with every state
  that any sequence of the others can produce. `creation_fee` sets `CreationFees` to 1.
* `web`: two wallets, two requests open at a time, two clicks in all, one switch of the wallet and one
  failure. Two requests are what it takes to overtake, two clicks to double a deposit or a mark. The page is mounted with a
  wallet; the switch may be to the other one or to none.
* `migrations`: all four processes, no bound.
* `MaxTime` stops the clock, `MaxCreations`, `MaxEvents` and `MaxStarts` what repeats: at
  the bounds the model may deadlock where the system would only wait, hence `CHECK_DEADLOCK FALSE` in every
  cfg. (A search that is done and a closed market have nothing left to do.)

Symmetry is used over users and over fee accounts, in runs without liveness
only; both are interchangeable model values.

## 4. Fairness

Only what a participant can do alone and gains by, or a timer does, is assumed.

* `WF(Tick)`: time passes.
* `WF(EmergencyResolve)`, `WF(EmergencyResolveCompare)`: the call is
  permissionless, reads of the config account nothing but its address (so the pause does not stop it), needs
  nobody's cooperation, and every holder or depositor with money inside gains by it. It stays enabled until somebody
  resolves.
* `WF(Withdraw(u))`, for each user: the caller is the depositor, who gains.
* `WF(SdkNext)` in `SdkMath`: a loop runs inside one instruction or one call.
* `WF(DaemonStep)`, `WF(Exit)` in `ScriptCranker`: the daemon's poll timer fires and
  its requests are answered, unless one hangs, which is a step of the model and excuses
  the daemon for good (`DaemonGone`); its ten-second exit timer fires. Of the script, of traders
  and of whoever may declare an emergency nothing is assumed.
* `WF(\E r : Poll(r) \/ FetchStep(r))` in `WebApp`: the interval timer keeps firing, and as long as requests are
  open some request is answered in the end; another may hang for ever. Nothing is assumed of the user, the wallet, a
  transaction, its reload, time or a cranker.

For market and duel nobody is assumed to sample, to resolve with a winner, to graduate, to unpause or
to close: the cranker swallows errors and may be down, and it never calls the emergency
instructions. The liveness results thus say that neither a pause nor a missing cranker,
a one-sided pool, a zero price or a reserve too small to graduate can keep a market or a duel from being
resolved. Of a duel they go on to the depositors: `withdraw` does not look at the pause, so each deposit is settled. Of a
market they stop at the resolution: after a draw `sell_post_resolution.rs:68` refuses while the protocol is
paused, so its holders wait for whoever may unpause it.

## 5. Properties

Stated and commented in the modules. The ones worth knowing:

* `Solvent`: each quote vault holds the cost of buying back every circulating token. It
  spans buys under any fee, sales, the pause, the draw and the sales after it.
* `TokensConserved`: circulating supply is what the public holds and every
  minted token is accounted for, through graduation too.
* `SampleBudget`: however many crankers race, the samples fit in the window one
  interval apart.
* `GraduationComplete`: a winner is what the accumulators still say, enough samples back it, and neither vault keeps anything.
* `DrawCovered`, `NobodyStranded`: closing in any order never takes the money from under a holder.
* `FrozenFromDeadline`: the tiebreak reads the reserves of the deadline.
* `TotalsBacked`, `NetPoolExact`, `ClaimsBacked`, `OnlyDustLeft`: the accounting
  of a duel, from the stakes to the last unit of rounding.
* `WinnerJustified`, `DepositFate`, `StakesPrecedeSampling`.
* `LifecycleKept`, in both: the component implements `Lifecycle`.
* `EventuallyResolved`, `EveryDepositSettled`, `EveryLoopEnds`: liveness.
* `MirrorsAgree`: while the floats are exact around the answer the SDK returns and quotes what the program
  pays, although its search also probes the curve where they are not; elsewhere its answer is affordable, and the next amount is not, but
  for the slack of two reserves. Where prices are exact, the page's estimate is no less than a buyer gets and no more
  than a seller gets. "Exact" asks for one bit more than it seems: that the terms of the curve fit the mantissa is
  not enough, because quotient and sum are rounded in turn and two roundings can lift a sum that is below the next integer over
  it. With a mantissa of 4 bits, A = B = scale = 1 and two tokens the reserve is 8/3 + 2, truncated 4, but 8/3 becomes 2.75 and the sum, 4.75,
  becomes 5. Hence the factor 2 in `PreciseReserve` and `PrecisePrice`.
* `WinnerOfRecord`: no interleaving of stale crankers resolves a market against its
  final record. `LateDecisionsExact`: a decision that started after the deadline on the
  cluster's clock is the program's own. A decision started earlier need not be, since the
  loop divides new accumulators by an old count (`cranker.ts:255-261`); it is refused and made again.
  `EventuallyCranked`: a market that can graduate is resolved unless the daemon is gone.
* `RowsTrue`, `AtMostOncePerStart`, `StartupCatchesUp`: what concurrent handlers, replays
  and crashes leave in the database. `trades` and `twap_samples` have no unique key: a restart does
  record an event again, once.
* `WritesDeclared`, `StaleEqualsFresh`, `MarketIdUsedOnce`: a client's transaction.
  The last rests on the mints, which are never closed; a duel's id, whose accounts are all closed, can be used again.
* `ButtonsWork`, of a page that shows what is on chain, under any browser clock and either value of the pause flag. An
  enabled button is accepted unless it is one of the dead ones that `DeadButton` names, and those are all refused: anything
  but a withdrawal while the protocol is paused; a sale after a resolution with a winner; what a page whose clock is
  past the deadline offers before anybody has resolved; a trade or a deposit on a page whose clock is behind. And
  a call the program would accept and the wallet gains by is withheld only while one of its kind is
  pending or, before the resolution, by a clock that is ahead: no clock hides a payout.
* `FlagsTrue`, `PageConverges`: pending marks are true, and late answers do not leave the page wrong for good.

Each has a mutant in `PROJECT.json`: a plausible bug (a dropped guard, a fee taken
before the sweep, a flag that stays set...), defined next to the operator it
replaces and marked `mutant:`, under which TLC finds the property violated.

## 6. Where the code and its documents part

1. **A drawn duel can be closed over unpaid deposits** (`duel_close`).
   `close_compare_duel.rs:13-18` asks for a resolved duel, not for withdrawn
   deposits. The vaults that still hold money stay, but `withdraw` takes the `CompareDuel` account, which is gone.
   `SPEC.md` goal 8 says that in a draw each depositor must receive exactly the
   deposited amount; a comment of the test (`tests/compare-duel.ts:1406`) says that closing requires the deposits to be withdrawn.
2. **A deposit of an earlier duel is good for a later one at the same address**
   (`duel_reuse`). A losing depositor has no reason to withdraw; the vaults empty,
   the duel is closed and its id is used again. The old `Deposit`, not withdrawn, passes the checks of
   `withdraw.rs:20-22`, is paid from the new pot, and the new depositors' draw
   (`SPEC.md` M2-2) comes up short.
3. **The migrations are not idempotent** (`migrations`). `runMigrations` executes every file at
   every start and records nothing; `002_refactor.sql:28` renames a column that
   after the first time is no longer there. The first process to start renames it, every later start fails and exits.
   The callers say "Run migrations (idempotent)" (`index.ts:69`, `cranker.ts:450`).
4. **A creation fee stops all creations** (`creation_fee`). The fee account of
   `initialize_market.rs:117-122` and `create_compare_duel.rs:68-72` is not `mut`, nor writable in `types.ts:1049-1051`; with
   `market_creation_fee > 0` the handlers transfer lamports to it and the runtime
   refuses. `program_config.rs:13` describes the fee as usable; the test stores one and never creates under it.

Two more were met and are no findings, because no document says otherwise or the
case is out of reach: the empty *token* vault of a sold-out side of a drawn
market can be closed, after which its holders cannot sell (`close_quote_vault.rs:81`;
with the program's curve a side sells out for about 333 million units of 10^9), and a page
offers calls the program refuses (`DeadButton`): a sale after a resolution with a winner, and everything but a
withdrawal while the protocol is paused, of which no page says a word.

## 7. Proofs

TLAPS checks all of these for every value of the constants, from the named
assumptions `CurveAssumption`, `ConfigAssumption`, `MarketAssumption`,
`DuelAssumption`, `OracleAssumption`, `SolsAssumption`, `SdkAssumption`, `AccountsAssumption`, `CrankerAssumption`, `IndexerAssumption` and `WebAssumption`, which TLC evaluates in each run. They ask
for the sorts of the constants, positive divisors, distinct model values and `MAX_TRADE_FEE_BPS <=
BPS_DENOMINATOR`.

* `Arithmetic_proofs`, of the curve: the price is monotone (`PriceMonotone`); a vault needs
  at least one unit more for every further token (`ReserveGrows`); a budget that is split
  into two purchases never buys more than it buys at once (`SplitBuysNoMore`); a round trip does not pay (`RoundTrip`); on a curve shaped like
  the program's (A = B = 1, scale = supply) every value fits its type if T*T + T and T*T*T do
  (`CurveFitsU64`; the limits are parameters because the SMT translation takes no literal that
  large). All rest on `DivMonotone`, proved from
  the definition of integer division, and on monotonicity of products. Of fees and samples: the three parts
  of a fee add up to the amount (`FeesAddUp`), configuration keeps its type, one more sample fits in the window.
  Of sums over depositors: the fold of the community modules counts units (`SumIsUnits`: a sum is the
  cardinality of a set with `a[u]` members for each `u`), so a member can be added or
  taken away (`SumWithout`), a part is never more than the whole (`SumOfFewer`), and truncated shares of a pool add
  up to it but for less than one unit each (`SharesOfPool`). The induction these need is
  made by hand: a smallest subset for which the claim fails would fail without one of its members too (`MinimalSubset`).
* `TokensOutSearch_proofs`: `SearchInv == TypeOK /\ Bracketed` is inductive; at the exit the
  bracket gives `SearchCorrect`, and with it `NoFreeRoundTrip`. `Bracketed`
  is the strengthening: it says what is known of the amounts on each side of the bracket, and its use
  needs `ReserveGrows` (all amounts below an affordable one are affordable).

  Then the clients. First floating point, from the definition of a double and for every
  precision: the spacing of doubles around a number is the one power of two that brings it into the
  range of the mantissa (`SpacingUnique`, `GridSpacing`: `Grid` and `Two` are recursive functions, whose equations
  are proved by looking at the least number they would fail for), so `Float` is a nearest double (`FloatRounds`, `FloatNear`), monotone
  (`FloatMonotone`), and the identity on numbers that fit (`IntegersExact`). From these the two lemmas on `Math.floor(a / d + c)`:
  with a bit to spare it is the integer quotient (`FloorOfSumExact`: the fraction of the quotient is at least 1/d away from
  the next integer, which is more than the roundings amount to), and in any case it is within one unit and four roundings of it (`FloorOfSumClose`). This gives `SdkReserve`, and
  with the numbers of `constants.rs` and 53 bits `ExactOnTheProgramsCurve`: reserves exact up to 159,087 tokens, prices
  up to 67,108,856.

  `SdkInv` is inductive over the four loops: it adds to `SearchInv` that the SDK's search keeps its own
  answer in its bracket (its reserve is monotone, so this holds where the amounts are wrong too), that the page charges a buyer
  no more for the steps so far than the curve does (`StepsPaid`, with `CostAtLeastPrice`) and hence finds enough tokens (`EnoughTokens`),
  and that it gives a seller no more than the curve does (`StepsSold`). From it `MirrorsCorrect`: the program's answer and the SDK's
  are both the largest affordable amount, of two costs that agree up to `top` (`SameAnswer`) or within the slack (`CloseAnswer`). TLC checked `SdkInv` as an invariant of
  the run first. The guarantee of 159,087 tokens is not sharp: a search outside TLC finds the SDK's reserve off by one at 1,665,000 tokens.
* `Market_proofs`: `MarketInv` is inductive. It joins the run's invariants with what they need beyond
  themselves: an account that does not exist has no history (`Blank`), only a
  resolved or closed market has a winner and only an observed one has samples
  (`StatusFits`), the quote vaults are open until the resolution and, in a draw, as long as
  their side has holders (`VaultsUsable`). `Solvent` rests on one algebraic fact per
  operation (a buy adds at least `Cost`, a sale takes exactly `SolOut`), `SampleBudget` on
  `OneMoreSampleFits`. From it: the seven invariants, `FrozenFromDeadline` and
  `LifecycleKept` (the initial states map to initial states, each action to a step of
  `Lifecycle` or a stutter).
* `CompareDuel_proofs`: `DuelInv` likewise adds that nothing is left of a closed account
  (`ClosedIsBlank`), that until the resolution the vaults hold the totals and nothing was
  paid (`PotsMatch`), which makes the exact pool inductive, and `StatusFits`. From it:
  type, `NetPoolExact`, `SampleBudget`, `WinnerJustified`, `DepositFate`,
  `StakesPrecedeSampling`, `LifecycleKept`. Of the oracle: scaling keeps the order of two
  reads of a feed (`ScalingKeepsOrder`), every price fits 64 bits, and hence the accumulators
  their 128 (`DuelAccumulatorsFit`). Then the sums. `StakesInv` adds to `DuelInv` that a deposit belongs to
  this duel or an earlier one at the address (`Dated`) and that nobody withdraws before the resolution; with it
  `TotalsBacked` is inductive for any number of re-creations. `ClaimsInv` says of the first duel that each vault is
  `Covered`: it holds what its unpaid stakers are owed, in a draw exactly that, and the winner's vault less than
  one unit per user more. A resolution establishes it (`SharesOfPool`, with `net_pool` as the pool), a
  withdrawal takes the same amount from both sides, closing a deposit that was paid changes neither sum. From
  it: `ClaimsBacked`, `OnlyDustLeft`, and `DuelTurnsNobodyAway`: no withdrawal fails for want of money and a draw refunds in full.
  Of later duels at the address the last three are false (section 6, 2), which is why they speak of the first.
* `Client_proofs`, for any wallets, traders, fee accounts and supplies. For each of the twenty instructions one
  lemma (`...Roles`) gives the addresses its builder fills in and the locks the interface gives them, and
  another (`...Lands`) what the program writes there, for a transaction built on some accounts `d0` that lands on others;
  `RunLands` and `OutcomesLand` put them together. `ClientInv` is inductive: the accounts of the duel keep
  their shape (`DuelsAre`: vaults exist while it does, both totals are positive once there is a winner), the
  configuration charges a fee an admin asked for (`ConfigCharges`), the first mint of a market stays (`MintsStay`), and a
  waiting transaction is what the builder makes of *some* accounts of that shape (`PendingBuilt`, an existential
  over all accounts that TLC cannot evaluate; the other parts were checked with the run's constants).
  From it `MarketIdUsedOnce`; `StaleEqualsFresh`, with one reason per instruction why the program refuses what is
  stale (the fee account is checked against the configuration or the duel, a deposit that is owed something against its vault,
  and one that is owed nothing takes nothing from either); and `WritesDeclared` while no creation fee
  is configured (`ClientWritesDeclaredWithoutFee`), hence always if none is ever asked (`CreationFees \subseteq {0}`,
  what the run `client` has; without that hypothesis it is false, see the run `creation_fee`).
* `Cranker_proofs`, for any number of loops and markets: type correctness; `WinnerOfRecord`, by itself
  inductive once a resolved market no longer trades or is sampled and time does not go back;
  `LateDecisionsExact`, whose strengthening describes every earlier point of a loop that started late: the markets it
  has still to take are snapshots of what cannot change any more, a loop between the
  two sides has read the first accumulator as it still is, and so on to the decision.
* `Indexer_proofs`, for any log, number of starts and failures: `IndexerInv` adds to the type that each task
  works on an event of the log, which event that can be (`TasksFit`, `CreatedFirst`) and
  which tasks live in which phase (`PhaseFits`). `RowInv` adds that what a task has read
  and not yet written was once so; `ChainGrows` says that the program's events keep that true.
  `OnceInv` counts an event as due while this start has still to insert it (in the queue, not emitted yet, or held by
  a handler) and bounds its rows by the earlier starts. `RepairInv` says that
  after a successful start's synchronisation the row is right or `main` is repairing it.
* `WebApp_proofs`, for any wallets, requests and handlers: `FlagsTrue` (the marks
  against the handlers under way) and `ButtonsWork`, from the types of what a click and an answer can leave
  in `view` (`Typed`) and from "no winner before the resolution" (`ChainFits`), one lemma for what is enabled
  (`EnabledButtons`) and one for what is not withheld (`OfferedButtons`).

`AccountsAssumption` asks that `Absent` is no amount and not the mark of an opaque account, and that
`NoWinner` is no side: the program has an option type in both places.

Model-checked only: the liveness properties `EventuallyResolved`, `EveryDepositSettled`, `EventuallyCranked`,
`PageConverges` and `EveryLoopEnds`: this prover has no rule for fairness. Every invariant and every
action property of a passing run is a theorem.

## 8. What is not modelled, and why

* Graduation arithmetic (`resolve_and_graduate.rs` 505-547): the square root and
  the initial liquidity (whose shifts lose no bit: 64 bits moved by 64 fit 128) are the external pool's; what the program keeps is the sum it hands over (`GraduationComplete`).
* Meteora and Metaplex internals: `cpi/*.rs` encodes calls to them. `Accounts` has
  which accounts they need and write; that they may fail for ever is part of every model.
* The transfer of the admin role, `dryRun`, heartbeats, balance monitors and
  statistics: nothing that is modelled reads them.
* Further markets in one database, the heartbeat row, the API's routes and health check:
  queries without a state of their own.
* List and creation pages of the web application: they show or collect data; what a creation
  sends is `Client`'s.
* `sdk/src/indexer.ts`: counters in the memory of one single-threaded process. Each event adds to them on its
  own and no counter is reset, so the order of a backfill from new to old does not matter; events between
  the backfill and the subscription (`run-indexer.ts:41-48`) are missed until the next start. `scripts/indexer.ts`
  is the Supabase form of the backend's indexer, for an earlier version of the program's events.
* Entry points, events and error codes; the Lean files (proofs about other models of the same program).

What could follow: several markets in one cranker and one indexer run; the
pool arithmetic (`isqrt_u128` as a loop with its bracket) on scaled-down widths.

## 9. Running

    tlc -workers 2 -config MCMarket.cfg MCMarket
    tlapm Market_proofs.tla

and likewise for each run of `PROJECT.json` and each proof module.
