------------------------------ MODULE Accounts ------------------------------
(***************************************************************************)
(* The program as the runtime runs it: every instruction as a function of  *)
(* the accounts a transaction names (sdk/src/pda.ts derives their          *)
(* addresses).  One market or one compare duel lives at its derived        *)
(* addresses; amounts are small counts and fees less than one unit of them *)
(* (Market.tla and CompareDuel.tla have the money), the pause flag is left *)
(* out, and the window has room for one sample.                            *)
(***************************************************************************)
EXTENDS Integers, FiniteSets

CONSTANTS Wallets, Traders, Creator, Admin, Cranker, FeeAccounts, CreationFees,
          Supply, Kinds, Absent, NoWinner, NoValue,
          MaxHeld              \* bound: tokens a wallet holds of a side

ASSUME AccountsAssumption ==
  /\ {Creator, Admin, Cranker} \subseteq Wallets /\ Traders \subseteq Wallets
  /\ CreationFees \subseteq Nat /\ Supply \in Nat \ {0} /\ MaxHeld \in Nat
  /\ Kinds \subseteq {"market", "duel"}
  /\ Absent \notin Nat \cup {"there"} /\ NoWinner \notin {0, 1}

Side == {0, 1}
Other(s) == 1 - s
There == "there"               \* an account whose contents do not matter

-----------------------------------------------------------------------------
(* Addresses: each is derived from its seeds, so equal seeds are the same  *)
(* account and different ones never are.                                   *)
findConfigPda == <<"config">>
findMarketPda == <<"market">>
findSidePda(s) == <<"side", s>>
findMintPda(s) == <<"mint", s>>
findTokenVaultPda(s) == <<"token_vault", s>>
findQuoteVaultPda(s) == <<"quote_vault", s>>
findMetadataPda(s) == <<"metadata", s>>
findCompareDuelPda == <<"compare_duel">>
findCompareVaultPda(s) == <<"compare_vault", s>>
findDepositPda(u) == <<"deposit", u>>
deriveDammV2Pool(s) == <<"cpool", s>>
derivePositionAddress(n) == <<"position", n>>
derivePositionNftAccount(n) == <<"position_nft_account", n>>
deriveDammV2TokenVault(s, mint) == <<"pool_vault", s, mint>>
positionNftMint(u) == <<"nft", u>>
wallet(u) == <<"wallet", u>>
tokenAta(u, s) == <<"token_ata", u, s>>
wsolAta(u) == <<"wsol_ata", u>>
feeAccount(p) == <<"fee", p>>
oracle(s) == <<"oracle", s>>

deriveMarketAccounts ==
  {findMarketPda} \cup
  UNION {{findSidePda(s), findMintPda(s), findTokenVaultPda(s),
          findQuoteVaultPda(s)} : s \in Side}

(* What a creation allocates: these and the metadata of both mints. *)
MarketAddresses == deriveMarketAccounts \cup {findMetadataPda(s) : s \in Side}

Alive == {wallet(u) : u \in Wallets} \cup {wsolAta(u) : u \in Wallets}
         \cup {feeAccount(p) : p \in FeeAccounts}

OfWallet(u) == {findDepositPda(u), positionNftMint(u), derivePositionAddress(u),
                derivePositionNftAccount(u), tokenAta(u, 0), tokenAta(u, 1)}
OfSide(s) == {findCompareVaultPda(s), deriveDammV2Pool(s), oracle(s),
              deriveDammV2TokenVault(s, "token"),
              deriveDammV2TokenVault(s, "wsol"), tokenAta(findMarketPda, s)}

Addresses ==
  {findConfigPda, findCompareDuelPda, wsolAta(findMarketPda)}
  \cup MarketAddresses \cup Alive
  \cup (UNION {OfWallet(u) : u \in Wallets}) \cup (UNION {OfSide(s) : s \in Side})

VARIABLES data,       \* data[a]: the account at address a
          clock,      \* where the time is against the deadline
          pending,    \* the transaction that waits to land, if any
          kind,       \* which of the two lives here
          created     \* history: how often the market was created

vars == <<data, clock, pending, kind, created>>

Clock == {"before", "window", "over", "late"}
Exist(d, as) == \A a \in as : d[a] # Absent
Fresh(d, as) == \A a \in as : d[a] = Absent
With(d, new) == [a \in Addresses |-> IF a \in DOMAIN new THEN new[a] ELSE d[a]]

(* What running an instruction can result in: nothing if it is rejected,   *)
(* or the new accounts and the ones whose lamports or balance moved.       *)
Outcome(accepted, new, moved) ==
  IF accepted THEN {[data |-> new, moved |-> moved]} ELSE {}

-----------------------------------------------------------------------------
(* The program's instructions, on the accounts d and the addresses at.     *)
(* What they ask of amounts and time is in Market.tla and CompareDuel.tla; *)
(* here it is what they ask of the accounts.                               *)

InitializeConfig(d, at, a) ==
  Outcome(Fresh(d, {at.config}),
          [d EXCEPT ![at.config] = [feeAccount |-> at.protocolFeeAccount,
                                    creationFee |-> a.value]],
          {at.admin})

UpdateConfig(d, at, a) ==
  Outcome(Exist(d, {at.config}) /\ at.admin = wallet(Admin),
          [d EXCEPT ![at.config] = [feeAccount |-> at.newProtocolFeeAccount,
                                    creationFee |-> a.value]],
          {})

(* Whom a creation moves lamports of: rent from the payer, and the         *)
(* creation fee by a transfer to the protocol's account.                   *)
Charged(d, at) == {at.creator} \cup IF d[at.config].creationFee > 0
                                    THEN {at.protocolFeeAccount} ELSE {}

CorrectFeeAccount(d, at) ==
  Exist(d, {at.config}) /\ at.protocolFeeAccount = d[at.config].feeAccount

(* mutant: the mints of an earlier market at this address are taken over.  *)
InitializeMarketReusingMints(d, at, a) ==
  LET sides == {at.sideA, at.sideB}
  IN  Outcome(CorrectFeeAccount(d, at) /\ Fresh(d, {at.market} \cup sides),
        With(d, [x \in MarketAddresses |->
           IF x = at.market THEN [status |-> "active", winner |-> NoWinner,
                                  samples |-> 0]
           ELSE IF x \in sides THEN [circulating |-> 0, twap |-> 0]
           ELSE IF x \in {at.tokenVaultA, at.tokenVaultB} THEN Supply
           ELSE IF x \in {at.quoteVaultA, at.quoteVaultB} THEN 0 ELSE There]),
        Charged(d, at))

InitializeMarket(d, at, a) ==
  LET sides == {at.sideA, at.sideB}
  IN  Outcome(CorrectFeeAccount(d, at) /\ Fresh(d, MarketAddresses),
        With(d, [x \in MarketAddresses |->
           IF x = at.market THEN [status |-> "active", winner |-> NoWinner,
                                  samples |-> 0]
           ELSE IF x \in sides THEN [circulating |-> 0, twap |-> 0]
           ELSE IF x \in {at.tokenVaultA, at.tokenVaultB} THEN Supply
           ELSE IF x \in {at.quoteVaultA, at.quoteVaultB} THEN 0 ELSE There]),
        Charged(d, at))

Trading(d, at) ==
  /\ Exist(d, {at.market, at.sideAccount, at.tokenVault, at.quoteVault})
  /\ d[at.market].status = "active" /\ clock \in {"before", "window"}

(* One token leaves the vault, or comes back to it. *)
Sold(d, at) ==
  [d EXCEPT ![at.sideAccount].circulating = @ + 1, ![at.quoteVault] = @ + 1,
            ![at.tokenVault] = @ - 1, ![at.buyerTokenAccount] = @ + 1]

SoldBack(d, at) ==
  [d EXCEPT ![at.sideAccount].circulating = @ - 1, ![at.quoteVault] = @ - 1,
            ![at.tokenVault] = @ + 1, ![at.sellerTokenAccount] = @ - 1]

(* mutant: the protocol's fee goes to any account the transaction names. *)
BuyTokensAnyFeeAccount(d, at, a) ==
  Outcome(/\ Trading(d, at) /\ Exist(d, {at.buyerTokenAccount, at.buyerQuoteAccount})
          /\ d[at.tokenVault] > 0,
          Sold(d, at),
          {at.buyerQuoteAccount, at.protocolFeeAccount, at.creatorFeeAccount})

BuyTokens(d, at, a) ==
  Outcome(/\ Trading(d, at) /\ Exist(d, {at.buyerTokenAccount, at.buyerQuoteAccount})
          /\ CorrectFeeAccount(d, at)
          /\ d[at.tokenVault] > 0,
          Sold(d, at),
          {at.buyerQuoteAccount, at.protocolFeeAccount, at.creatorFeeAccount})

Holds(d, at) == /\ Exist(d, {at.sellerTokenAccount, at.sellerQuoteAccount})
                /\ d[at.sellerTokenAccount] > 0

SellTokens(d, at, a) ==
  Outcome(Trading(d, at) /\ Holds(d, at) /\ CorrectFeeAccount(d, at),
          SoldBack(d, at),
          {at.sellerQuoteAccount, at.protocolFeeAccount, at.creatorFeeAccount})

(* After a draw only; what a sold-out side's closed vault means for it is  *)
(* Market.tla's.                                                           *)
SellPostResolution(d, at, a) ==
  Outcome(/\ Exist(d, {at.market, at.sideAccount, at.tokenVault, at.quoteVault})
          /\ d[at.market].status = "resolved" /\ d[at.market].winner = NoWinner
          /\ Holds(d, at),
          SoldBack(d, at), {at.sellerQuoteAccount})

RecordTwapSample(d, at, a) ==
  Outcome(/\ Exist(d, {at.market, at.sideA, at.sideB})
          /\ d[at.market].status = "active" /\ clock = "window"
          /\ d[at.market].samples = 0,
          [d EXCEPT ![at.market].samples = 1,
                    ![at.sideA].twap = @ + d[at.sideA].circulating,
                    ![at.sideB].twap = @ + d[at.sideB].circulating],
          {})

Leads(d, at) ==
  LET twap(x) == d[x].twap
  IN  IF twap(at.sideA) # twap(at.sideB)
      THEN IF twap(at.sideA) > twap(at.sideB) THEN 0 ELSE 1
      ELSE IF d[at.quoteVaultA] >= d[at.quoteVaultB] THEN 0 ELSE 1

(* Everything the winning side needs is named by the transaction: accounts *)
(* of the wrong side are rejected by a transfer or by the metadata check.  *)
ResolveAndGraduate(d, at, a) ==
  LET w == a.side
      vault == IF w = 0 THEN at.tokenVaultA ELSE at.tokenVaultB
  IN  Outcome(
        /\ Exist(d, {at.market, at.sideA, at.sideB, at.marketTokenAta,
                     at.marketWsolAta, at.tokenVaultA, at.tokenVaultB,
                     at.quoteVaultA, at.quoteVaultB})
        /\ d[at.market].status = "active" /\ clock \in {"over", "late"}
        /\ d[at.market].samples > 0 /\ w = Leads(d, at)
        /\ d[at.quoteVaultA] + d[at.quoteVaultB] > 0 /\ d[vault] > 0
        /\ at.marketTokenAta = tokenAta(at.market, w)
        /\ at.losingTokenMetadata = findMetadataPda(Other(w))
        /\ Fresh(d, {at.pool, at.position, at.positionNftAccount}),
        [d EXCEPT ![at.market].status = "resolved", ![at.market].winner = w,
                  ![at.quoteVaultA] = 0, ![at.quoteVaultB] = 0, ![vault] = 0,
                  ![at.pool] = There, ![at.position] = There,
                  ![at.positionNftMint] = There, ![at.positionNftAccount] = There,
                  ![at.poolTokenVaultA] = There, ![at.poolTokenVaultB] = There],
        {at.resolver, at.losingTokenMetadata, at.marketTokenAta,
         at.marketWsolAta})

EmergencyResolve(d, at, a) ==
  Outcome(/\ Exist(d, {at.market, at.config, at.sideA, at.sideB})
          /\ d[at.market].status = "active" /\ clock = "late",
          [d EXCEPT ![at.market].status = "resolved"], {})

MayManage(at) == at.authority \in {wallet(Creator), wallet(Admin)}

ClaimPoolFees(d, at, a) ==
  Outcome(/\ Exist(d, {at.market, at.config, at.pool, at.position,
                       at.feeReceiverTokenA, at.feeReceiverTokenB})
          /\ d[at.market].winner # NoWinner /\ MayManage(at),
          d, {at.position, at.feeReceiverTokenA, at.feeReceiverTokenB,
              at.tokenAVault, at.tokenBVault})

(* Each of the two vaults is closed if it is empty. *)
CloseIfEmpty(d, vaults) ==
  [x \in Addresses |-> IF x \in vaults /\ d[x] = 0 THEN Absent ELSE d[x]]

CloseQuoteVault(d, at, a) ==
  Outcome(/\ Exist(d, {at.market, at.sideAccount, at.quoteVault, at.tokenVault})
          /\ d[at.market].status = "resolved",
          CloseIfEmpty(d, {at.quoteVault, at.tokenVault}), {at.rentReceiver})

CloseMarket(d, at, a) ==
  Outcome(/\ Exist(d, {at.market, at.sideA, at.sideB, at.config})
          /\ d[at.market].status = "resolved" /\ MayManage(at)
          /\ \A x \in {at.sideA, at.sideB} : d[x].circulating = 0,
          With(d, [x \in {at.market, at.sideA, at.sideB} |-> Absent]),
          {at.authority})

-----------------------------------------------------------------------------
(* Mode 2. *)

CreateCompareDuel(d, at, a) ==
  Outcome(/\ CorrectFeeAccount(d, at)
          /\ Fresh(d, {at.compareDuel, at.poolVaultA, at.poolVaultB}),
          [d EXCEPT ![at.compareDuel] =
                      [status |-> "active", winner |-> NoWinner, samples |-> 0,
                       perf |-> [s \in Side |-> 0], total |-> [s \in Side |-> 0],
                       feeAccount |-> at.protocolFeeAccount],
                    ![at.poolVaultA] = 0, ![at.poolVaultB] = 0],
          Charged(d, at))

DepositSol(d, at, a) ==
  Outcome(/\ Exist(d, {at.compareDuel, at.poolVault, at.config,
                       at.depositorWsolAccount})
          /\ d[at.compareDuel].status = "active" /\ clock = "before"
          /\ Fresh(d, {at.depositRecord})
          /\ at.poolVault = findCompareVaultPda(a.side),
          [d EXCEPT ![at.depositRecord] = [side |-> a.side, withdrawn |-> FALSE],
                    ![at.poolVault] = @ + 1,
                    ![at.compareDuel].total[a.side] = @ + 1],
          {at.depositor, at.depositorWsolAccount})

RecordCompareTwap(d, at, a) ==
  Outcome(/\ Exist(d, {at.compareDuel, at.oracleA, at.oracleB})
          /\ d[at.compareDuel].status = "active" /\ clock = "window"
          /\ d[at.compareDuel].samples = 0,
          [d EXCEPT ![at.compareDuel].samples = 1,
                    ![at.compareDuel].perf =
                      [s \in Side |-> IF s = 0 THEN d[at.oracleA]
                                               ELSE d[at.oracleB]]],
          {})

(* The higher performance wins. *)
Winner(perf) == IF perf[0] = perf[1] THEN NoWinner
                ELSE IF perf[0] > perf[1] THEN 0 ELSE 1

(* The winner's vault gets the pot; a draw moves nothing. *)
Awarded(d, at, winner) ==
  LET pot == d[at.poolVaultA] + d[at.poolVaultB]
      resolved == [d EXCEPT ![at.compareDuel].status = "resolved",
                            ![at.compareDuel].winner = winner]
  IN  IF winner = NoWinner THEN resolved
      ELSE [resolved EXCEPT ![at.poolVaultA] = IF winner = 0 THEN pot ELSE 0,
                            ![at.poolVaultB] = IF winner = 1 THEN pot ELSE 0]

ResolveCompare(d, at, a) ==
  LET duel == d[at.compareDuel]
      winner == Winner(duel.perf)
  IN  Outcome(/\ Exist(d, {at.compareDuel, at.poolVaultA, at.poolVaultB})
              /\ duel.status = "active" /\ clock \in {"over", "late"}
              /\ duel.samples > 0 /\ \A s \in Side : duel.total[s] > 0
              /\ at.protocolFeeAccount = duel.feeAccount,
              Awarded(d, at, winner),
              IF winner = NoWinner THEN {}
              ELSE {at.protocolFeeAccount, at.creatorFeeAccount})

EmergencyResolveCompare(d, at, a) ==
  Outcome(/\ Exist(d, {at.compareDuel, at.config})
          /\ d[at.compareDuel].status = "active" /\ clock = "late",
          [d EXCEPT ![at.compareDuel].status = "resolved"], {})

Owed(duel, dep) ==
  IF duel.winner = NoWinner THEN 1
  ELSE IF dep.side = duel.winner
       THEN (duel.total[0] + duel.total[1]) \div duel.total[dep.side] ELSE 0

(* A loser is paid nothing, from whichever of the two vaults it names. *)
Withdraw(d, at, a) ==
  LET duel == d[at.compareDuel]
      dep == d[at.depositRecord]
      payout == Owed(duel, dep)
  IN  Outcome(/\ Exist(d, {at.compareDuel, at.depositRecord, at.poolVault,
                           at.depositorWsolAccount})
              /\ duel.status = "resolved" /\ ~dep.withdrawn
              /\ duel.winner = NoWinner \/ duel.winner = dep.side =>
                   at.poolVault = findCompareVaultPda(dep.side)
              /\ payout <= d[at.poolVault],
              [d EXCEPT ![at.depositRecord].withdrawn = TRUE,
                        ![at.poolVault] = @ - payout],
              IF payout > 0 THEN {at.depositorWsolAccount} ELSE {})

CloseCompareDuel(d, at, a) ==
  Outcome(/\ Exist(d, {at.compareDuel, at.poolVaultA, at.poolVaultB, at.config})
          /\ d[at.compareDuel].status = "resolved" /\ MayManage(at),
          [CloseIfEmpty(d, {at.poolVaultA, at.poolVaultB})
             EXCEPT ![at.compareDuel] = Absent],
          {at.authority})

CloseDeposit(d, at, a) ==
  Outcome(/\ Exist(d, {at.compareDuel, at.depositRecord})
          /\ d[at.depositRecord].withdrawn
          /\ d[at.compareDuel].status = "resolved",
          [d EXCEPT ![at.depositRecord] = Absent], {at.depositor})
=============================================================================
