------------------------------- MODULE Client -------------------------------
(***************************************************************************)
(* The SDK's client (sdk/src/client.ts).  Building a transaction fetches   *)
(* accounts and derives addresses; the transaction lands later, on         *)
(* accounts that other transactions changed meanwhile (Accounts.tla),      *)
(* takes the locks the interface lists (Idl.tla) and changes everything or *)
(* nothing.                                                                *)
(***************************************************************************)
EXTENDS Accounts

Interface == INSTANCE Idl

-----------------------------------------------------------------------------
(* The builders.  A request a says what to do, for whom and on which side; *)
(* a builder fetches accounts (d, as they are then), fills the roles with  *)
(* addresses and names the token accounts to create if they are missing.   *)

(* The roles of f and of g. *)
f ++ g == [r \in DOMAIN f \cup DOMAIN g |-> IF r \in DOMAIN f THEN f[r] ELSE g[r]]

Built(fetched, at, creates) == [fetched |-> fetched, at |-> at,
                                creates |-> creates]
CurrentFeeAccount(d) == IF d[findConfigPda] = Absent THEN Absent
                        ELSE d[findConfigPda].feeAccount

fetchMarket(s) == {findMarketPda, findSidePda(s)}
fetchConfig == {findConfigPda}

buildInitializeConfigInstruction(a) ==
  Built({}, [admin |-> wallet(a.by), config |-> findConfigPda,
             protocolFeeAccount |-> a.fee], {})

buildUpdateConfigInstruction(a) ==
  Built({}, [admin |-> wallet(a.by), config |-> findConfigPda,
             newProtocolFeeAccount |-> a.fee], {})

BothSides ==
  [sideA |-> findSidePda(0), sideB |-> findSidePda(1),
   tokenMintA |-> findMintPda(0), tokenMintB |-> findMintPda(1),
   tokenVaultA |-> findTokenVaultPda(0), tokenVaultB |-> findTokenVaultPda(1),
   quoteVaultA |-> findQuoteVaultPda(0), quoteVaultB |-> findQuoteVaultPda(1),
   market |-> findMarketPda, config |-> findConfigPda]

OneSide(s) ==
  [market |-> findMarketPda, sideAccount |-> findSidePda(s),
   tokenMint |-> findMintPda(s), tokenVault |-> findTokenVaultPda(s),
   quoteVault |-> findQuoteVaultPda(s), config |-> findConfigPda]

Fees(d) == [protocolFeeAccount |-> CurrentFeeAccount(d),
            creatorFeeAccount |-> wsolAta(Creator)]

buildInitializeMarketInstruction(a, d) ==
  Built(fetchConfig,
        BothSides ++ Fees(d) ++
        [creator |-> wallet(a.by), metadataA |-> findMetadataPda(0),
         metadataB |-> findMetadataPda(1)], {})

buildBuyTokensInstruction(a, d) ==
  Built(fetchMarket(a.side) \cup fetchConfig,
        OneSide(a.side) ++ Fees(d) ++
        [buyer |-> wallet(a.by), buyerTokenAccount |-> tokenAta(a.by, a.side),
         buyerQuoteAccount |-> wsolAta(a.by)],
        {tokenAta(a.by, a.side)})

Selling(a) == [seller |-> wallet(a.by),
               sellerTokenAccount |-> tokenAta(a.by, a.side),
               sellerQuoteAccount |-> wsolAta(a.by)]

buildSellTokensInstruction(a, d) ==
  Built(fetchMarket(a.side) \cup fetchConfig,
        OneSide(a.side) ++ Fees(d) ++ Selling(a), {})

buildSellPostResolutionInstruction(a) ==
  Built(fetchMarket(a.side), OneSide(a.side) ++ Selling(a), {})

buildRecordTwapSampleInstruction(a) ==
  Built({findMarketPda}, BothSides ++ [cranker |-> wallet(a.by)], {})

deriveDammV2Accounts(s, nft) ==
  [pool |-> deriveDammV2Pool(s), position |-> derivePositionAddress(nft),
   positionNftAccount |-> derivePositionNftAccount(nft),
   tokenAVault |-> deriveDammV2TokenVault(s, "token"),
   tokenBVault |-> deriveDammV2TokenVault(s, "wsol")]

buildResolveAndGraduateInstruction(a) ==
  LET damm == deriveDammV2Accounts(a.side, a.by)
      atas == [marketTokenAta |-> tokenAta(findMarketPda, a.side),
               marketWsolAta |-> wsolAta(findMarketPda)]
  IN  Built(fetchMarket(0) \cup fetchMarket(1),
            BothSides ++ atas ++ damm ++
            [resolver |-> wallet(a.by), positionNftMint |-> positionNftMint(a.by),
             poolTokenVaultA |-> damm.tokenAVault,
             poolTokenVaultB |-> damm.tokenBVault,
             losingTokenMetadata |-> findMetadataPda(Other(a.side))],
            {atas.marketTokenAta, atas.marketWsolAta})

buildEmergencyResolveInstruction(a) ==
  Built({findMarketPda}, BothSides ++ [resolver |-> wallet(a.by)], {})

(* The caller says which mint won and whose position it was. *)
buildClaimPoolFeesInstruction(a) ==
  Built({}, deriveDammV2Accounts(a.side, a.value) ++
            [authority |-> wallet(a.by), market |-> findMarketPda,
             config |-> findConfigPda, tokenMint |-> findMintPda(a.side),
             feeReceiverTokenA |-> tokenAta(a.by, a.side),
             feeReceiverTokenB |-> wsolAta(a.by)], {})

buildCloseQuoteVaultInstruction(a) ==
  Built(fetchMarket(a.side),
        OneSide(a.side) ++ [closer |-> wallet(a.by),
                            rentReceiver |-> wallet(a.by)], {})

buildCloseMarketInstruction(a) ==
  Built({findMarketPda}, BothSides ++ [authority |-> wallet(a.by)], {})

Duel == [compareDuel |-> findCompareDuelPda, config |-> findConfigPda,
         poolVaultA |-> findCompareVaultPda(0),
         poolVaultB |-> findCompareVaultPda(1),
         oracleA |-> oracle(0), oracleB |-> oracle(1)]

buildCreateCompareDuelInstruction(a, d) ==
  Built(fetchConfig, Duel ++ Fees(d) ++ [creator |-> wallet(a.by)], {})

Depositing(a) == [depositor |-> wallet(a.by),
                  depositRecord |-> findDepositPda(a.by),
                  depositorWsolAccount |-> wsolAta(a.by)]

buildDepositInstruction(a) ==
  Built({findCompareDuelPda},
        Duel ++ Depositing(a) ++ [poolVault |-> findCompareVaultPda(a.side)], {})

buildRecordCompareTwapInstruction(a) ==
  Built({findCompareDuelPda}, Duel ++ [cranker |-> wallet(a.by)], {})

(* The fee accounts are the ones stored in the duel. *)
DuelFeeAccount(d) == IF d[findCompareDuelPda] = Absent THEN Absent
                     ELSE d[findCompareDuelPda].feeAccount

buildResolveCompareInstruction(a, d) ==
  Built({findCompareDuelPda},
        Duel ++ [resolver |-> wallet(a.by), creatorFeeAccount |-> wsolAta(Creator),
                 protocolFeeAccount |-> DuelFeeAccount(d)], {})

fetchDeposit(u) == {findCompareDuelPda, findDepositPda(u)}

(* The winner's vault if there is a winner yet, else the deposit's side. *)
WithdrawVault(d, u) ==
  IF ~Exist(d, fetchDeposit(u)) THEN Absent
  ELSE LET winner == d[findCompareDuelPda].winner
       IN  findCompareVaultPda(IF winner # NoWinner THEN winner
                               ELSE d[findDepositPda(u)].side)

buildWithdrawInstruction(a, d) ==
  Built(fetchDeposit(a.by),
        Duel ++ Depositing(a) ++ [poolVault |-> WithdrawVault(d, a.by)], {})

buildEmergencyResolveCompareInstruction(a) ==
  Built({}, Duel ++ [resolver |-> wallet(a.by)], {})

buildCloseCompareDuelInstruction(a) ==
  Built({findCompareDuelPda}, Duel ++ [authority |-> wallet(a.by)], {})

buildCloseDepositInstruction(a) ==
  Built({}, Duel ++ Depositing(a), {})

-----------------------------------------------------------------------------
(* Transactions. *)

Tx(idl, built, d) == [fetched |-> built.fetched, at |-> built.at,
                      creates |-> {x \in built.creates : d[x] = Absent},
                      locks |-> {built.at[r] : r \in idl.writable},
                      reads |-> {built.at[r] : r \in idl.readonly}]

Build(a, d) ==
  CASE a.ix = "initializeConfig" ->
         Tx(Interface!initializeConfig, buildInitializeConfigInstruction(a), d)
    [] a.ix = "updateConfig" ->
         Tx(Interface!updateConfig, buildUpdateConfigInstruction(a), d)
    [] a.ix = "initializeMarket" ->
         Tx(Interface!initializeMarket, buildInitializeMarketInstruction(a, d), d)
    [] a.ix = "buyTokens" ->
         Tx(Interface!buyTokens, buildBuyTokensInstruction(a, d), d)
    [] a.ix = "sellTokens" ->
         Tx(Interface!sellTokens, buildSellTokensInstruction(a, d), d)
    [] a.ix = "sellPostResolution" ->
         Tx(Interface!sellPostResolution, buildSellPostResolutionInstruction(a), d)
    [] a.ix = "recordTwapSample" ->
         Tx(Interface!recordTwapSample, buildRecordTwapSampleInstruction(a), d)
    [] a.ix = "resolveAndGraduate" ->
         Tx(Interface!resolveAndGraduate, buildResolveAndGraduateInstruction(a), d)
    [] a.ix = "emergencyResolve" ->
         Tx(Interface!emergencyResolve, buildEmergencyResolveInstruction(a), d)
    [] a.ix = "claimPoolFees" ->
         Tx(Interface!claimPoolFees, buildClaimPoolFeesInstruction(a), d)
    [] a.ix = "closeQuoteVault" ->
         Tx(Interface!closeQuoteVault, buildCloseQuoteVaultInstruction(a), d)
    [] a.ix = "closeMarket" ->
         Tx(Interface!closeMarket, buildCloseMarketInstruction(a), d)
    [] a.ix = "createCompareDuel" ->
         Tx(Interface!createCompareDuel, buildCreateCompareDuelInstruction(a, d), d)
    [] a.ix = "deposit" ->
         Tx(Interface!deposit, buildDepositInstruction(a), d)
    [] a.ix = "recordCompareTwap" ->
         Tx(Interface!recordCompareTwap, buildRecordCompareTwapInstruction(a), d)
    [] a.ix = "resolveCompare" ->
         Tx(Interface!resolveCompare, buildResolveCompareInstruction(a, d), d)
    [] a.ix = "emergencyResolveCompare" ->
         Tx(Interface!emergencyResolveCompare, buildEmergencyResolveCompareInstruction(a), d)
    [] a.ix = "withdraw" ->
         Tx(Interface!withdraw, buildWithdrawInstruction(a, d), d)
    [] a.ix = "closeCompareDuel" ->
         Tx(Interface!closeCompareDuel, buildCloseCompareDuelInstruction(a), d)
    [] a.ix = "closeDeposit" ->
         Tx(Interface!closeDeposit, buildCloseDepositInstruction(a), d)

Run(d, at, a) ==
  CASE a.ix = "initializeConfig" -> InitializeConfig(d, at, a)
    [] a.ix = "updateConfig" -> UpdateConfig(d, at, a)
    [] a.ix = "initializeMarket" -> InitializeMarket(d, at, a)
    [] a.ix = "buyTokens" -> BuyTokens(d, at, a)
    [] a.ix = "sellTokens" -> SellTokens(d, at, a)
    [] a.ix = "sellPostResolution" -> SellPostResolution(d, at, a)
    [] a.ix = "recordTwapSample" -> RecordTwapSample(d, at, a)
    [] a.ix = "resolveAndGraduate" -> ResolveAndGraduate(d, at, a)
    [] a.ix = "emergencyResolve" -> EmergencyResolve(d, at, a)
    [] a.ix = "claimPoolFees" -> ClaimPoolFees(d, at, a)
    [] a.ix = "closeQuoteVault" -> CloseQuoteVault(d, at, a)
    [] a.ix = "closeMarket" -> CloseMarket(d, at, a)
    [] a.ix = "createCompareDuel" -> CreateCompareDuel(d, at, a)
    [] a.ix = "deposit" -> DepositSol(d, at, a)
    [] a.ix = "recordCompareTwap" -> RecordCompareTwap(d, at, a)
    [] a.ix = "resolveCompare" -> ResolveCompare(d, at, a)
    [] a.ix = "emergencyResolveCompare" -> EmergencyResolveCompare(d, at, a)
    [] a.ix = "withdraw" -> Withdraw(d, at, a)
    [] a.ix = "closeCompareDuel" -> CloseCompareDuel(d, at, a)
    [] a.ix = "closeDeposit" -> CloseDeposit(d, at, a)

(* The instructions before it create token accounts; one that exists by    *)
(* now fails the whole transaction.                                        *)
Outcomes(tx, a) ==
  IF Fresh(data, tx.creates)
  THEN Run(With(data, [x \in tx.creates |-> 0]), tx.at, a) ELSE {}

Written(o) == o.moved \cup {x \in Addresses : o.data[x] # data[x]}

(* The runtime refuses a write to an account not listed as writable. *)
Permitted(tx, o) == Written(o) \subseteq tx.locks \cup tx.creates

Nothing == [ix |-> "nothing"]

(* Who asks for what: cranks are open to anyone and one wallet makes them, *)
(* closings are the creator's, and a market's id is its creator's own.     *)
Request(ixs, wallets, sides, values) ==
  {[ix |-> ix, by |-> u, side |-> s, fee |-> NoValue, value |-> v] :
     ix \in ixs, u \in wallets, s \in sides, v \in values}

ConfigRequests ==
  {[ix |-> ix, by |-> Admin, side |-> 0, fee |-> feeAccount(p), value |-> f] :
     ix \in {"initializeConfig", "updateConfig"}, p \in FeeAccounts,
     f \in CreationFees}

Creations == Request({"initializeMarket", "createCompareDuel"}, {Creator}, {0},
                     {NoValue})

MarketRequests ==
  Request({"buyTokens", "sellTokens", "sellPostResolution"}, Traders, Side,
          {NoValue})
  \cup Request({"resolveAndGraduate", "closeQuoteVault"}, {Cranker}, Side,
               {NoValue})
  \cup Request({"recordTwapSample", "emergencyResolve"}, {Cranker}, {0},
               {NoValue})
  \cup Request({"claimPoolFees"}, {Creator}, Side, {Cranker})
  \cup Request({"closeMarket"}, {Creator}, {0}, {NoValue})

DuelRequests ==
  Request({"deposit"}, Wallets, Side, {NoValue})
  \cup Request({"withdraw", "closeDeposit"}, Wallets, {0}, {NoValue})
  \cup Request({"recordCompareTwap", "resolveCompare", "emergencyResolveCompare"},
               {Cranker}, {0}, {NoValue})
  \cup Request({"closeCompareDuel"}, {Creator}, {0}, {NoValue})

Requests ==
  ConfigRequests
  \cup IF kind = "market"
       THEN MarketRequests \cup {a \in Creations : a.ix = "initializeMarket"}
       ELSE DuelRequests \cup {a \in Creations : a.ix = "createCompareDuel"}

-----------------------------------------------------------------------------
Init == /\ data = [x \in Addresses |->
                    IF x \in Alive THEN There
                    ELSE IF x \in {oracle(0), oracle(1)} THEN 0 ELSE Absent]
        /\ clock = "before" /\ pending = Nothing
        /\ kind \in Kinds /\ created = 0

Commit(a, o) ==
  /\ data' = o.data
  /\ clock' = IF a \in Creations THEN "before" ELSE clock
  /\ created' = IF a.ix = "initializeMarket" THEN created + 1 ELSE created

WithinBound(a) ==
  a.ix = "buyTokens" =>
    data[tokenAta(a.by, a.side)] \notin MaxHeld .. Supply

(* A client builds a transaction from what it fetches now ... *)
Submit(a) ==
  /\ pending = Nothing
  /\ LET tx == Build(a, data)
     IN  Exist(data, tx.fetched) /\ pending' = [ix |-> a.ix, a |-> a, tx |-> tx]
  /\ UNCHANGED <<data, clock, kind, created>>

(* ... which lands later, ... *)
Land ==
  /\ pending # Nothing /\ WithinBound(pending.a)
  /\ \E o \in Outcomes(pending.tx, pending.a) :
       Permitted(pending.tx, o) /\ Commit(pending.a, o)
  /\ pending' = Nothing /\ UNCHANGED kind

(* ... or is rejected or expires and changes nothing. *)
Drop == /\ pending # Nothing /\ pending' = Nothing
        /\ UNCHANGED <<data, clock, kind, created>>

(* Other clients' transactions, built and landed in between. *)
Others(a) ==
  /\ WithinBound(a)
  /\ LET tx == Build(a, data)
     IN  /\ Exist(data, tx.fetched)
         /\ \E o \in Outcomes(tx, a) : Permitted(tx, o) /\ Commit(a, o)
  /\ UNCHANGED <<pending, kind>>

(* Time goes on; the emergency window outlasts any transaction. *)
Pass == /\ Exist(data, {findMarketPda}) \/ Exist(data, {findCompareDuelPda})
        /\ clock # "late"
        /\ clock' = CASE clock = "before" -> "window" [] clock = "window" -> "over"
                      [] OTHER -> "late"
        /\ pending' = IF clock = "over" THEN Nothing ELSE pending
        /\ UNCHANGED <<data, kind, created>>

(* So do the prices the oracles report. *)
Report(s) == /\ kind = "duel" /\ clock = "window"
             /\ data' = [data EXCEPT ![oracle(s)] = 1 - @]
             /\ UNCHANGED <<clock, pending, kind, created>>

Next == \/ \E a \in Requests : Submit(a) \/ Others(a)
        \/ Land \/ Drop \/ Pass
        \/ \E s \in Side : Report(s)

Spec == Init /\ [][Next]_vars

-----------------------------------------------------------------------------
(* Whatever the program would do with a transaction the client built, the  *)
(* interface declares: no instruction fails for an account it writes and   *)
(* the client did not list as writable (types.ts).  It does not hold of    *)
(* creations once market_creation_fee is positive.                         *)
WritesDeclared ==
  pending = Nothing =>
    \A a \in Requests :
      LET tx == Build(a, data)
      IN  Exist(data, tx.fetched) =>
            \A o \in Outcomes(tx, a) : Permitted(tx, o)

(* A transaction built on a state that is gone either fails or does just   *)
(* what one built now would do: no fee to a replaced account, no payout    *)
(* from the other vault, no pool of the other side.                        *)
StaleEqualsFresh ==
  pending # Nothing =>
    \A o \in Outcomes(pending.tx, pending.a) :
      LET now == Build(pending.a, data)
      IN  Exist(data, now.fetched) /\ o \in Outcomes(now, pending.a)

(* close_market gives the market's and the sides' accounts back and never  *)
(* the mints, so the id of a closed market cannot be used a second time.   *)
MarketIdUsedOnce == created <= 1
=============================================================================
