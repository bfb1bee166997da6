--------------------------- MODULE Client_proofs ---------------------------
(***************************************************************************)
(* The three invariants of Client.tla for any wallets, fee accounts and    *)
(* bounds. Every instruction is taken through the builder that fills in    *)
(* its accounts: what a transaction locks and where its roles point (the   *)
(* Roles lemmas) meets what the program does at those roles (the Lands     *)
(* lemmas), so what an instruction can change is known by address. The     *)
(* invariant says what a waiting transaction was built from and what stays *)
(* of a market's mint, of the configuration and of a duel's vaults and     *)
(* deposits.                                                               *)
(***************************************************************************)
EXTENDS Client, TLAPS

(* Addresses are what data has contents for, and what a result changes.   *)
IsData(d) == d = [x \in Addresses |-> d[x]]
Changed(d, o) == {x \in Addresses : o.data[x] # d[x]}

(* The accounts of a compare duel, and what each family of instructions    *)
(* leaves alone.                                                           *)
DuelAccounts == {findCompareDuelPda} \cup {findCompareVaultPda(s) : s \in Side}
                \cup {findDepositPda(u) : u \in Wallets}
KeptByConfig == {findMintPda(0)} \cup DuelAccounts
KeptByMarket == {findConfigPda, findMintPda(0)} \cup DuelAccounts
KeptByDuel == {findConfigPda, findMintPda(0)}

(* A result that writes only what its transaction locks, and not what is   *)
(* kept.                                                                   *)
Lands(d, tx, o, kept) ==
  /\ IsData(o.data)
  /\ Changed(d, o) \subseteq tx.locks
  /\ Changed(d, o) \cap kept = {}

-----------------------------------------------------------------------------
(* What the client builds: the address at every role the instruction       *)
(* writes or asks about, the locks the interface gives it, the accounts it *)
(* fetches and the token accounts it creates. One lemma per instruction.   *)

LEMMA InitializeConfigRoles ==
  ASSUME NEW d, NEW a, a.ix = "initializeConfig"
  PROVE  LET at == Build(a, d).at
         IN  /\ at.admin = wallet(a.by) /\ at.config = findConfigPda
             /\ Build(a, d).locks =
                  {wallet(a.by), findConfigPda}
             /\ Build(a, d).fetched = {}
             /\ Build(a, d).creates = {}
<1> DEFINE at == Build(a, d).at
<1>1. Build(a, d) = Tx(Interface!initializeConfig,
        buildInitializeConfigInstruction(a), d)
  BY DEF Build
<1>2. at = buildInitializeConfigInstruction(a).at
  BY <1>1 DEF Tx
<1>3. /\ at.admin = wallet(a.by) /\ at.config = findConfigPda
  BY <1>2 DEF buildInitializeConfigInstruction, Built
<1>4. Build(a, d).locks =
        {at.admin, at.config}
  BY <1>1 DEF Tx, Interface!initializeConfig
<1>5. /\ Build(a, d).fetched = {}
      /\ Build(a, d).creates = {}
  BY <1>1 DEF Tx, buildInitializeConfigInstruction, Built
<1> HIDE DEF at
<1> QED
  BY <1>3, <1>4, <1>5 DEF at

LEMMA UpdateConfigRoles ==
  ASSUME NEW d, NEW a, a.ix = "updateConfig"
  PROVE  LET at == Build(a, d).at
         IN  /\ at.config = findConfigPda
             /\ Build(a, d).locks =
                  {findConfigPda}
             /\ Build(a, d).fetched = {}
             /\ Build(a, d).creates = {}
<1> DEFINE at == Build(a, d).at
<1>1. Build(a, d) = Tx(Interface!updateConfig,
        buildUpdateConfigInstruction(a), d)
  BY DEF Build
<1>2. at = buildUpdateConfigInstruction(a).at
  BY <1>1 DEF Tx
<1>3. /\ at.config = findConfigPda
  BY <1>2 DEF buildUpdateConfigInstruction, Built
<1>4. Build(a, d).locks =
        {at.config}
  BY <1>1 DEF Tx, Interface!updateConfig
<1>5. /\ Build(a, d).fetched = {}
      /\ Build(a, d).creates = {}
  BY <1>1 DEF Tx, buildUpdateConfigInstruction, Built
<1> HIDE DEF at
<1> QED
  BY <1>3, <1>4, <1>5 DEF at

LEMMA InitializeMarketRoles ==
  ASSUME NEW d, NEW a, a.ix = "initializeMarket"
  PROVE  LET at == Build(a, d).at
         IN  /\ at.sideA = findSidePda(0) /\ at.sideB = findSidePda(1)
             /\ at.tokenMintA = findMintPda(0)
             /\ at.tokenMintB = findMintPda(1)
             /\ at.tokenVaultA = findTokenVaultPda(0)
             /\ at.tokenVaultB = findTokenVaultPda(1)
             /\ at.quoteVaultA = findQuoteVaultPda(0)
             /\ at.quoteVaultB = findQuoteVaultPda(1)
             /\ at.market = findMarketPda /\ at.config = findConfigPda
             /\ at.protocolFeeAccount = CurrentFeeAccount(d)
             /\ at.creator = wallet(a.by) /\ at.metadataA = findMetadataPda(0)
             /\ at.metadataB = findMetadataPda(1)
             /\ Build(a, d).locks =
                  {wallet(a.by), findMetadataPda(0), findMetadataPda(1),
                   findMarketPda, findSidePda(0), findSidePda(1),
                   findMintPda(0), findMintPda(1), findTokenVaultPda(0),
                   findTokenVaultPda(1), findQuoteVaultPda(0),
                   findQuoteVaultPda(1)}
             /\ Build(a, d).fetched = fetchConfig
             /\ Build(a, d).creates = {}
<1> DEFINE at == Build(a, d).at
<1>1. Build(a, d) = Tx(Interface!initializeMarket,
        buildInitializeMarketInstruction(a, d), d)
  BY DEF Build
<1>2. at = buildInitializeMarketInstruction(a, d).at
  BY <1>1 DEF Tx
<1>3. /\ at.sideA = findSidePda(0) /\ at.sideB = findSidePda(1)
      /\ at.tokenMintA = findMintPda(0) /\ at.tokenMintB = findMintPda(1)
      /\ at.tokenVaultA = findTokenVaultPda(0)
      /\ at.tokenVaultB = findTokenVaultPda(1)
      /\ at.quoteVaultA = findQuoteVaultPda(0)
      /\ at.quoteVaultB = findQuoteVaultPda(1) /\ at.market = findMarketPda
      /\ at.config = findConfigPda
      /\ at.protocolFeeAccount = CurrentFeeAccount(d)
      /\ at.creator = wallet(a.by) /\ at.metadataA = findMetadataPda(0)
      /\ at.metadataB = findMetadataPda(1)
  BY <1>2 DEF buildInitializeMarketInstruction, Built, BothSides, Fees, ++
<1>4. Build(a, d).locks =
        {at.creator, at.metadataA, at.metadataB, at.market, at.sideA,
         at.sideB, at.tokenMintA, at.tokenMintB, at.tokenVaultA,
         at.tokenVaultB, at.quoteVaultA, at.quoteVaultB}
  BY <1>1 DEF Tx, Interface!initializeMarket, Interface!marketAccounts
<1>5. /\ Build(a, d).fetched = fetchConfig
      /\ Build(a, d).creates = {}
  BY <1>1 DEF Tx, buildInitializeMarketInstruction, Built
<1> HIDE DEF at
<1> QED
  BY <1>3, <1>4, <1>5 DEF at

LEMMA BuyTokensRoles ==
  ASSUME NEW d, NEW a, a.ix = "buyTokens"
  PROVE  LET at == Build(a, d).at
         IN  /\ at.market = findMarketPda
             /\ at.sideAccount = findSidePda(a.side)
             /\ at.tokenVault = findTokenVaultPda(a.side)
             /\ at.quoteVault = findQuoteVaultPda(a.side)
             /\ at.config = findConfigPda
             /\ at.protocolFeeAccount = CurrentFeeAccount(d)
             /\ at.creatorFeeAccount = wsolAta(Creator)
             /\ at.buyer = wallet(a.by)
             /\ at.buyerTokenAccount = tokenAta(a.by, a.side)
             /\ at.buyerQuoteAccount = wsolAta(a.by)
             /\ Build(a, d).locks =
                  {wallet(a.by), findMarketPda, findSidePda(a.side),
                   findTokenVaultPda(a.side), tokenAta(a.by, a.side),
                   findQuoteVaultPda(a.side), wsolAta(a.by),
                   CurrentFeeAccount(d), wsolAta(Creator)}
             /\ Build(a, d).fetched = fetchMarket(a.side) \cup fetchConfig
             /\ Build(a, d).creates = {x \in {tokenAta(a.by, a.side)} : d[x] = Absent}
<1> DEFINE at == Build(a, d).at
<1>1. Build(a, d) = Tx(Interface!buyTokens, buildBuyTokensInstruction(a, d),
        d)
  BY DEF Build
<1>2. at = buildBuyTokensInstruction(a, d).at
  BY <1>1 DEF Tx
<1>3. /\ at.market = findMarketPda /\ at.sideAccount = findSidePda(a.side)
      /\ at.tokenVault = findTokenVaultPda(a.side)
      /\ at.quoteVault = findQuoteVaultPda(a.side)
      /\ at.config = findConfigPda
      /\ at.protocolFeeAccount = CurrentFeeAccount(d)
      /\ at.creatorFeeAccount = wsolAta(Creator) /\ at.buyer = wallet(a.by)
      /\ at.buyerTokenAccount = tokenAta(a.by, a.side)
      /\ at.buyerQuoteAccount = wsolAta(a.by)
  BY <1>2 DEF buildBuyTokensInstruction, Built, OneSide, Fees, ++
<1>4. Build(a, d).locks =
        {at.buyer, at.market, at.sideAccount, at.tokenVault,
         at.buyerTokenAccount, at.quoteVault, at.buyerQuoteAccount,
         at.protocolFeeAccount, at.creatorFeeAccount}
  BY <1>1 DEF Tx, Interface!buyTokens
<1>5. /\ Build(a, d).fetched = fetchMarket(a.side) \cup fetchConfig
      /\ Build(a, d).creates = {x \in {tokenAta(a.by, a.side)} : d[x] = Absent}
  BY <1>1 DEF Tx, buildBuyTokensInstruction, Built
<1> HIDE DEF at
<1> QED
  BY <1>3, <1>4, <1>5 DEF at

LEMMA SellTokensRoles ==
  ASSUME NEW d, NEW a, a.ix = "sellTokens"
  PROVE  LET at == Build(a, d).at
         IN  /\ at.market = findMarketPda
             /\ at.sideAccount = findSidePda(a.side)
             /\ at.tokenVault = findTokenVaultPda(a.side)
             /\ at.quoteVault = findQuoteVaultPda(a.side)
             /\ at.config = findConfigPda
             /\ at.protocolFeeAccount = CurrentFeeAccount(d)
             /\ at.creatorFeeAccount = wsolAta(Creator)
             /\ at.seller = wallet(a.by)
             /\ at.sellerTokenAccount = tokenAta(a.by, a.side)
             /\ at.sellerQuoteAccount = wsolAta(a.by)
             /\ Build(a, d).locks =
                  {wallet(a.by), findMarketPda, findSidePda(a.side),
                   findTokenVaultPda(a.side), tokenAta(a.by, a.side),
                   findQuoteVaultPda(a.side), wsolAta(a.by),
                   CurrentFeeAccount(d), wsolAta(Creator)}
             /\ Build(a, d).fetched = fetchMarket(a.side) \cup fetchConfig
             /\ Build(a, d).creates = {}
<1> DEFINE at == Build(a, d).at
<1>1. Build(a, d) = Tx(Interface!sellTokens, buildSellTokensInstruction(a, d),
        d)
  BY DEF Build
<1>2. at = buildSellTokensInstruction(a, d).at
  BY <1>1 DEF Tx
<1>3. /\ at.market = findMarketPda /\ at.sideAccount = findSidePda(a.side)
      /\ at.tokenVault = findTokenVaultPda(a.side)
      /\ at.quoteVault = findQuoteVaultPda(a.side)
      /\ at.config = findConfigPda
      /\ at.protocolFeeAccount = CurrentFeeAccount(d)
      /\ at.creatorFeeAccount = wsolAta(Creator) /\ at.seller = wallet(a.by)
      /\ at.sellerTokenAccount = tokenAta(a.by, a.side)
      /\ at.sellerQuoteAccount = wsolAta(a.by)
  BY <1>2 DEF buildSellTokensInstruction, Built, OneSide, Fees, Selling, ++
<1>4. Build(a, d).locks =
        {at.seller, at.market, at.sideAccount, at.tokenVault,
         at.sellerTokenAccount, at.quoteVault, at.sellerQuoteAccount,
         at.protocolFeeAccount, at.creatorFeeAccount}
  BY <1>1 DEF Tx, Interface!sellTokens
<1>5. /\ Build(a, d).fetched = fetchMarket(a.side) \cup fetchConfig
      /\ Build(a, d).creates = {}
  BY <1>1 DEF Tx, buildSellTokensInstruction, Built
<1> HIDE DEF at
<1> QED
  BY <1>3, <1>4, <1>5 DEF at

LEMMA SellPostResolutionRoles ==
  ASSUME NEW d, NEW a, a.ix = "sellPostResolution"
  PROVE  LET at == Build(a, d).at
         IN  /\ at.market = findMarketPda
             /\ at.sideAccount = findSidePda(a.side)
             /\ at.tokenVault = findTokenVaultPda(a.side)
             /\ at.quoteVault = findQuoteVaultPda(a.side)
             /\ at.seller = wallet(a.by)
             /\ at.sellerTokenAccount = tokenAta(a.by, a.side)
             /\ at.sellerQuoteAccount = wsolAta(a.by)
             /\ Build(a, d).locks =
                  {wallet(a.by), findMarketPda, findSidePda(a.side),
                   findTokenVaultPda(a.side), tokenAta(a.by, a.side),
                   findQuoteVaultPda(a.side), wsolAta(a.by)}
             /\ Build(a, d).fetched = fetchMarket(a.side)
             /\ Build(a, d).creates = {}
<1> DEFINE at == Build(a, d).at
<1>1. Build(a, d) = Tx(Interface!sellPostResolution,
        buildSellPostResolutionInstruction(a), d)
  BY DEF Build
<1>2. at = buildSellPostResolutionInstruction(a).at
  BY <1>1 DEF Tx
<1>3. /\ at.market = findMarketPda /\ at.sideAccount = findSidePda(a.side)
      /\ at.tokenVault = findTokenVaultPda(a.side)
      /\ at.quoteVault = findQuoteVaultPda(a.side) /\ at.seller = wallet(a.by)
      /\ at.sellerTokenAccount = tokenAta(a.by, a.side)
      /\ at.sellerQuoteAccount = wsolAta(a.by)
  BY <1>2 DEF buildSellPostResolutionInstruction, Built, OneSide, Selling, ++
<1>4. Build(a, d).locks =
        {at.seller, at.market, at.sideAccount, at.tokenVault,
         at.sellerTokenAccount, at.quoteVault, at.sellerQuoteAccount}
  BY <1>1 DEF Tx, Interface!sellPostResolution
<1>5. /\ Build(a, d).fetched = fetchMarket(a.side)
      /\ Build(a, d).creates = {}
  BY <1>1 DEF Tx, buildSellPostResolutionInstruction, Built
<1> HIDE DEF at
<1> QED
  BY <1>3, <1>4, <1>5 DEF at

LEMMA RecordTwapSampleRoles ==
  ASSUME NEW d, NEW a, a.ix = "recordTwapSample"
  PROVE  LET at == Build(a, d).at
         IN  /\ at.sideA = findSidePda(0) /\ at.sideB = findSidePda(1)
             /\ at.market = findMarketPda
             /\ Build(a, d).locks =
                  {findMarketPda, findSidePda(0), findSidePda(1)}
             /\ Build(a, d).fetched = {findMarketPda}
             /\ Build(a, d).creates = {}
<1> DEFINE at == Build(a, d).at
<1>1. Build(a, d) = Tx(Interface!recordTwapSample,
        buildRecordTwapSampleInstruction(a), d)
  BY DEF Build
<1>2. at = buildRecordTwapSampleInstruction(a).at
  BY <1>1 DEF Tx
<1>3. /\ at.sideA = findSidePda(0) /\ at.sideB = findSidePda(1)
      /\ at.market = findMarketPda
  BY <1>2 DEF buildRecordTwapSampleInstruction, Built, BothSides, ++
<1>4. Build(a, d).locks =
        {at.market, at.sideA, at.sideB}
  BY <1>1 DEF Tx, Interface!recordTwapSample
<1>5. /\ Build(a, d).fetched = {findMarketPda}
      /\ Build(a, d).creates = {}
  BY <1>1 DEF Tx, buildRecordTwapSampleInstruction, Built
<1> HIDE DEF at
<1> QED
  BY <1>3, <1>4, <1>5 DEF at

LEMMA ResolveAndGraduateRoles ==
  ASSUME NEW d, NEW a, a.ix = "resolveAndGraduate"
  PROVE  LET at == Build(a, d).at
         IN  /\ at.sideA = findSidePda(0) /\ at.sideB = findSidePda(1)
             /\ at.tokenMintA = findMintPda(0)
             /\ at.tokenMintB = findMintPda(1)
             /\ at.tokenVaultA = findTokenVaultPda(0)
             /\ at.tokenVaultB = findTokenVaultPda(1)
             /\ at.quoteVaultA = findQuoteVaultPda(0)
             /\ at.quoteVaultB = findQuoteVaultPda(1)
             /\ at.market = findMarketPda
             /\ at.pool = deriveDammV2Pool(a.side)
             /\ at.position = derivePositionAddress(a.by)
             /\ at.positionNftAccount = derivePositionNftAccount(a.by)
             /\ at.marketTokenAta = tokenAta(findMarketPda, a.side)
             /\ at.marketWsolAta = wsolAta(findMarketPda)
             /\ at.resolver = wallet(a.by)
             /\ at.positionNftMint = positionNftMint(a.by)
             /\ at.poolTokenVaultA = deriveDammV2TokenVault(a.side, "token")
             /\ at.poolTokenVaultB = deriveDammV2TokenVault(a.side, "wsol")
             /\ at.losingTokenMetadata = findMetadataPda(Other(a.side))
             /\ Build(a, d).locks =
                  {wallet(a.by), tokenAta(findMarketPda, a.side),
                   wsolAta(findMarketPda), deriveDammV2Pool(a.side),
                   positionNftMint(a.by), derivePositionNftAccount(a.by),
                   derivePositionAddress(a.by),
                   deriveDammV2TokenVault(a.side, "token"),
                   deriveDammV2TokenVault(a.side, "wsol"),
                   findMetadataPda(Other(a.side)), findMarketPda,
                   findSidePda(0), findSidePda(1), findMintPda(0),
                   findMintPda(1), findTokenVaultPda(0),
                   findTokenVaultPda(1), findQuoteVaultPda(0),
                   findQuoteVaultPda(1)}
             /\ Build(a, d).fetched = fetchMarket(0) \cup fetchMarket(1)
             /\ Build(a, d).creates =
                  {x \in {tokenAta(findMarketPda, a.side), wsolAta(findMarketPda)} :
                     d[x] = Absent}
<1> DEFINE at == Build(a, d).at
<1>1. Build(a, d) = Tx(Interface!resolveAndGraduate,
        buildResolveAndGraduateInstruction(a), d)
  BY DEF Build
<1>2. at = buildResolveAndGraduateInstruction(a).at
  BY <1>1 DEF Tx
<1>3. /\ at.sideA = findSidePda(0) /\ at.sideB = findSidePda(1)
      /\ at.tokenMintA = findMintPda(0) /\ at.tokenMintB = findMintPda(1)
      /\ at.tokenVaultA = findTokenVaultPda(0)
      /\ at.tokenVaultB = findTokenVaultPda(1)
      /\ at.quoteVaultA = findQuoteVaultPda(0)
      /\ at.quoteVaultB = findQuoteVaultPda(1) /\ at.market = findMarketPda
  BY <1>2 DEF buildResolveAndGraduateInstruction, Built, BothSides,
         deriveDammV2Accounts, ++
<1>4. Build(a, d).locks =
        {at.resolver, at.marketTokenAta, at.marketWsolAta, at.pool,
         at.positionNftMint, at.positionNftAccount, at.position,
         at.poolTokenVaultA, at.poolTokenVaultB, at.losingTokenMetadata,
         at.market, at.sideA, at.sideB, at.tokenMintA, at.tokenMintB,
         at.tokenVaultA, at.tokenVaultB, at.quoteVaultA, at.quoteVaultB}
  BY <1>1 DEF Tx, Interface!resolveAndGraduate, Interface!marketAccounts
<1>5. /\ Build(a, d).fetched = fetchMarket(0) \cup fetchMarket(1)
      /\ Build(a, d).creates =
                  {x \in {tokenAta(findMarketPda, a.side), wsolAta(findMarketPda)} :
                     d[x] = Absent}
  BY <1>1 DEF Tx, buildResolveAndGraduateInstruction, Built
<1>6. /\ at.pool = deriveDammV2Pool(a.side)
      /\ at.position = derivePositionAddress(a.by)
      /\ at.positionNftAccount = derivePositionNftAccount(a.by)
  BY <1>2 DEF buildResolveAndGraduateInstruction, Built, BothSides,
         deriveDammV2Accounts, ++
<1>7. /\ at.marketTokenAta = tokenAta(findMarketPda, a.side)
      /\ at.marketWsolAta = wsolAta(findMarketPda)
      /\ at.resolver = wallet(a.by)
      /\ at.positionNftMint = positionNftMint(a.by)
      /\ at.poolTokenVaultA = deriveDammV2TokenVault(a.side, "token")
      /\ at.poolTokenVaultB = deriveDammV2TokenVault(a.side, "wsol")
      /\ at.losingTokenMetadata = findMetadataPda(Other(a.side))
  BY <1>2 DEF buildResolveAndGraduateInstruction, Built, BothSides,
         deriveDammV2Accounts, ++
<1> HIDE DEF at
<1> QED
  BY <1>3, <1>4, <1>5, <1>6, <1>7 DEF at

LEMMA EmergencyResolveRoles ==
  ASSUME NEW d, NEW a, a.ix = "emergencyResolve"
  PROVE  LET at == Build(a, d).at
         IN  /\ at.sideA = findSidePda(0) /\ at.sideB = findSidePda(1)
             /\ at.market = findMarketPda /\ at.resolver = wallet(a.by)
             /\ Build(a, d).locks =
                  {wallet(a.by), findMarketPda, findSidePda(0),
                   findSidePda(1)}
             /\ Build(a, d).fetched = {findMarketPda}
             /\ Build(a, d).creates = {}
<1> DEFINE at == Build(a, d).at
<1>1. Build(a, d) = Tx(Interface!emergencyResolve,
        buildEmergencyResolveInstruction(a), d)
  BY DEF Build
<1>2. at = buildEmergencyResolveInstruction(a).at
  BY <1>1 DEF Tx
<1>3. /\ at.sideA = findSidePda(0) /\ at.sideB = findSidePda(1)
      /\ at.market = findMarketPda /\ at.resolver = wallet(a.by)
  BY <1>2 DEF buildEmergencyResolveInstruction, Built, BothSides, ++
<1>4. Build(a, d).locks =
        {at.resolver, at.market, at.sideA, at.sideB}
  BY <1>1 DEF Tx, Interface!emergencyResolve
<1>5. /\ Build(a, d).fetched = {findMarketPda}
      /\ Build(a, d).creates = {}
  BY <1>1 DEF Tx, buildEmergencyResolveInstruction, Built
<1> HIDE DEF at
<1> QED
  BY <1>3, <1>4, <1>5 DEF at

LEMMA ClaimPoolFeesRoles ==
  ASSUME NEW d, NEW a, a.ix = "claimPoolFees"
  PROVE  LET at == Build(a, d).at
         IN  /\ at.position = derivePositionAddress(a.value)
             /\ at.tokenAVault = deriveDammV2TokenVault(a.side, "token")
             /\ at.tokenBVault = deriveDammV2TokenVault(a.side, "wsol")
             /\ at.authority = wallet(a.by)
             /\ at.feeReceiverTokenA = tokenAta(a.by, a.side)
             /\ at.feeReceiverTokenB = wsolAta(a.by)
             /\ Build(a, d).locks =
                  {wallet(a.by), derivePositionAddress(a.value),
                   tokenAta(a.by, a.side), wsolAta(a.by),
                   deriveDammV2TokenVault(a.side, "token"),
                   deriveDammV2TokenVault(a.side, "wsol")}
             /\ Build(a, d).fetched = {}
             /\ Build(a, d).creates = {}
<1> DEFINE at == Build(a, d).at
<1>1. Build(a, d) = Tx(Interface!claimPoolFees,
        buildClaimPoolFeesInstruction(a), d)
  BY DEF Build
<1>2. at = buildClaimPoolFeesInstruction(a).at
  BY <1>1 DEF Tx
<1>3. /\ at.position = derivePositionAddress(a.value)
      /\ at.tokenAVault = deriveDammV2TokenVault(a.side, "token")
      /\ at.tokenBVault = deriveDammV2TokenVault(a.side, "wsol")
      /\ at.authority = wallet(a.by)
      /\ at.feeReceiverTokenA = tokenAta(a.by, a.side)
      /\ at.feeReceiverTokenB = wsolAta(a.by)
  BY <1>2 DEF buildClaimPoolFeesInstruction, Built, deriveDammV2Accounts, ++
<1>4. Build(a, d).locks =
        {at.authority, at.position, at.feeReceiverTokenA,
         at.feeReceiverTokenB, at.tokenAVault, at.tokenBVault}
  BY <1>1 DEF Tx, Interface!claimPoolFees
<1>5. /\ Build(a, d).fetched = {}
      /\ Build(a, d).creates = {}
  BY <1>1 DEF Tx, buildClaimPoolFeesInstruction, Built
<1> HIDE DEF at
<1> QED
  BY <1>3, <1>4, <1>5 DEF at

LEMMA CloseQuoteVaultRoles ==
  ASSUME NEW d, NEW a, a.ix = "closeQuoteVault"
  PROVE  LET at == Build(a, d).at
         IN  /\ at.market = findMarketPda
             /\ at.sideAccount = findSidePda(a.side)
             /\ at.tokenVault = findTokenVaultPda(a.side)
             /\ at.quoteVault = findQuoteVaultPda(a.side)
             /\ at.closer = wallet(a.by) /\ at.rentReceiver = wallet(a.by)
             /\ Build(a, d).locks =
                  {wallet(a.by), findQuoteVaultPda(a.side),
                   findTokenVaultPda(a.side)}
             /\ Build(a, d).fetched = fetchMarket(a.side)
             /\ Build(a, d).creates = {}
<1> DEFINE at == Build(a, d).at
<1>1. Build(a, d) = Tx(Interface!closeQuoteVault,
        buildCloseQuoteVaultInstruction(a), d)
  BY DEF Build
<1>2. at = buildCloseQuoteVaultInstruction(a).at
  BY <1>1 DEF Tx
<1>3. /\ at.market = findMarketPda /\ at.sideAccount = findSidePda(a.side)
      /\ at.tokenVault = findTokenVaultPda(a.side)
      /\ at.quoteVault = findQuoteVaultPda(a.side) /\ at.closer = wallet(a.by)
      /\ at.rentReceiver = wallet(a.by)
  BY <1>2 DEF buildCloseQuoteVaultInstruction, Built, OneSide, ++
<1>4. Build(a, d).locks =
        {at.closer, at.quoteVault, at.tokenVault, at.rentReceiver}
  BY <1>1 DEF Tx, Interface!closeQuoteVault
<1>5. /\ Build(a, d).fetched = fetchMarket(a.side)
      /\ Build(a, d).creates = {}
  BY <1>1 DEF Tx, buildCloseQuoteVaultInstruction, Built
<1> HIDE DEF at
<1> QED
  BY <1>3, <1>4, <1>5 DEF at

LEMMA CloseMarketRoles ==
  ASSUME NEW d, NEW a, a.ix = "closeMarket"
  PROVE  LET at == Build(a, d).at
         IN  /\ at.sideA = findSidePda(0) /\ at.sideB = findSidePda(1)
             /\ at.market = findMarketPda /\ at.authority = wallet(a.by)
             /\ Build(a, d).locks =
                  {wallet(a.by), findMarketPda, findSidePda(0),
                   findSidePda(1)}
             /\ Build(a, d).fetched = {findMarketPda}
             /\ Build(a, d).creates = {}
<1> DEFINE at == Build(a, d).at
<1>1. Build(a, d) = Tx(Interface!closeMarket, buildCloseMarketInstruction(a),
        d)
  BY DEF Build
<1>2. at = buildCloseMarketInstruction(a).at
  BY <1>1 DEF Tx
<1>3. /\ at.sideA = findSidePda(0) /\ at.sideB = findSidePda(1)
      /\ at.market = findMarketPda /\ at.authority = wallet(a.by)
  BY <1>2 DEF buildCloseMarketInstruction, Built, BothSides, ++
<1>4. Build(a, d).locks =
        {at.authority, at.market, at.sideA, at.sideB}
  BY <1>1 DEF Tx, Interface!closeMarket
<1>5. /\ Build(a, d).fetched = {findMarketPda}
      /\ Build(a, d).creates = {}
  BY <1>1 DEF Tx, buildCloseMarketInstruction, Built
<1> HIDE DEF at
<1> QED
  BY <1>3, <1>4, <1>5 DEF at

LEMMA CreateCompareDuelRoles ==
  ASSUME NEW d, NEW a, a.ix = "createCompareDuel"
  PROVE  LET at == Build(a, d).at
         IN  /\ at.compareDuel = findCompareDuelPda
             /\ at.config = findConfigPda
             /\ at.poolVaultA = findCompareVaultPda(0)
             /\ at.poolVaultB = findCompareVaultPda(1)
             /\ at.protocolFeeAccount = CurrentFeeAccount(d)
             /\ at.creator = wallet(a.by)
             /\ Build(a, d).locks =
                  {wallet(a.by), findCompareDuelPda, findCompareVaultPda(0),
                   findCompareVaultPda(1)}
             /\ Build(a, d).fetched = fetchConfig
             /\ Build(a, d).creates = {}
<1> DEFINE at == Build(a, d).at
<1>1. Build(a, d) = Tx(Interface!createCompareDuel,
        buildCreateCompareDuelInstruction(a, d), d)
  BY DEF Build
<1>2. at = buildCreateCompareDuelInstruction(a, d).at
  BY <1>1 DEF Tx
<1>3. /\ at.compareDuel = findCompareDuelPda /\ at.config = findConfigPda
      /\ at.poolVaultA = findCompareVaultPda(0)
      /\ at.poolVaultB = findCompareVaultPda(1)
      /\ at.protocolFeeAccount = CurrentFeeAccount(d)
      /\ at.creator = wallet(a.by)
  BY <1>2 DEF buildCreateCompareDuelInstruction, Built, Duel, Fees, ++
<1>4. Build(a, d).locks =
        {at.creator, at.compareDuel, at.poolVaultA, at.poolVaultB}
  BY <1>1 DEF Tx, Interface!createCompareDuel
<1>5. /\ Build(a, d).fetched = fetchConfig
      /\ Build(a, d).creates = {}
  BY <1>1 DEF Tx, buildCreateCompareDuelInstruction, Built
<1> HIDE DEF at
<1> QED
  BY <1>3, <1>4, <1>5 DEF at

LEMMA DepositSolRoles ==
  ASSUME NEW d, NEW a, a.ix = "deposit"
  PROVE  LET at == Build(a, d).at
         IN  /\ at.compareDuel = findCompareDuelPda
             /\ at.depositor = wallet(a.by)
             /\ at.depositRecord = findDepositPda(a.by)
             /\ at.depositorWsolAccount = wsolAta(a.by)
             /\ at.poolVault = findCompareVaultPda(a.side)
             /\ Build(a, d).locks =
                  {wallet(a.by), findCompareDuelPda, findDepositPda(a.by),
                   findCompareVaultPda(a.side), wsolAta(a.by)}
             /\ Build(a, d).fetched = {findCompareDuelPda}
             /\ Build(a, d).creates = {}
<1> DEFINE at == Build(a, d).at
<1>1. Build(a, d) = Tx(Interface!deposit, buildDepositInstruction(a), d)
  BY DEF Build
<1>2. at = buildDepositInstruction(a).at
  BY <1>1 DEF Tx
<1>3. /\ at.compareDuel = findCompareDuelPda /\ at.depositor = wallet(a.by)
      /\ at.depositRecord = findDepositPda(a.by)
      /\ at.depositorWsolAccount = wsolAta(a.by)
      /\ at.poolVault = findCompareVaultPda(a.side)
  BY <1>2 DEF buildDepositInstruction, Built, Duel, Depositing, ++
<1>4. Build(a, d).locks =
        {at.depositor, at.compareDuel, at.depositRecord, at.poolVault,
         at.depositorWsolAccount}
  BY <1>1 DEF Tx, Interface!deposit
<1>5. /\ Build(a, d).fetched = {findCompareDuelPda}
      /\ Build(a, d).creates = {}
  BY <1>1 DEF Tx, buildDepositInstruction, Built
<1> HIDE DEF at
<1> QED
  BY <1>3, <1>4, <1>5 DEF at

LEMMA RecordCompareTwapRoles ==
  ASSUME NEW d, NEW a, a.ix = "recordCompareTwap"
  PROVE  LET at == Build(a, d).at
         IN  /\ at.compareDuel = findCompareDuelPda
             /\ Build(a, d).locks =
                  {findCompareDuelPda}
             /\ Build(a, d).fetched = {findCompareDuelPda}
             /\ Build(a, d).creates = {}
<1> DEFINE at == Build(a, d).at
<1>1. Build(a, d) = Tx(Interface!recordCompareTwap,
        buildRecordCompareTwapInstruction(a), d)
  BY DEF Build
<1>2. at = buildRecordCompareTwapInstruction(a).at
  BY <1>1 DEF Tx
<1>3. /\ at.compareDuel = findCompareDuelPda
  BY <1>2 DEF buildRecordCompareTwapInstruction, Built, Duel, ++
<1>4. Build(a, d).locks =
        {at.compareDuel}
  BY <1>1 DEF Tx, Interface!recordCompareTwap
<1>5. /\ Build(a, d).fetched = {findCompareDuelPda}
      /\ Build(a, d).creates = {}
  BY <1>1 DEF Tx, buildRecordCompareTwapInstruction, Built
<1> HIDE DEF at
<1> QED
  BY <1>3, <1>4, <1>5 DEF at

LEMMA ResolveCompareRoles ==
  ASSUME NEW d, NEW a, a.ix = "resolveCompare"
  PROVE  LET at == Build(a, d).at
         IN  /\ at.compareDuel = findCompareDuelPda
             /\ at.poolVaultA = findCompareVaultPda(0)
             /\ at.poolVaultB = findCompareVaultPda(1)
             /\ at.resolver = wallet(a.by)
             /\ at.creatorFeeAccount = wsolAta(Creator)
             /\ at.protocolFeeAccount = DuelFeeAccount(d)
             /\ Build(a, d).locks =
                  {wallet(a.by), findCompareDuelPda, findCompareVaultPda(0),
                   findCompareVaultPda(1), DuelFeeAccount(d),
                   wsolAta(Creator)}
             /\ Build(a, d).fetched = {findCompareDuelPda}
             /\ Build(a, d).creates = {}
<1> DEFINE at == Build(a, d).at
<1>1. Build(a, d) = Tx(Interface!resolveCompare,
        buildResolveCompareInstruction(a, d), d)
  BY DEF Build
<1>2. at = buildResolveCompareInstruction(a, d).at
  BY <1>1 DEF Tx
<1>3. /\ at.compareDuel = findCompareDuelPda
      /\ at.poolVaultA = findCompareVaultPda(0)
      /\ at.poolVaultB = findCompareVaultPda(1) /\ at.resolver = wallet(a.by)
      /\ at.creatorFeeAccount = wsolAta(Creator)
      /\ at.protocolFeeAccount = DuelFeeAccount(d)
  BY <1>2 DEF buildResolveCompareInstruction, Built, Duel, ++
<1>4. Build(a, d).locks =
        {at.resolver, at.compareDuel, at.poolVaultA, at.poolVaultB,
         at.protocolFeeAccount, at.creatorFeeAccount}
  BY <1>1 DEF Tx, Interface!resolveCompare
<1>5. /\ Build(a, d).fetched = {findCompareDuelPda}
      /\ Build(a, d).creates = {}
  BY <1>1 DEF Tx, buildResolveCompareInstruction, Built
<1> HIDE DEF at
<1> QED
  BY <1>3, <1>4, <1>5 DEF at

LEMMA EmergencyResolveCompareRoles ==
  ASSUME NEW d, NEW a, a.ix = "emergencyResolveCompare"
  PROVE  LET at == Build(a, d).at
         IN  /\ at.compareDuel = findCompareDuelPda
             /\ at.resolver = wallet(a.by)
             /\ Build(a, d).locks =
                  {wallet(a.by), findCompareDuelPda}
             /\ Build(a, d).fetched = {}
             /\ Build(a, d).creates = {}
<1> DEFINE at == Build(a, d).at
<1>1. Build(a, d) = Tx(Interface!emergencyResolveCompare,
        buildEmergencyResolveCompareInstruction(a), d)
  BY DEF Build
<1>2. at = buildEmergencyResolveCompareInstruction(a).at
  BY <1>1 DEF Tx
<1>3. /\ at.compareDuel = findCompareDuelPda /\ at.resolver = wallet(a.by)
  BY <1>2 DEF buildEmergencyResolveCompareInstruction, Built, Duel, ++
<1>4. Build(a, d).locks =
        {at.resolver, at.compareDuel}
  BY <1>1 DEF Tx, Interface!emergencyResolveCompare
<1>5. /\ Build(a, d).fetched = {}
      /\ Build(a, d).creates = {}
  BY <1>1 DEF Tx, buildEmergencyResolveCompareInstruction, Built
<1> HIDE DEF at
<1> QED
  BY <1>3, <1>4, <1>5 DEF at

LEMMA WithdrawRoles ==
  ASSUME NEW d, NEW a, a.ix = "withdraw"
  PROVE  LET at == Build(a, d).at
         IN  /\ at.compareDuel = findCompareDuelPda
             /\ at.depositor = wallet(a.by)
             /\ at.depositRecord = findDepositPda(a.by)
             /\ at.depositorWsolAccount = wsolAta(a.by)
             /\ at.poolVault = WithdrawVault(d, a.by)
             /\ Build(a, d).locks =
                  {wallet(a.by), findDepositPda(a.by), WithdrawVault(d,
                   a.by), wsolAta(a.by)}
             /\ Build(a, d).fetched = fetchDeposit(a.by)
             /\ Build(a, d).creates = {}
<1> DEFINE at == Build(a, d).at
<1>1. Build(a, d) = Tx(Interface!withdraw, buildWithdrawInstruction(a, d), d)
  BY DEF Build
<1>2. at = buildWithdrawInstruction(a, d).at
  BY <1>1 DEF Tx
<1>3. /\ at.compareDuel = findCompareDuelPda /\ at.depositor = wallet(a.by)
      /\ at.depositRecord = findDepositPda(a.by)
      /\ at.depositorWsolAccount = wsolAta(a.by)
      /\ at.poolVault = WithdrawVault(d, a.by)
  BY <1>2 DEF buildWithdrawInstruction, Built, Duel, Depositing, ++
<1>4. Build(a, d).locks =
        {at.depositor, at.depositRecord, at.poolVault,
         at.depositorWsolAccount}
  BY <1>1 DEF Tx, Interface!withdraw
<1>5. /\ Build(a, d).fetched = fetchDeposit(a.by)
      /\ Build(a, d).creates = {}
  BY <1>1 DEF Tx, buildWithdrawInstruction, Built
<1> HIDE DEF at
<1> QED
  BY <1>3, <1>4, <1>5 DEF at

LEMMA CloseCompareDuelRoles ==
  ASSUME NEW d, NEW a, a.ix = "closeCompareDuel"
  PROVE  LET at == Build(a, d).at
         IN  /\ at.compareDuel = findCompareDuelPda
             /\ at.poolVaultA = findCompareVaultPda(0)
             /\ at.poolVaultB = findCompareVaultPda(1)
             /\ at.authority = wallet(a.by)
             /\ Build(a, d).locks =
                  {wallet(a.by), findCompareDuelPda, findCompareVaultPda(0),
                   findCompareVaultPda(1)}
             /\ Build(a, d).fetched = {findCompareDuelPda}
             /\ Build(a, d).creates = {}
<1> DEFINE at == Build(a, d).at
<1>1. Build(a, d) = Tx(Interface!closeCompareDuel,
        buildCloseCompareDuelInstruction(a), d)
  BY DEF Build
<1>2. at = buildCloseCompareDuelInstruction(a).at
  BY <1>1 DEF Tx
<1>3. /\ at.compareDuel = findCompareDuelPda
      /\ at.poolVaultA = findCompareVaultPda(0)
      /\ at.poolVaultB = findCompareVaultPda(1) /\ at.authority = wallet(a.by)
  BY <1>2 DEF buildCloseCompareDuelInstruction, Built, Duel, ++
<1>4. Build(a, d).locks =
        {at.authority, at.compareDuel, at.poolVaultA, at.poolVaultB}
  BY <1>1 DEF Tx, Interface!closeCompareDuel
<1>5. /\ Build(a, d).fetched = {findCompareDuelPda}
      /\ Build(a, d).creates = {}
  BY <1>1 DEF Tx, buildCloseCompareDuelInstruction, Built
<1> HIDE DEF at
<1> QED
  BY <1>3, <1>4, <1>5 DEF at

LEMMA CloseDepositRoles ==
  ASSUME NEW d, NEW a, a.ix = "closeDeposit"
  PROVE  LET at == Build(a, d).at
         IN  /\ at.compareDuel = findCompareDuelPda
             /\ at.depositor = wallet(a.by)
             /\ at.depositRecord = findDepositPda(a.by)
             /\ Build(a, d).locks =
                  {wallet(a.by), findDepositPda(a.by)}
             /\ Build(a, d).fetched = {}
             /\ Build(a, d).creates = {}
<1> DEFINE at == Build(a, d).at
<1>1. Build(a, d) = Tx(Interface!closeDeposit,
        buildCloseDepositInstruction(a), d)
  BY DEF Build
<1>2. at = buildCloseDepositInstruction(a).at
  BY <1>1 DEF Tx
<1>3. /\ at.compareDuel = findCompareDuelPda /\ at.depositor = wallet(a.by)
      /\ at.depositRecord = findDepositPda(a.by)
  BY <1>2 DEF buildCloseDepositInstruction, Built, Duel, Depositing, ++
<1>4. Build(a, d).locks =
        {at.depositor, at.depositRecord}
  BY <1>1 DEF Tx, Interface!closeDeposit
<1>5. /\ Build(a, d).fetched = {}
      /\ Build(a, d).creates = {}
  BY <1>1 DEF Tx, buildCloseDepositInstruction, Built
<1> HIDE DEF at
<1> QED
  BY <1>3, <1>4, <1>5 DEF at

-----------------------------------------------------------------------------
(* What the program does with a transaction built on d0 that lands on d:   *)
(* which addresses it changes and whose balances move, all of them locked. *)
(* One lemma per instruction; the creations come with their fee.           *)

LEMMA InitializeConfigLands ==
  ASSUME NEW d, IsData(d), NEW d0, NEW a, a.ix = "initializeConfig",
         NEW o \in Run(d, Build(a, d0).at, a)
  PROVE  /\ Lands(d, Build(a, d0), o, KeptByConfig)
         /\ o.moved \subseteq Build(a, d0).locks
<1> DEFINE at == Build(a, d0).at
<1>1. o \in InitializeConfig(d, at, a)
  BY DEF Run
<1> HIDE DEF at
<1>2. /\ IsData(o.data)
      /\ Changed(d, o) \subseteq
           {at.config}
      /\ o.moved \subseteq
           {at.admin}
  BY <1>1 DEF InitializeConfig, Outcome, IsData, Changed
<1>3. /\ Changed(d, o) \subseteq
           {findConfigPda}
      /\ o.moved \subseteq
           {wallet(a.by)}
  BY <1>2, InitializeConfigRoles DEF at
<1>4. Changed(d, o) \cap KeptByConfig = {}
  BY <1>3 DEF KeptByConfig, DuelAccounts, findConfigPda, findMintPda,
         findCompareDuelPda, findCompareVaultPda, findDepositPda
<1> QED
  BY <1>2, <1>3, <1>4, InitializeConfigRoles DEF Lands

LEMMA UpdateConfigLands ==
  ASSUME NEW d, IsData(d), NEW d0, NEW a, a.ix = "updateConfig",
         NEW o \in Run(d, Build(a, d0).at, a)
  PROVE  /\ Lands(d, Build(a, d0), o, KeptByConfig)
         /\ o.moved \subseteq Build(a, d0).locks
<1> DEFINE at == Build(a, d0).at
<1>1. o \in UpdateConfig(d, at, a)
  BY DEF Run
<1> HIDE DEF at
<1>2. /\ IsData(o.data)
      /\ Changed(d, o) \subseteq
           {at.config}
      /\ o.moved \subseteq
           {}
  BY <1>1 DEF UpdateConfig, Outcome, IsData, Changed
<1>3. /\ Changed(d, o) \subseteq
           {findConfigPda}
      /\ o.moved \subseteq
           {}
  BY <1>2, UpdateConfigRoles DEF at
<1>4. Changed(d, o) \cap KeptByConfig = {}
  BY <1>3 DEF KeptByConfig, DuelAccounts, findConfigPda, findMintPda,
         findCompareDuelPda, findCompareVaultPda, findDepositPda
<1> QED
  BY <1>2, <1>3, <1>4, UpdateConfigRoles DEF Lands

LEMMA BuyTokensLands ==
  ASSUME NEW d, IsData(d), NEW d0, NEW a, a.ix = "buyTokens",
         NEW o \in Run(d, Build(a, d0).at, a)
  PROVE  /\ Lands(d, Build(a, d0), o, KeptByMarket)
         /\ o.moved \subseteq Build(a, d0).locks
<1> DEFINE at == Build(a, d0).at
<1>1. o \in BuyTokens(d, at, a)
  BY DEF Run
<1> HIDE DEF at
<1>2. /\ IsData(o.data)
      /\ Changed(d, o) \subseteq
           {at.sideAccount, at.quoteVault, at.tokenVault,
            at.buyerTokenAccount}
      /\ o.moved \subseteq
           {at.buyerQuoteAccount, at.protocolFeeAccount,
            at.creatorFeeAccount}
  BY <1>1 DEF BuyTokens, Outcome, IsData, Changed, Sold
<1>3. /\ Changed(d, o) \subseteq
           {findSidePda(a.side), findQuoteVaultPda(a.side),
            findTokenVaultPda(a.side), tokenAta(a.by, a.side)}
      /\ o.moved \subseteq
           {wsolAta(a.by), CurrentFeeAccount(d0), wsolAta(Creator)}
  BY <1>2, BuyTokensRoles DEF at
<1>4. Changed(d, o) \cap KeptByMarket = {}
  BY <1>3 DEF KeptByMarket, DuelAccounts, findSidePda, findTokenVaultPda,
         findQuoteVaultPda, tokenAta, findConfigPda, findMintPda,
         findCompareDuelPda, findCompareVaultPda, findDepositPda
<1> QED
  BY <1>2, <1>3, <1>4, BuyTokensRoles DEF Lands

LEMMA SellTokensLands ==
  ASSUME NEW d, IsData(d), NEW d0, NEW a, a.ix = "sellTokens",
         NEW o \in Run(d, Build(a, d0).at, a)
  PROVE  /\ Lands(d, Build(a, d0), o, KeptByMarket)
         /\ o.moved \subseteq Build(a, d0).locks
<1> DEFINE at == Build(a, d0).at
<1>1. o \in SellTokens(d, at, a)
  BY DEF Run
<1> HIDE DEF at
<1>2. /\ IsData(o.data)
      /\ Changed(d, o) \subseteq
           {at.sideAccount, at.quoteVault, at.tokenVault,
            at.sellerTokenAccount}
      /\ o.moved \subseteq
           {at.sellerQuoteAccount, at.protocolFeeAccount,
            at.creatorFeeAccount}
  BY <1>1 DEF SellTokens, Outcome, IsData, Changed, SoldBack
<1>3. /\ Changed(d, o) \subseteq
           {findSidePda(a.side), findQuoteVaultPda(a.side),
            findTokenVaultPda(a.side), tokenAta(a.by, a.side)}
      /\ o.moved \subseteq
           {wsolAta(a.by), CurrentFeeAccount(d0), wsolAta(Creator)}
  BY <1>2, SellTokensRoles DEF at
<1>4. Changed(d, o) \cap KeptByMarket = {}
  BY <1>3 DEF KeptByMarket, DuelAccounts, findSidePda, findTokenVaultPda,
         findQuoteVaultPda, tokenAta, findConfigPda, findMintPda,
         findCompareDuelPda, findCompareVaultPda, findDepositPda
<1> QED
  BY <1>2, <1>3, <1>4, SellTokensRoles DEF Lands

LEMMA SellPostResolutionLands ==
  ASSUME NEW d, IsData(d), NEW d0, NEW a, a.ix = "sellPostResolution",
         NEW o \in Run(d, Build(a, d0).at, a)
  PROVE  /\ Lands(d, Build(a, d0), o, KeptByMarket)
         /\ o.moved \subseteq Build(a, d0).locks
<1> DEFINE at == Build(a, d0).at
<1>1. o \in SellPostResolution(d, at, a)
  BY DEF Run
<1> HIDE DEF at
<1>2. /\ IsData(o.data)
      /\ Changed(d, o) \subseteq
           {at.sideAccount, at.quoteVault, at.tokenVault,
            at.sellerTokenAccount}
      /\ o.moved \subseteq
           {at.sellerQuoteAccount}
  BY <1>1 DEF SellPostResolution, Outcome, IsData, Changed, SoldBack
<1>3. /\ Changed(d, o) \subseteq
           {findSidePda(a.side), findQuoteVaultPda(a.side),
            findTokenVaultPda(a.side), tokenAta(a.by, a.side)}
      /\ o.moved \subseteq
           {wsolAta(a.by)}
  BY <1>2, SellPostResolutionRoles DEF at
<1>4. Changed(d, o) \cap KeptByMarket = {}
  BY <1>3 DEF KeptByMarket, DuelAccounts, findSidePda, findTokenVaultPda,
         findQuoteVaultPda, tokenAta, findConfigPda, findMintPda,
         findCompareDuelPda, findCompareVaultPda, findDepositPda
<1> QED
  BY <1>2, <1>3, <1>4, SellPostResolutionRoles DEF Lands

LEMMA RecordTwapSampleLands ==
  ASSUME NEW d, IsData(d), NEW d0, NEW a, a.ix = "recordTwapSample",
         NEW o \in Run(d, Build(a, d0).at, a)
  PROVE  /\ Lands(d, Build(a, d0), o, KeptByMarket)
         /\ o.moved \subseteq Build(a, d0).locks
<1> DEFINE at == Build(a, d0).at
<1>1. o \in RecordTwapSample(d, at, a)
  BY DEF Run
<1> HIDE DEF at
<1>2. /\ IsData(o.data)
      /\ Changed(d, o) \subseteq
           {at.market, at.sideA, at.sideB}
      /\ o.moved \subseteq
           {}
  BY <1>1 DEF RecordTwapSample, Outcome, IsData, Changed
<1>3. /\ Changed(d, o) \subseteq
           {findMarketPda, findSidePda(0), findSidePda(1)}
      /\ o.moved \subseteq
           {}
  BY <1>2, RecordTwapSampleRoles DEF at
<1>4. Changed(d, o) \cap KeptByMarket = {}
  BY <1>3 DEF KeptByMarket, DuelAccounts, findMarketPda, findSidePda,
         findConfigPda, findMintPda, findCompareDuelPda, findCompareVaultPda,
         findDepositPda
<1> QED
  BY <1>2, <1>3, <1>4, RecordTwapSampleRoles DEF Lands

LEMMA ResolveAndGraduateLands ==
  ASSUME NEW d, IsData(d), NEW d0, NEW a, a.ix = "resolveAndGraduate",
         NEW o \in Run(d, Build(a, d0).at, a)
  PROVE  /\ Lands(d, Build(a, d0), o, KeptByMarket)
         /\ o.moved \subseteq Build(a, d0).locks
<1> DEFINE at == Build(a, d0).at
<1>1. o \in ResolveAndGraduate(d, at, a)
  BY DEF Run
<1> HIDE DEF at
<1>2. /\ IsData(o.data)
      /\ Changed(d, o) \subseteq
           {at.market, at.quoteVaultA, at.quoteVaultB, at.tokenVaultA,
            at.tokenVaultB, at.pool, at.position, at.positionNftMint,
            at.positionNftAccount, at.poolTokenVaultA, at.poolTokenVaultB}
      /\ o.moved \subseteq
           {at.resolver, at.losingTokenMetadata, at.marketTokenAta,
            at.marketWsolAta}
  BY <1>1 DEF ResolveAndGraduate, Outcome, IsData, Changed
<1>3. /\ Changed(d, o) \subseteq
           {findMarketPda, findQuoteVaultPda(0), findQuoteVaultPda(1),
            findTokenVaultPda(0), findTokenVaultPda(1),
            deriveDammV2Pool(a.side), derivePositionAddress(a.by),
            positionNftMint(a.by), derivePositionNftAccount(a.by),
            deriveDammV2TokenVault(a.side, "token"),
            deriveDammV2TokenVault(a.side, "wsol")}
      /\ o.moved \subseteq
           {wallet(a.by), findMetadataPda(Other(a.side)),
            tokenAta(findMarketPda, a.side), wsolAta(findMarketPda)}
  BY <1>2, ResolveAndGraduateRoles DEF at
<1>4. Changed(d, o) \cap KeptByMarket = {}
  BY <1>3 DEF KeptByMarket, DuelAccounts, findMarketPda, findTokenVaultPda,
         findQuoteVaultPda, deriveDammV2Pool, derivePositionAddress,
         derivePositionNftAccount, deriveDammV2TokenVault, positionNftMint,
         findConfigPda, findMintPda, findCompareDuelPda, findCompareVaultPda,
         findDepositPda
<1> QED
  BY <1>2, <1>3, <1>4, ResolveAndGraduateRoles DEF Lands

LEMMA EmergencyResolveLands ==
  ASSUME NEW d, IsData(d), NEW d0, NEW a, a.ix = "emergencyResolve",
         NEW o \in Run(d, Build(a, d0).at, a)
  PROVE  /\ Lands(d, Build(a, d0), o, KeptByMarket)
         /\ o.moved \subseteq Build(a, d0).locks
<1> DEFINE at == Build(a, d0).at
<1>1. o \in EmergencyResolve(d, at, a)
  BY DEF Run
<1> HIDE DEF at
<1>2. /\ IsData(o.data)
      /\ Changed(d, o) \subseteq
           {at.market}
      /\ o.moved \subseteq
           {}
  BY <1>1 DEF EmergencyResolve, Outcome, IsData, Changed
<1>3. /\ Changed(d, o) \subseteq
           {findMarketPda}
      /\ o.moved \subseteq
           {}
  BY <1>2, EmergencyResolveRoles DEF at
<1>4. Changed(d, o) \cap KeptByMarket = {}
  BY <1>3 DEF KeptByMarket, DuelAccounts, findMarketPda, findConfigPda,
         findMintPda, findCompareDuelPda, findCompareVaultPda, findDepositPda
<1> QED
  BY <1>2, <1>3, <1>4, EmergencyResolveRoles DEF Lands

LEMMA ClaimPoolFeesLands ==
  ASSUME NEW d, IsData(d), NEW d0, NEW a, a.ix = "claimPoolFees",
         NEW o \in Run(d, Build(a, d0).at, a)
  PROVE  /\ Lands(d, Build(a, d0), o, KeptByMarket)
         /\ o.moved \subseteq Build(a, d0).locks
<1> DEFINE at == Build(a, d0).at
<1>1. o \in ClaimPoolFees(d, at, a)
  BY DEF Run
<1> HIDE DEF at
<1>2. /\ IsData(o.data)
      /\ Changed(d, o) \subseteq
           {}
      /\ o.moved \subseteq
           {at.position, at.feeReceiverTokenA, at.feeReceiverTokenB,
            at.tokenAVault, at.tokenBVault}
  BY <1>1 DEF ClaimPoolFees, Outcome, IsData, Changed
<1>3. /\ Changed(d, o) \subseteq
           {}
      /\ o.moved \subseteq
           {derivePositionAddress(a.value), tokenAta(a.by, a.side),
            wsolAta(a.by), deriveDammV2TokenVault(a.side, "token"),
            deriveDammV2TokenVault(a.side, "wsol")}
  BY <1>2, ClaimPoolFeesRoles DEF at
<1>4. Changed(d, o) \cap KeptByMarket = {}
  BY <1>3 DEF KeptByMarket, DuelAccounts, findConfigPda, findMintPda,
         findCompareDuelPda, findCompareVaultPda, findDepositPda
<1> QED
  BY <1>2, <1>3, <1>4, ClaimPoolFeesRoles DEF Lands

LEMMA CloseQuoteVaultLands ==
  ASSUME NEW d, IsData(d), NEW d0, NEW a, a.ix = "closeQuoteVault",
         NEW o \in Run(d, Build(a, d0).at, a)
  PROVE  /\ Lands(d, Build(a, d0), o, KeptByMarket)
         /\ o.moved \subseteq Build(a, d0).locks
<1> DEFINE at == Build(a, d0).at
<1>1. o \in CloseQuoteVault(d, at, a)
  BY DEF Run
<1> HIDE DEF at
<1>2. /\ IsData(o.data)
      /\ Changed(d, o) \subseteq
           {at.quoteVault, at.tokenVault}
      /\ o.moved \subseteq
           {at.rentReceiver}
  BY <1>1 DEF CloseQuoteVault, Outcome, IsData, Changed, CloseIfEmpty
<1>3. /\ Changed(d, o) \subseteq
           {findQuoteVaultPda(a.side), findTokenVaultPda(a.side)}
      /\ o.moved \subseteq
           {wallet(a.by)}
  BY <1>2, CloseQuoteVaultRoles DEF at
<1>4. Changed(d, o) \cap KeptByMarket = {}
  BY <1>3 DEF KeptByMarket, DuelAccounts, findTokenVaultPda,
         findQuoteVaultPda, findConfigPda, findMintPda, findCompareDuelPda,
         findCompareVaultPda, findDepositPda
<1> QED
  BY <1>2, <1>3, <1>4, CloseQuoteVaultRoles DEF Lands

LEMMA CloseMarketLands ==
  ASSUME NEW d, IsData(d), NEW d0, NEW a, a.ix = "closeMarket",
         NEW o \in Run(d, Build(a, d0).at, a)
  PROVE  /\ Lands(d, Build(a, d0), o, KeptByMarket)
         /\ o.moved \subseteq Build(a, d0).locks
<1> DEFINE at == Build(a, d0).at
<1>1. o \in CloseMarket(d, at, a)
  BY DEF Run
<1> HIDE DEF at
<1>2. /\ IsData(o.data)
      /\ Changed(d, o) \subseteq
           {at.market, at.sideA, at.sideB}
      /\ o.moved \subseteq
           {at.authority}
  BY <1>1 DEF CloseMarket, Outcome, IsData, Changed, With
<1>3. /\ Changed(d, o) \subseteq
           {findMarketPda, findSidePda(0), findSidePda(1)}
      /\ o.moved \subseteq
           {wallet(a.by)}
  BY <1>2, CloseMarketRoles DEF at
<1>4. Changed(d, o) \cap KeptByMarket = {}
  BY <1>3 DEF KeptByMarket, DuelAccounts, findMarketPda, findSidePda,
         findConfigPda, findMintPda, findCompareDuelPda, findCompareVaultPda,
         findDepositPda
<1> QED
  BY <1>2, <1>3, <1>4, CloseMarketRoles DEF Lands

LEMMA CreateCompareDuelLands ==
  ASSUME NEW d, IsData(d), NEW d0, NEW a, a.ix = "createCompareDuel",
         NEW o \in Run(d, Build(a, d0).at, a)
  PROVE  /\ Lands(d, Build(a, d0), o, KeptByDuel)
         /\ d[findConfigPda].creationFee = 0 => o.moved \subseteq Build(a, d0).locks
<1> DEFINE at == Build(a, d0).at
<1>1. o \in CreateCompareDuel(d, at, a)
  BY DEF Run
<1> HIDE DEF at
<1>2. /\ IsData(o.data)
      /\ Changed(d, o) \subseteq
           {at.compareDuel, at.poolVaultA, at.poolVaultB}
      /\ d[at.config].creationFee = 0 => o.moved = {at.creator}
  BY <1>1 DEF CreateCompareDuel, Outcome, IsData, Changed, Charged
<1>3. /\ Changed(d, o) \subseteq
           {findCompareDuelPda, findCompareVaultPda(0),
            findCompareVaultPda(1)}
      /\ d[findConfigPda].creationFee = 0 => o.moved = {wallet(a.by)}
  BY <1>2, CreateCompareDuelRoles DEF at
<1>4. Changed(d, o) \cap KeptByDuel = {}
  BY <1>3 DEF KeptByDuel, findCompareDuelPda, findCompareVaultPda,
         findConfigPda, findMintPda
<1> QED
  BY <1>2, <1>3, <1>4, CreateCompareDuelRoles DEF Lands

LEMMA DepositSolLands ==
  ASSUME NEW d, IsData(d), NEW d0, NEW a, a.ix = "deposit",
         NEW o \in Run(d, Build(a, d0).at, a)
  PROVE  /\ Lands(d, Build(a, d0), o, KeptByDuel)
         /\ o.moved \subseteq Build(a, d0).locks
<1> DEFINE at == Build(a, d0).at
<1>1. o \in DepositSol(d, at, a)
  BY DEF Run
<1> HIDE DEF at
<1>2. /\ IsData(o.data)
      /\ Changed(d, o) \subseteq
           {at.depositRecord, at.poolVault, at.compareDuel}
      /\ o.moved \subseteq
           {at.depositor, at.depositorWsolAccount}
  BY <1>1 DEF DepositSol, Outcome, IsData, Changed
<1>3. /\ Changed(d, o) \subseteq
           {findDepositPda(a.by), findCompareVaultPda(a.side),
            findCompareDuelPda}
      /\ o.moved \subseteq
           {wallet(a.by), wsolAta(a.by)}
  BY <1>2, DepositSolRoles DEF at
<1>4. Changed(d, o) \cap KeptByDuel = {}
  BY <1>3 DEF KeptByDuel, findCompareDuelPda, findCompareVaultPda,
         findDepositPda, findConfigPda, findMintPda
<1> QED
  BY <1>2, <1>3, <1>4, DepositSolRoles DEF Lands

LEMMA RecordCompareTwapLands ==
  ASSUME NEW d, IsData(d), NEW d0, NEW a, a.ix = "recordCompareTwap",
         NEW o \in Run(d, Build(a, d0).at, a)
  PROVE  /\ Lands(d, Build(a, d0), o, KeptByDuel)
         /\ o.moved \subseteq Build(a, d0).locks
<1> DEFINE at == Build(a, d0).at
<1>1. o \in RecordCompareTwap(d, at, a)
  BY DEF Run
<1> HIDE DEF at
<1>2. /\ IsData(o.data)
      /\ Changed(d, o) \subseteq
           {at.compareDuel}
      /\ o.moved \subseteq
           {}
  BY <1>1 DEF RecordCompareTwap, Outcome, IsData, Changed
<1>3. /\ Changed(d, o) \subseteq
           {findCompareDuelPda}
      /\ o.moved \subseteq
           {}
  BY <1>2, RecordCompareTwapRoles DEF at
<1>4. Changed(d, o) \cap KeptByDuel = {}
  BY <1>3 DEF KeptByDuel, findCompareDuelPda, findConfigPda, findMintPda
<1> QED
  BY <1>2, <1>3, <1>4, RecordCompareTwapRoles DEF Lands

LEMMA ResolveCompareLands ==
  ASSUME NEW d, IsData(d), NEW d0, NEW a, a.ix = "resolveCompare",
         NEW o \in Run(d, Build(a, d0).at, a)
  PROVE  /\ Lands(d, Build(a, d0), o, KeptByDuel)
         /\ o.moved \subseteq Build(a, d0).locks
<1> DEFINE at == Build(a, d0).at
<1>1. o \in ResolveCompare(d, at, a)
  BY DEF Run
<1> HIDE DEF at
<1>2. /\ IsData(o.data)
      /\ Changed(d, o) \subseteq
           {at.compareDuel, at.poolVaultA, at.poolVaultB}
      /\ o.moved \subseteq
           {at.protocolFeeAccount, at.creatorFeeAccount}
  BY <1>1 DEF ResolveCompare, Outcome, IsData, Changed, Awarded
<1>3. /\ Changed(d, o) \subseteq
           {findCompareDuelPda, findCompareVaultPda(0),
            findCompareVaultPda(1)}
      /\ o.moved \subseteq
           {DuelFeeAccount(d0), wsolAta(Creator)}
  BY <1>2, ResolveCompareRoles DEF at
<1>4. Changed(d, o) \cap KeptByDuel = {}
  BY <1>3 DEF KeptByDuel, findCompareDuelPda, findCompareVaultPda,
         findConfigPda, findMintPda
<1> QED
  BY <1>2, <1>3, <1>4, ResolveCompareRoles DEF Lands

LEMMA EmergencyResolveCompareLands ==
  ASSUME NEW d, IsData(d), NEW d0, NEW a, a.ix = "emergencyResolveCompare",
         NEW o \in Run(d, Build(a, d0).at, a)
  PROVE  /\ Lands(d, Build(a, d0), o, KeptByDuel)
         /\ o.moved \subseteq Build(a, d0).locks
<1> DEFINE at == Build(a, d0).at
<1>1. o \in EmergencyResolveCompare(d, at, a)
  BY DEF Run
<1> HIDE DEF at
<1>2. /\ IsData(o.data)
      /\ Changed(d, o) \subseteq
           {at.compareDuel}
      /\ o.moved \subseteq
           {}
  BY <1>1 DEF EmergencyResolveCompare, Outcome, IsData, Changed
<1>3. /\ Changed(d, o) \subseteq
           {findCompareDuelPda}
      /\ o.moved \subseteq
           {}
  BY <1>2, EmergencyResolveCompareRoles DEF at
<1>4. Changed(d, o) \cap KeptByDuel = {}
  BY <1>3 DEF KeptByDuel, findCompareDuelPda, findConfigPda, findMintPda
<1> QED
  BY <1>2, <1>3, <1>4, EmergencyResolveCompareRoles DEF Lands

LEMMA WithdrawLands ==
  ASSUME NEW d, IsData(d), NEW d0, NEW a, a.ix = "withdraw",
         Exist(d0, fetchDeposit(a.by)),
         NEW o \in Run(d, Build(a, d0).at, a)
  PROVE  /\ Lands(d, Build(a, d0), o, KeptByDuel)
         /\ o.moved \subseteq Build(a, d0).locks
<1> DEFINE at == Build(a, d0).at
<1>1. o \in Withdraw(d, at, a)
  BY DEF Run
<1> HIDE DEF at
<1>2. /\ IsData(o.data)
      /\ Changed(d, o) \subseteq
           {at.depositRecord, at.poolVault}
      /\ o.moved \subseteq
           {at.depositorWsolAccount}
  BY <1>1 DEF Withdraw, Outcome, IsData, Changed
<1>3. /\ Changed(d, o) \subseteq
           {findDepositPda(a.by), WithdrawVault(d0, a.by)}
      /\ o.moved \subseteq
           {wsolAta(a.by)}
  BY <1>2, WithdrawRoles DEF at
<1>4. Changed(d, o) \cap KeptByDuel = {}
  BY <1>3 DEF KeptByDuel, findDepositPda, WithdrawVault, findCompareVaultPda,
         findConfigPda, findMintPda
<1> QED
  BY <1>2, <1>3, <1>4, WithdrawRoles DEF Lands

LEMMA CloseCompareDuelLands ==
  ASSUME NEW d, IsData(d), NEW d0, NEW a, a.ix = "closeCompareDuel",
         NEW o \in Run(d, Build(a, d0).at, a)
  PROVE  /\ Lands(d, Build(a, d0), o, KeptByDuel)
         /\ o.moved \subseteq Build(a, d0).locks
<1> DEFINE at == Build(a, d0).at
<1>1. o \in CloseCompareDuel(d, at, a)
  BY DEF Run
<1> HIDE DEF at
<1>2. /\ IsData(o.data)
      /\ Changed(d, o) \subseteq
           {at.compareDuel, at.poolVaultA, at.poolVaultB}
      /\ o.moved \subseteq
           {at.authority}
  <2>1. /\ o.data = [CloseIfEmpty(d, {at.poolVaultA, at.poolVaultB})
                       EXCEPT ![at.compareDuel] = Absent]
        /\ o.moved = {at.authority}
    BY <1>1 DEF CloseCompareDuel, Outcome
  <2>2. o.data = [x \in Addresses |->
                    IF \/ x = at.compareDuel
                       \/ x \in {at.poolVaultA, at.poolVaultB} /\ d[x] = 0
                    THEN Absent ELSE d[x]]
    BY <2>1 DEF CloseIfEmpty
  <2> QED
    BY <2>1, <2>2 DEF IsData, Changed
<1>3. /\ Changed(d, o) \subseteq
           {findCompareDuelPda, findCompareVaultPda(0),
            findCompareVaultPda(1)}
      /\ o.moved \subseteq
           {wallet(a.by)}
  BY <1>2, CloseCompareDuelRoles DEF at
<1>4. Changed(d, o) \cap KeptByDuel = {}
  BY <1>3 DEF KeptByDuel, findCompareDuelPda, findCompareVaultPda,
         findConfigPda, findMintPda
<1> QED
  BY <1>2, <1>3, <1>4, CloseCompareDuelRoles DEF Lands

LEMMA CloseDepositLands ==
  ASSUME NEW d, IsData(d), NEW d0, NEW a, a.ix = "closeDeposit",
         NEW o \in Run(d, Build(a, d0).at, a)
  PROVE  /\ Lands(d, Build(a, d0), o, KeptByDuel)
         /\ o.moved \subseteq Build(a, d0).locks
<1> DEFINE at == Build(a, d0).at
<1>1. o \in CloseDeposit(d, at, a)
  BY DEF Run
<1> HIDE DEF at
<1>2. /\ IsData(o.data)
      /\ Changed(d, o) \subseteq
           {at.depositRecord}
      /\ o.moved \subseteq
           {at.depositor}
  BY <1>1 DEF CloseDeposit, Outcome, IsData, Changed
<1>3. /\ Changed(d, o) \subseteq
           {findDepositPda(a.by)}
      /\ o.moved \subseteq
           {wallet(a.by)}
  BY <1>2, CloseDepositRoles DEF at
<1>4. Changed(d, o) \cap KeptByDuel = {}
  BY <1>3 DEF KeptByDuel, findDepositPda, findConfigPda, findMintPda
<1> QED
  BY <1>2, <1>3, <1>4, CloseDepositRoles DEF Lands

-----------------------------------------------------------------------------
(* The twenty together.                                                    *)

(* The three families of instructions, and the ones that name the         *)
(* protocol's fee account of the configuration.                            *)
ConfigIxs == {"initializeConfig", "updateConfig"}
MarketIxs == {"initializeMarket", "buyTokens", "sellTokens", "sellPostResolution",
              "recordTwapSample", "resolveAndGraduate", "emergencyResolve",
              "claimPoolFees", "closeQuoteVault", "closeMarket"}
DuelIxs == {"createCompareDuel", "deposit", "recordCompareTwap", "resolveCompare",
            "emergencyResolveCompare", "withdraw", "closeCompareDuel", "closeDeposit"}
FeeIxs == {"initializeMarket", "buyTokens", "sellTokens", "createCompareDuel"}

(* Who asks for what, by family: instructions of the kind that lives here. *)
LEMMA RequestsAre ==
  ASSUME NEW a \in Requests
  PROVE  /\ a.by \in Wallets /\ a.side \in Side
         /\ a.ix \in ConfigIxs \cup (IF kind = "market" THEN MarketIxs ELSE DuelIxs)
         /\ a.ix \in ConfigIxs => a.value \in CreationFees
<1>1. CASE a \in ConfigRequests
  BY <1>1, AccountsAssumption DEF ConfigRequests, ConfigIxs, Side
<1>2. CASE kind = "market" /\ a \in MarketRequests
  BY <1>2, AccountsAssumption DEF MarketRequests, Request, MarketIxs,
     ConfigIxs, Side
<1>3. CASE kind # "market" /\ a \in DuelRequests
  BY <1>3, AccountsAssumption DEF DuelRequests, Request, DuelIxs, ConfigIxs,
     Side
<1>4. CASE /\ a \in Creations
           /\ \/ kind = "market" /\ a.ix = "initializeMarket"
              \/ kind # "market" /\ a.ix = "createCompareDuel"
  BY <1>4, AccountsAssumption DEF Creations, Request, MarketIxs, DuelIxs,
     ConfigIxs, Side
<1> QED
  BY <1>1, <1>2, <1>3, <1>4 DEF Requests

LEMMA MarketAddressesAre ==
  MarketAddresses = {findMarketPda, findSidePda(0), findSidePda(1), findMintPda(0),
    findMintPda(1), findTokenVaultPda(0), findTokenVaultPda(1), findQuoteVaultPda(0),
    findQuoteVaultPda(1), findMetadataPda(0), findMetadataPda(1)}
BY DEF MarketAddresses, deriveMarketAccounts, Side

(* The accounts the invariant speaks of have addresses. *)
LEMMA AddressesHold ==
  /\ findConfigPda \in Addresses /\ findMintPda(0) \in Addresses
  /\ DuelAccounts \subseteq Addresses
<1>1. findMintPda(0) \in Addresses
  BY MarketAddressesAre DEF Addresses
<1>2. \A u \in Wallets : findDepositPda(u) \in UNION {OfWallet(v) : v \in Wallets}
  BY DEF OfWallet
<1>3. \A s \in Side : findCompareVaultPda(s) \in UNION {OfSide(r) : r \in Side}
  BY DEF OfSide
<1> QED
  BY <1>1, <1>2, <1>3 DEF Addresses, DuelAccounts

(* A creation writes the market only, charges its creator and, if there is *)
(* a fee, the protocol; it needs the mint missing and leaves it there.     *)
LEMMA InitializeMarketLands ==
  ASSUME NEW d, IsData(d), NEW d0, NEW a, a.ix = "initializeMarket",
         NEW o \in Run(d, Build(a, d0).at, a)
  PROVE  /\ Lands(d, Build(a, d0), o, {findConfigPda} \cup DuelAccounts)
         /\ d[findConfigPda] # Absent
         /\ d[findConfigPda].creationFee = 0 => o.moved \subseteq Build(a, d0).locks
         /\ d[findMintPda(0)] = Absent /\ o.data[findMintPda(0)] = There
<1> DEFINE at == Build(a, d0).at
<1>1. o \in InitializeMarket(d, at, a)
  BY DEF Run
<1> HIDE DEF at
<1>2. /\ IsData(o.data)
      /\ Changed(d, o) \subseteq MarketAddresses
      /\ d[at.config] # Absent
      /\ d[at.config].creationFee = 0 => o.moved = {at.creator}
  BY <1>1 DEF InitializeMarket, Outcome, IsData, Changed, Charged, With,
     CorrectFeeAccount, Exist
<1>3. Changed(d, o) \subseteq Build(a, d0).locks
  BY <1>2, MarketAddressesAre, InitializeMarketRoles
<1>4. Changed(d, o) \cap ({findConfigPda} \cup DuelAccounts) = {}
  BY <1>2, MarketAddressesAre DEF DuelAccounts, findConfigPda,
     findCompareDuelPda, findCompareVaultPda, findDepositPda, findMarketPda,
     findSidePda, findMintPda, findTokenVaultPda, findQuoteVaultPda,
     findMetadataPda
<1>5. d[findMintPda(0)] = Absent
  BY <1>1, MarketAddressesAre DEF InitializeMarket, Outcome, Fresh
<1>6. o.data[findMintPda(0)] = There
  <2>1. /\ findMintPda(0) \in MarketAddresses /\ findMintPda(0) \in Addresses
        /\ findMintPda(0) \notin
             {at.market, at.sideA, at.sideB, at.tokenVaultA, at.tokenVaultB,
              at.quoteVaultA, at.quoteVaultB}
    BY MarketAddressesAre, InitializeMarketRoles DEF at, Addresses,
       findMarketPda, findSidePda, findMintPda, findTokenVaultPda,
       findQuoteVaultPda
  <2> QED
    BY <1>1, <2>1 DEF InitializeMarket, Outcome, With
<1> QED
  BY <1>2, <1>3, <1>4, <1>5, <1>6, InitializeMarketRoles DEF Lands, at

(* The configuration has the creation fee that was asked for. *)
LEMMA InitializeConfigWrites ==
  ASSUME NEW d, IsData(d), NEW d0, NEW a, a.ix \in ConfigIxs,
         NEW o \in Run(d, Build(a, d0).at, a)
  PROVE  o.data[findConfigPda].creationFee = a.value
<1> DEFINE at == Build(a, d0).at
<1>1. at.config = findConfigPda /\ findConfigPda \in Addresses
  BY InitializeConfigRoles, UpdateConfigRoles DEF ConfigIxs, Addresses
<1>2. o \in InitializeConfig(d, at, a) \/ o \in UpdateConfig(d, at, a)
  BY DEF Run, ConfigIxs
<1> HIDE DEF at
<1> QED
  BY <1>1, <1>2 DEF InitializeConfig, UpdateConfig, Outcome, IsData

(* The configuration asks no fee for a creation. *)
NoCharge(d) == d[findConfigPda] # Absent => d[findConfigPda].creationFee = 0

(* Any instruction on the accounts d, with the addresses of a transaction  *)
(* built on d0: what is written and moved is locked, and only a            *)
(* configuration request sets the fee, only a creation makes the mint,     *)
(* only Mode 2 touches a duel.                                             *)
LEMMA RunLands ==
  ASSUME NEW d, IsData(d), NEW d0, NEW a \in Requests,
         Exist(d0, Build(a, d0).fetched), NEW o \in Run(d, Build(a, d0).at, a)
  PROVE  /\ IsData(o.data) /\ Changed(d, o) \subseteq Build(a, d0).locks
         /\ NoCharge(d) => o.moved \subseteq Build(a, d0).locks
         /\ IF a.ix \in ConfigIxs THEN o.data[findConfigPda].creationFee \in CreationFees
            ELSE o.data[findConfigPda] = d[findConfigPda]
         /\ IF a.ix = "initializeMarket"
            THEN d[findMintPda(0)] = Absent /\ o.data[findMintPda(0)] = There
            ELSE o.data[findMintPda(0)] = d[findMintPda(0)]
         /\ a.ix \notin DuelIxs => \A x \in DuelAccounts : o.data[x] = d[x]
<1> DEFINE tx == Build(a, d0)
<1>0. /\ findConfigPda \in Addresses /\ findMintPda(0) \in Addresses
      /\ DuelAccounts \subseteq Addresses
  BY AddressesHold
<1>1. CASE a.ix \in ConfigIxs
  <2>1. Lands(d, tx, o, KeptByConfig) /\ o.moved \subseteq tx.locks
    BY <1>1, InitializeConfigLands, UpdateConfigLands DEF ConfigIxs
  <2>2. o.data[findConfigPda].creationFee \in CreationFees
    BY <1>1, InitializeConfigWrites, RequestsAre
  <2>3. a.ix # "initializeMarket"
    BY <1>1 DEF ConfigIxs
  <2> QED
    BY <1>0, <1>1, <2>1, <2>2, <2>3 DEF Lands, Changed, KeptByConfig
<1>2. CASE a.ix = "initializeMarket"
  <2>1. /\ Lands(d, tx, o, {findConfigPda} \cup DuelAccounts)
        /\ NoCharge(d) => o.moved \subseteq tx.locks
        /\ d[findMintPda(0)] = Absent /\ o.data[findMintPda(0)] = There
    <3>1. Lands(d, tx, o, {findConfigPda} \cup DuelAccounts)
      BY <1>2, InitializeMarketLands
    <3>2. /\ d[findConfigPda] # Absent
          /\ d[findConfigPda].creationFee = 0 => o.moved \subseteq tx.locks
      BY <1>2, InitializeMarketLands
    <3>3. d[findMintPda(0)] = Absent /\ o.data[findMintPda(0)] = There
      BY <1>2, InitializeMarketLands
    <3> QED
      BY <3>1, <3>2, <3>3 DEF NoCharge
  <2> QED
    BY <1>0, <1>2, <2>1 DEF Lands, Changed, ConfigIxs
<1>3. CASE kind = "market" /\ a.ix \in MarketIxs \ {"initializeMarket"}
  <2>1. Lands(d, tx, o, KeptByMarket) /\ o.moved \subseteq tx.locks
    BY <1>3, BuyTokensLands, SellTokensLands, SellPostResolutionLands,
       RecordTwapSampleLands, ResolveAndGraduateLands, EmergencyResolveLands,
       ClaimPoolFeesLands, CloseQuoteVaultLands, CloseMarketLands DEF MarketIxs
  <2> QED
    BY <1>0, <1>3, <2>1 DEF Lands, Changed, KeptByMarket, ConfigIxs, MarketIxs
<1>4. CASE kind # "market" /\ a.ix \in DuelIxs
  <2>1. Lands(d, tx, o, KeptByDuel)
    <3>1. a.ix = "withdraw" => Exist(d0, fetchDeposit(a.by))
      BY WithdrawRoles
    <3> QED
      BY <1>4, <3>1, CreateCompareDuelLands, DepositSolLands,
         RecordCompareTwapLands, ResolveCompareLands,
         EmergencyResolveCompareLands, WithdrawLands, CloseCompareDuelLands,
         CloseDepositLands DEF DuelIxs
  <2>2. NoCharge(d) => o.moved \subseteq tx.locks
    <3>1. a.ix = "withdraw" => Exist(d0, fetchDeposit(a.by))
      BY WithdrawRoles
    <3>2. a.ix = "createCompareDuel" => d[findConfigPda] # Absent
      <4> SUFFICES ASSUME a.ix = "createCompareDuel" PROVE d[findConfigPda] # Absent
        OBVIOUS
      <4>1. o \in CreateCompareDuel(d, tx.at, a)
        BY DEF Run
      <4> QED
        BY <4>1, CreateCompareDuelRoles DEF CreateCompareDuel, Outcome,
           CorrectFeeAccount, Exist
    <3> QED
      BY <1>4, <3>1, <3>2, CreateCompareDuelLands, DepositSolLands,
         RecordCompareTwapLands, ResolveCompareLands,
         EmergencyResolveCompareLands, WithdrawLands, CloseCompareDuelLands,
         CloseDepositLands DEF DuelIxs, NoCharge
  <2> QED
    BY <1>0, <1>4, <2>1, <2>2 DEF Lands, Changed, KeptByDuel, ConfigIxs,
       DuelIxs
<1> QED
  BY <1>1, <1>2, <1>3, <1>4, RequestsAre

-----------------------------------------------------------------------------
(* A transaction also creates missing token accounts, before its           *)
(* instruction.                                                            *)

(* The accounts once the missing token accounts are created. *)
Prepared(tx) == With(data, [x \in tx.creates |-> 0])

(* Only a purchase and a graduation create token accounts first, and only  *)
(* these.                                                                  *)
LEMMA CreatesAre ==
  ASSUME NEW d, NEW a \in Requests
  PROVE  LET creates == Build(a, d).creates
         IN  /\ creates \subseteq
                  {tokenAta(a.by, a.side), tokenAta(findMarketPda, a.side),
                   wsolAta(findMarketPda)}
             /\ a.ix \notin {"buyTokens", "resolveAndGraduate"} => creates = {}
<1> DEFINE tx == Build(a, d)
           NoneCreated == tx.creates = {}
           Some == {tokenAta(a.by, a.side), tokenAta(findMarketPda, a.side),
                    wsolAta(findMarketPda)}
<1>1. a.ix \in ConfigIxs => NoneCreated
  BY InitializeConfigRoles, UpdateConfigRoles DEF ConfigIxs
<1>2. a.ix \in MarketIxs \ {"buyTokens", "resolveAndGraduate"} => NoneCreated
  BY InitializeMarketRoles, SellTokensRoles, SellPostResolutionRoles,
     RecordTwapSampleRoles, EmergencyResolveRoles, ClaimPoolFeesRoles,
     CloseQuoteVaultRoles, CloseMarketRoles DEF MarketIxs
<1>3. a.ix \in DuelIxs => NoneCreated
  BY CreateCompareDuelRoles, DepositSolRoles, RecordCompareTwapRoles,
     ResolveCompareRoles, EmergencyResolveCompareRoles, WithdrawRoles,
     CloseCompareDuelRoles, CloseDepositRoles DEF DuelIxs
<1>4. a.ix = "buyTokens" => tx.creates \subseteq Some
  BY BuyTokensRoles
<1>5. a.ix = "resolveAndGraduate" => tx.creates \subseteq Some
  BY ResolveAndGraduateRoles
<1> QED
  BY <1>1, <1>2, <1>3, <1>4, <1>5, RequestsAre

(* Creating them changes nothing the instruction families keep. *)
LEMMA PreparedIs ==
  ASSUME IsData(data), NEW d0, NEW a \in Requests
  PROVE  LET tx == Build(a, d0)
             d == Prepared(tx)
         IN  /\ IsData(d)
             /\ \A x \in Addresses : x \notin tx.creates => d[x] = data[x]
             /\ d[findConfigPda] = data[findConfigPda]
             /\ d[findMintPda(0)] = data[findMintPda(0)]
             /\ \A x \in DuelAccounts : d[x] = data[x]
<1> DEFINE tx == Build(a, d0)
           d == Prepared(tx)
<1>1. IsData(d) /\ \A x \in Addresses : x \notin tx.creates => d[x] = data[x]
  BY DEF IsData, Prepared, With
<1>2. /\ findConfigPda \notin tx.creates /\ findMintPda(0) \notin tx.creates
      /\ \A x \in DuelAccounts : x \notin tx.creates
  <2> HIDE DEF tx
  <2>1. tx.creates \subseteq
          {tokenAta(a.by, a.side), tokenAta(findMarketPda, a.side),
           wsolAta(findMarketPda)}
    BY CreatesAre DEF tx
  <2> QED
    BY <2>1 DEF findConfigPda, findMintPda, DuelAccounts, findCompareDuelPda,
       findCompareVaultPda, findDepositPda, tokenAta, wsolAta
<1> HIDE DEF tx, d
<1> QED
  BY <1>1, <1>2, AddressesHold DEF tx, d

(* RunLands for a whole transaction: whatever it does when it lands, the   *)
(* runtime permits, as long as no creation fee is charged.                 *)
LEMMA OutcomesLand ==
  ASSUME IsData(data), NEW d0, NEW a \in Requests, Exist(d0, Build(a, d0).fetched),
         NEW o \in Outcomes(Build(a, d0), a)
  PROVE  LET tx == Build(a, d0)
         IN  /\ Fresh(data, tx.creates)
             /\ o \in Run(Prepared(tx), tx.at, a)
             /\ IsData(o.data)
             /\ NoCharge(data) => Permitted(tx, o)
             /\ IF a.ix \in ConfigIxs
                THEN o.data[findConfigPda].creationFee \in CreationFees
                ELSE o.data[findConfigPda] = data[findConfigPda]
             /\ IF a.ix = "initializeMarket"
                THEN /\ data[findMintPda(0)] = Absent
                     /\ o.data[findMintPda(0)] = There
                ELSE o.data[findMintPda(0)] = data[findMintPda(0)]
             /\ a.ix \notin DuelIxs => \A x \in DuelAccounts : o.data[x] = data[x]
<1> DEFINE tx == Build(a, d0)
           d == Prepared(tx)
<1>1. Fresh(data, tx.creates) /\ o \in Run(d, tx.at, a)
  BY DEF Outcomes, Prepared
<1>2. /\ IsData(d)
      /\ \A x \in Addresses : x \notin tx.creates => d[x] = data[x]
      /\ d[findConfigPda] = data[findConfigPda]
      /\ d[findMintPda(0)] = data[findMintPda(0)]
      /\ \A x \in DuelAccounts : d[x] = data[x]
  BY PreparedIs
<1> HIDE DEF d
<1>3. /\ IsData(o.data) /\ Changed(d, o) \subseteq tx.locks
      /\ NoCharge(d) => o.moved \subseteq tx.locks
  BY <1>1, <1>2, RunLands
<1>4. /\ IF a.ix \in ConfigIxs THEN o.data[findConfigPda].creationFee \in CreationFees
         ELSE o.data[findConfigPda] = d[findConfigPda]
      /\ IF a.ix = "initializeMarket"
         THEN d[findMintPda(0)] = Absent /\ o.data[findMintPda(0)] = There
         ELSE o.data[findMintPda(0)] = d[findMintPda(0)]
      /\ a.ix \notin DuelIxs => \A x \in DuelAccounts : o.data[x] = d[x]
  BY <1>1, <1>2, RunLands
<1> HIDE DEF tx
<1>5. NoCharge(data) => Permitted(tx, o)
  BY <1>2, <1>3 DEF Permitted, Written, Changed, NoCharge
<1> QED
  BY <1>1, <1>2, <1>3, <1>4, <1>5 DEF tx, d

-----------------------------------------------------------------------------
(* A stale transaction: what was fetched is still there, and the accounts  *)
(* are the ones a builder would fill in now.                               *)

(* Outcomes depend on the roles and on the created accounts only. *)
LEMMA SameOutcomes ==
  ASSUME NEW tx, NEW now, NEW a, tx.at = now.at, tx.creates = now.creates
  PROVE  Outcomes(tx, a) = Outcomes(now, a)
BY DEF Outcomes

LEMMA PreparedSame ==
  ASSUME IsData(data), NEW tx, tx.creates = {}
  PROVE  Prepared(tx) = data
BY DEF Prepared, With, IsData

(* The instructions whose accounts follow from the request alone. *)
FixedIxs == {"initializeConfig", "updateConfig", "sellPostResolution",
  "recordTwapSample", "emergencyResolve", "claimPoolFees", "closeQuoteVault",
  "closeMarket", "deposit", "recordCompareTwap", "emergencyResolveCompare",
  "closeCompareDuel", "closeDeposit"}

(* What these builders fill in does not depend on what they fetch. *)
LEMMA FixedBuild ==
  ASSUME NEW d, NEW e, NEW a, a.ix \in FixedIxs
  PROVE  /\ Build(a, d).at = Build(a, e).at
         /\ Build(a, d).creates = Build(a, e).creates
<1>1. a.ix = "initializeConfig" => Build(a, d).at = Build(a, e).at
  BY DEF Build, Tx
<1>2. a.ix = "updateConfig" => Build(a, d).at = Build(a, e).at
  BY DEF Build, Tx
<1>3. a.ix = "sellPostResolution" => Build(a, d).at = Build(a, e).at
  BY DEF Build, Tx
<1>4. a.ix = "recordTwapSample" => Build(a, d).at = Build(a, e).at
  BY DEF Build, Tx
<1>5. a.ix = "emergencyResolve" => Build(a, d).at = Build(a, e).at
  BY DEF Build, Tx
<1>6. a.ix = "claimPoolFees" => Build(a, d).at = Build(a, e).at
  BY DEF Build, Tx
<1>7. a.ix = "closeQuoteVault" => Build(a, d).at = Build(a, e).at
  BY DEF Build, Tx
<1>8. a.ix = "closeMarket" => Build(a, d).at = Build(a, e).at
  BY DEF Build, Tx
<1>9. a.ix = "deposit" => Build(a, d).at = Build(a, e).at
  BY DEF Build, Tx
<1>10. a.ix = "recordCompareTwap" => Build(a, d).at = Build(a, e).at
  BY DEF Build, Tx
<1>11. a.ix = "emergencyResolveCompare" => Build(a, d).at = Build(a, e).at
  BY DEF Build, Tx
<1>12. a.ix = "closeCompareDuel" => Build(a, d).at = Build(a, e).at
  BY DEF Build, Tx
<1>13. a.ix = "closeDeposit" => Build(a, d).at = Build(a, e).at
  BY DEF Build, Tx
<1>14. Build(a, d).creates = {} /\ Build(a, e).creates = {}
  BY InitializeConfigRoles, UpdateConfigRoles, SellPostResolutionRoles,
     RecordTwapSampleRoles, EmergencyResolveRoles, ClaimPoolFeesRoles,
     CloseQuoteVaultRoles, CloseMarketRoles, DepositSolRoles,
     RecordCompareTwapRoles, EmergencyResolveCompareRoles,
     CloseCompareDuelRoles, CloseDepositRoles DEF FixedIxs
<1> QED
  BY <1>1, <1>2, <1>3, <1>4, <1>5, <1>6, <1>7, <1>8, <1>9, <1>10, <1>11, <1>12,
     <1>13, <1>14 DEF FixedIxs

(* An instruction that succeeds reads what its builder fetches, so a       *)
(* transaction that lands could be built again now.                        *)
LEMMA FetchedExist ==
  ASSUME IsData(data), NEW d0, NEW a \in Requests,
         NEW o \in Outcomes(Build(a, d0), a)
  PROVE  Exist(data, Build(a, data).fetched)
<1> DEFINE tx == Build(a, d0)
           Found == Exist(data, Build(a, data).fetched)
<1>0. o \in Run(Prepared(tx), tx.at, a)
  BY DEF Outcomes, Prepared
<1>1. ASSUME a.ix = "initializeConfig" PROVE Found
  BY <1>1, InitializeConfigRoles DEF Exist
<1>2. ASSUME a.ix = "updateConfig" PROVE Found
  BY <1>2, UpdateConfigRoles DEF Exist
<1>3. ASSUME a.ix = "initializeMarket" PROVE Found
  <2>1. o \in InitializeMarket(data, tx.at, a)
    BY <1>0, <1>3, PreparedSame, InitializeMarketRoles DEF Run
  <2> QED
    BY <1>3, <2>1, InitializeMarketRoles DEF InitializeMarket, Outcome,
       Exist, fetchMarket, fetchConfig, fetchDeposit, Trading,
       CorrectFeeAccount
<1>4. ASSUME a.ix = "buyTokens" PROVE Found
  <2>1. o \in BuyTokens(Prepared(tx), tx.at, a)
    BY <1>0, <1>4 DEF Run
  <2>2. \A x \in Addresses : x \notin tx.creates => Prepared(tx)[x] = data[x]
    BY PreparedIs
  <2>3. \A x \in Build(a, data).fetched : x \in Addresses /\ x \notin tx.creates
    <3> HIDE DEF tx
    <3>1. tx.creates \subseteq
            {tokenAta(a.by, a.side), tokenAta(findMarketPda, a.side),
                                wsolAta(findMarketPda)}
      BY CreatesAre DEF tx
    <3>2. Build(a, data).fetched \subseteq
            {findMarketPda, findSidePda(0), findSidePda(1), findConfigPda}
      BY <1>4, BuyTokensRoles, RequestsAre DEF fetchMarket, fetchConfig, Side
    <3>3. {findMarketPda, findSidePda(0), findSidePda(1), findConfigPda}
            \subseteq Addresses
      BY MarketAddressesAre DEF Addresses
    <3> QED
      BY <3>1, <3>2, <3>3 DEF findMarketPda, findSidePda, findConfigPda,
         tokenAta, wsolAta
  <2>4. Exist(Prepared(tx), Build(a, data).fetched)
    BY <1>4, <2>1, BuyTokensRoles DEF BuyTokens, Outcome, Exist, fetchMarket,
       fetchConfig, Trading, CorrectFeeAccount
  <2> QED
    BY <2>2, <2>3, <2>4 DEF Exist
<1>5. ASSUME a.ix = "sellTokens" PROVE Found
  <2>1. o \in SellTokens(data, tx.at, a)
    BY <1>0, <1>5, PreparedSame, SellTokensRoles DEF Run
  <2> QED
    BY <1>5, <2>1, SellTokensRoles DEF SellTokens, Outcome, Exist,
       fetchMarket, fetchConfig, fetchDeposit, Trading, CorrectFeeAccount
<1>6. ASSUME a.ix = "sellPostResolution" PROVE Found
  <2>1. o \in SellPostResolution(data, tx.at, a)
    BY <1>0, <1>6, PreparedSame, SellPostResolutionRoles DEF Run
  <2> QED
    BY <1>6, <2>1, SellPostResolutionRoles DEF SellPostResolution, Outcome,
       Exist, fetchMarket, fetchConfig, fetchDeposit, Trading,
       CorrectFeeAccount
<1>7. ASSUME a.ix = "recordTwapSample" PROVE Found
  <2>1. o \in RecordTwapSample(data, tx.at, a)
    BY <1>0, <1>7, PreparedSame, RecordTwapSampleRoles DEF Run
  <2> QED
    BY <1>7, <2>1, RecordTwapSampleRoles DEF RecordTwapSample, Outcome,
       Exist, fetchMarket, fetchConfig, fetchDeposit, Trading,
       CorrectFeeAccount
<1>8. ASSUME a.ix = "resolveAndGraduate" PROVE Found
  <2>1. o \in ResolveAndGraduate(Prepared(tx), tx.at, a)
    BY <1>0, <1>8 DEF Run
  <2>2. \A x \in Addresses : x \notin tx.creates => Prepared(tx)[x] = data[x]
    BY PreparedIs
  <2>3. \A x \in Build(a, data).fetched : x \in Addresses /\ x \notin tx.creates
    <3> HIDE DEF tx
    <3>1. tx.creates \subseteq
            {tokenAta(a.by, a.side), tokenAta(findMarketPda, a.side),
                                wsolAta(findMarketPda)}
      BY CreatesAre DEF tx
    <3>2. Build(a, data).fetched \subseteq
            {findMarketPda, findSidePda(0), findSidePda(1), findConfigPda}
      BY <1>8, ResolveAndGraduateRoles, RequestsAre DEF fetchMarket,
         fetchConfig, Side
    <3>3. {findMarketPda, findSidePda(0), findSidePda(1), findConfigPda}
            \subseteq Addresses
      BY MarketAddressesAre DEF Addresses
    <3> QED
      BY <3>1, <3>2, <3>3 DEF findMarketPda, findSidePda, findConfigPda,
         tokenAta, wsolAta
  <2>4. Exist(Prepared(tx), Build(a, data).fetched)
    BY <1>8, <2>1, ResolveAndGraduateRoles DEF ResolveAndGraduate, Outcome,
       Exist, fetchMarket, fetchConfig, Trading, CorrectFeeAccount
  <2> QED
    BY <2>2, <2>3, <2>4 DEF Exist
<1>9. ASSUME a.ix = "emergencyResolve" PROVE Found
  <2>1. o \in EmergencyResolve(data, tx.at, a)
    BY <1>0, <1>9, PreparedSame, EmergencyResolveRoles DEF Run
  <2> QED
    BY <1>9, <2>1, EmergencyResolveRoles DEF EmergencyResolve, Outcome,
       Exist, fetchMarket, fetchConfig, fetchDeposit, Trading,
       CorrectFeeAccount
<1>10. ASSUME a.ix = "claimPoolFees" PROVE Found
  BY <1>10, ClaimPoolFeesRoles DEF Exist
<1>11. ASSUME a.ix = "closeQuoteVault" PROVE Found
  <2>1. o \in CloseQuoteVault(data, tx.at, a)
    BY <1>0, <1>11, PreparedSame, CloseQuoteVaultRoles DEF Run
  <2> QED
    BY <1>11, <2>1, CloseQuoteVaultRoles DEF CloseQuoteVault, Outcome, Exist,
       fetchMarket, fetchConfig, fetchDeposit, Trading, CorrectFeeAccount
<1>12. ASSUME a.ix = "closeMarket" PROVE Found
  <2>1. o \in CloseMarket(data, tx.at, a)
    BY <1>0, <1>12, PreparedSame, CloseMarketRoles DEF Run
  <2> QED
    BY <1>12, <2>1, CloseMarketRoles DEF CloseMarket, Outcome, Exist,
       fetchMarket, fetchConfig, fetchDeposit, Trading, CorrectFeeAccount
<1>13. ASSUME a.ix = "createCompareDuel" PROVE Found
  <2>1. o \in CreateCompareDuel(data, tx.at, a)
    BY <1>0, <1>13, PreparedSame, CreateCompareDuelRoles DEF Run
  <2> QED
    BY <1>13, <2>1, CreateCompareDuelRoles DEF CreateCompareDuel, Outcome,
       Exist, fetchMarket, fetchConfig, fetchDeposit, Trading,
       CorrectFeeAccount
<1>14. ASSUME a.ix = "deposit" PROVE Found
  <2>1. o \in DepositSol(data, tx.at, a)
    BY <1>0, <1>14, PreparedSame, DepositSolRoles DEF Run
  <2> QED
    BY <1>14, <2>1, DepositSolRoles DEF DepositSol, Outcome, Exist,
       fetchMarket, fetchConfig, fetchDeposit, Trading, CorrectFeeAccount
<1>15. ASSUME a.ix = "recordCompareTwap" PROVE Found
  <2>1. o \in RecordCompareTwap(data, tx.at, a)
    BY <1>0, <1>15, PreparedSame, RecordCompareTwapRoles DEF Run
  <2> QED
    BY <1>15, <2>1, RecordCompareTwapRoles DEF RecordCompareTwap, Outcome,
       Exist, fetchMarket, fetchConfig, fetchDeposit, Trading,
       CorrectFeeAccount
<1>16. ASSUME a.ix = "resolveCompare" PROVE Found
  <2>1. o \in ResolveCompare(data, tx.at, a)
    BY <1>0, <1>16, PreparedSame, ResolveCompareRoles DEF Run
  <2> QED
    BY <1>16, <2>1, ResolveCompareRoles DEF ResolveCompare, Outcome, Exist,
       fetchMarket, fetchConfig, fetchDeposit, Trading, CorrectFeeAccount
<1>17. ASSUME a.ix = "emergencyResolveCompare" PROVE Found
  BY <1>17, EmergencyResolveCompareRoles DEF Exist
<1>18. ASSUME a.ix = "withdraw" PROVE Found
  <2>1. o \in Withdraw(data, tx.at, a)
    BY <1>0, <1>18, PreparedSame, WithdrawRoles DEF Run
  <2> QED
    BY <1>18, <2>1, WithdrawRoles DEF Withdraw, Outcome, Exist, fetchMarket,
       fetchConfig, fetchDeposit, Trading, CorrectFeeAccount
<1>19. ASSUME a.ix = "closeCompareDuel" PROVE Found
  <2>1. o \in CloseCompareDuel(data, tx.at, a)
    BY <1>0, <1>19, PreparedSame, CloseCompareDuelRoles DEF Run
  <2> QED
    BY <1>19, <2>1, CloseCompareDuelRoles DEF CloseCompareDuel, Outcome,
       Exist, fetchMarket, fetchConfig, fetchDeposit, Trading,
       CorrectFeeAccount
<1>20. ASSUME a.ix = "closeDeposit" PROVE Found
  BY <1>20, CloseDepositRoles DEF Exist
<1> QED
  BY <1>1, <1>2, <1>3, <1>4, <1>5, <1>6, <1>7, <1>8, <1>9, <1>10, <1>11, <1>12,
     <1>13, <1>14, <1>15, <1>16, <1>17, <1>18, <1>19, <1>20, RequestsAre DEF
     ConfigIxs, MarketIxs, DuelIxs

(* An account that is to be created is missing, and one that is not is there. *)
LEMMA SameCreates ==
  ASSUME IsData(data), NEW atas \in SUBSET Addresses, NEW d0, NEW tx, NEW now,
         tx.creates = {x \in atas : d0[x] = Absent},
         now.creates = {x \in atas : data[x] = Absent},
         Fresh(data, tx.creates), Exist(Prepared(tx), atas)
  PROVE  tx.creates = now.creates
<1>1. \A x \in atas \ tx.creates : Prepared(tx)[x] = data[x]
  BY DEF Prepared, With
<1> QED
  BY <1>1 DEF Fresh, Exist

(* The four builders that name the protocol take nothing else from a       *)
(* fetch.                                                                  *)
LEMMA SameFees ==
  ASSUME NEW d, NEW e, NEW a, CurrentFeeAccount(d) = CurrentFeeAccount(e),
         a.ix \in FeeIxs
  PROVE  Build(a, d).at = Build(a, e).at
<1>0. Fees(d) = Fees(e)
  BY DEF Fees
<1>1. a.ix = "initializeMarket" => Build(a, d).at = Build(a, e).at
  BY <1>0 DEF Build, Tx, buildInitializeMarketInstruction, Built
<1>2. a.ix = "buyTokens" => Build(a, d).at = Build(a, e).at
  BY <1>0 DEF Build, Tx, buildBuyTokensInstruction, Built
<1>3. a.ix = "sellTokens" => Build(a, d).at = Build(a, e).at
  BY <1>0 DEF Build, Tx, buildSellTokensInstruction, Built
<1>4. a.ix = "createCompareDuel" => Build(a, d).at = Build(a, e).at
  BY <1>0 DEF Build, Tx, buildCreateCompareDuelInstruction, Built
<1> QED
  BY <1>1, <1>2, <1>3, <1>4 DEF FeeIxs

(* The program checks the fee account against the configuration: a         *)
(* transaction built before it was replaced fails.                         *)
LEMMA FeesStale ==
  ASSUME IsData(data), NEW d0, NEW a \in Requests,
         NEW o \in Outcomes(Build(a, d0), a),
         a.ix \in FeeIxs
  PROVE  o \in Outcomes(Build(a, data), a)
<1> DEFINE tx == Build(a, d0)
           d == Prepared(tx)
<1>1. Fresh(data, tx.creates) /\ o \in Run(d, tx.at, a)
  BY DEF Outcomes, Prepared
<1>2. d[findConfigPda] = data[findConfigPda]
  BY PreparedIs
<1> HIDE DEF d
<1>3. CorrectFeeAccount(d, tx.at)
  BY <1>1 DEF Run, InitializeMarket, BuyTokens, SellTokens, CreateCompareDuel,
     Outcome, FeeIxs
<1>4. tx.at.config = findConfigPda /\ tx.at.protocolFeeAccount = CurrentFeeAccount(d0)
  BY InitializeMarketRoles, BuyTokensRoles, SellTokensRoles,
     CreateCompareDuelRoles DEF FeeIxs
<1>5. CurrentFeeAccount(d0) = CurrentFeeAccount(data)
  BY <1>2, <1>3, <1>4 DEF CorrectFeeAccount, Exist, CurrentFeeAccount
<1>6. tx.at = Build(a, data).at
  BY <1>5, SameFees
<1>7. tx.creates = Build(a, data).creates
  <2>1. CASE a.ix = "buyTokens"
    <3>1. tokenAta(a.by, a.side) \in Addresses
      <4>1. tokenAta(a.by, a.side) \in OfWallet(a.by)
        BY RequestsAre DEF OfWallet, Side
      <4> QED
        BY <4>1, RequestsAre DEF Addresses
    <3>2. Exist(d, {tokenAta(a.by, a.side)})
      BY <1>1, <2>1, BuyTokensRoles DEF Run, BuyTokens, Outcome, Exist
    <3> QED
      BY <1>1, <2>1, <3>1, <3>2, BuyTokensRoles, SameCreates DEF d
  <2>2. CASE a.ix # "buyTokens"
    BY <2>2, CreatesAre DEF FeeIxs
  <2> QED
    BY <2>1, <2>2
<1> QED
  BY <1>6, <1>7, SameOutcomes

(* The graduation names its side itself; what it creates is what is        *)
(* missing now.                                                            *)
LEMMA ResolveAndGraduateStale ==
  ASSUME IsData(data), NEW d0, NEW a \in Requests,
         NEW o \in Outcomes(Build(a, d0), a),
         a.ix = "resolveAndGraduate"
  PROVE  o \in Outcomes(Build(a, data), a)
<1> DEFINE tx == Build(a, d0)
           d == Prepared(tx)
           atas == {tokenAta(findMarketPda, a.side), wsolAta(findMarketPda)}
<1>1. Fresh(data, tx.creates) /\ o \in Run(d, tx.at, a)
  BY DEF Outcomes, Prepared
<1> HIDE DEF d
<1>2. tx.at = Build(a, data).at
  BY DEF Build, Tx
<1>3. atas \subseteq Addresses
  <2>1. tokenAta(findMarketPda, a.side) \in OfSide(a.side)
    BY DEF OfSide
  <2> QED
    BY <2>1, RequestsAre DEF Addresses
<1>4. Exist(d, atas)
  BY <1>1, ResolveAndGraduateRoles DEF Run, ResolveAndGraduate, Outcome, Exist
<1>5. tx.creates = Build(a, data).creates
  BY <1>1, <1>3, <1>4, ResolveAndGraduateRoles, SameCreates DEF d
<1> QED
  BY <1>2, <1>5, SameOutcomes

(* The program checks the fee account against the one stored in the duel. *)
LEMMA ResolveCompareStale ==
  ASSUME IsData(data), NEW d0, NEW a \in Requests,
         NEW o \in Outcomes(Build(a, d0), a),
         a.ix = "resolveCompare"
  PROVE  o \in Outcomes(Build(a, data), a)
<1> DEFINE tx == Build(a, d0)
<1>1. o \in ResolveCompare(data, tx.at, a)
  BY PreparedSame, ResolveCompareRoles DEF Outcomes, Prepared, Run
<1>2. DuelFeeAccount(d0) = DuelFeeAccount(data)
  BY <1>1, ResolveCompareRoles DEF ResolveCompare, Outcome, Exist,
     DuelFeeAccount
<1>3. tx.at = Build(a, data).at
  BY <1>2 DEF Build, Tx, buildResolveCompareInstruction, Built
<1>4. tx.creates = {} /\ Build(a, data).creates = {}
  BY ResolveCompareRoles
<1> QED
  BY <1>3, <1>4, SameOutcomes

-----------------------------------------------------------------------------
(* A duel keeps its two vaults while it exists, and both of its totals are *)
(* positive once it has a winner.                                          *)

(* Performances and the sample count are free; what a withdrawal divides   *)
(* by is not.                                                              *)
IsDuel(duel) ==
  /\ {"status", "winner", "total"} \subseteq DOMAIN duel
  /\ duel.winner \in Side \cup {NoWinner} /\ duel.total \in [Side -> Nat]
  /\ duel.winner # NoWinner => \A s \in Side : duel.total[s] > 0

IsDeposit(dep) ==
  "side" \in DOMAIN dep /\ dep.side \in Side

(* While the duel exists, both vaults do; a vault has an amount, a deposit *)
(* a side.                                                                 *)
DuelsAre(d) ==
  /\ d[findCompareDuelPda] # Absent =>
       /\ IsDuel(d[findCompareDuelPda])
       /\ \A s \in Side : d[findCompareVaultPda(s)] # Absent
  /\ \A s \in Side : d[findCompareVaultPda(s)] \in Nat \cup {Absent}
  /\ \A u \in Wallets :
       d[findDepositPda(u)] # Absent => IsDeposit(d[findDepositPda(u)])

(* Different seeds are different accounts. *)
LEMMA AddressesDiffer ==
  /\ \A s \in Side : findCompareVaultPda(s) # findCompareDuelPda
  /\ \A u : findDepositPda(u) # findCompareDuelPda
  /\ \A u : \A s \in Side : findDepositPda(u) # findCompareVaultPda(s)
  /\ \A u, v : findDepositPda(u) = findDepositPda(v) => u = v
  /\ findCompareVaultPda(0) # findCompareVaultPda(1)
  /\ findCompareDuelPda \in Addresses
  /\ \A s \in Side : findCompareVaultPda(s) \in Addresses
  /\ \A u \in Wallets : findDepositPda(u) \in Addresses
  /\ 0 \in Side /\ 1 \in Side /\ \A s \in Side : s = 0 \/ s = 1
BY AddressesHold DEF DuelAccounts, findCompareVaultPda, findCompareDuelPda,
   findDepositPda, Side

(* Each instruction of Mode 2 keeps the shape of the duel. *)
LEMMA CreateCompareDuelKeeps ==
  ASSUME NEW d, IsData(d), DuelsAre(d), NEW d0, NEW a, a.ix = "createCompareDuel",
         NEW o \in Run(d, Build(a, d0).at, a)
  PROVE  DuelsAre(o.data)
<1> DEFINE at == Build(a, d0).at
           duel == [status |-> "active", winner |-> NoWinner, samples |-> 0,
                    perf |-> [s \in Side |-> 0], total |-> [s \in Side |-> 0],
                    feeAccount |-> at.protocolFeeAccount]
<1>1. /\ at.compareDuel = findCompareDuelPda /\ at.poolVaultA = findCompareVaultPda(0)
      /\ at.poolVaultB = findCompareVaultPda(1)
  BY CreateCompareDuelRoles
<1>2. o \in CreateCompareDuel(d, at, a)
  BY DEF Run
<1> HIDE DEF at
<1>3. o.data = [d EXCEPT ![findCompareDuelPda] = duel,
                         ![findCompareVaultPda(0)] = 0, ![findCompareVaultPda(1)] = 0]
  BY <1>1, <1>2 DEF CreateCompareDuel, Outcome
<1>4. IsDuel(duel)
  BY DEF IsDuel
<1> HIDE DEF duel
<1>5. /\ o.data[findCompareDuelPda] = duel
      /\ \A s \in Side : o.data[findCompareVaultPda(s)] = 0
      /\ \A u \in Wallets : o.data[findDepositPda(u)] = d[findDepositPda(u)]
  BY <1>3, AddressesDiffer DEF IsData
<1> QED
  BY <1>4, <1>5, AccountsAssumption DEF DuelsAre

LEMMA DepositSolKeeps ==
  ASSUME NEW d, IsData(d), DuelsAre(d), NEW d0, NEW a, a.ix = "deposit",
         a.side \in Side, a.by \in Wallets, NEW o \in Run(d, Build(a, d0).at, a)
  PROVE  DuelsAre(o.data)
<1> DEFINE at == Build(a, d0).at
           was == d[findCompareDuelPda]
           duel == [was EXCEPT !.total[a.side] = @ + 1]
           dep == [side |-> a.side, withdrawn |-> FALSE]
           vault == findCompareVaultPda(a.side)
<1>1. /\ at.compareDuel = findCompareDuelPda /\ at.poolVault = vault
      /\ at.depositRecord = findDepositPda(a.by)
  BY DepositSolRoles
<1>2. o \in DepositSol(d, at, a)
  BY DEF Run
<1> HIDE DEF at
<1>3. /\ d[at.compareDuel] # Absent /\ d[at.poolVault] # Absent
      /\ o.data = [d EXCEPT ![at.depositRecord] = dep, ![at.poolVault] = @ + 1,
                            ![at.compareDuel].total[a.side] = @ + 1]
  BY <1>2 DEF DepositSol, Outcome, Exist
<1>4. IsDuel(was) /\ IsDuel(duel)
  <2>1. IsDuel(was)
    BY <1>1, <1>3 DEF DuelsAre
  <2> HIDE DEF was
  <2>2. /\ duel.total = [was.total EXCEPT ![a.side] = @ + 1]
        /\ duel.winner = was.winner
        /\ DOMAIN duel = DOMAIN was
    BY <2>1 DEF IsDuel
  <2> HIDE DEF duel
  <2> QED
    BY <2>1, <2>2 DEF IsDuel
<1>5. IsDeposit(dep)
  BY DEF IsDeposit
<1>6. /\ o.data[findCompareDuelPda] = duel
      /\ o.data[vault] = d[vault] + 1
      /\ \A s \in Side : s # a.side =>
           o.data[findCompareVaultPda(s)] = d[findCompareVaultPda(s)]
      /\ o.data[findDepositPda(a.by)] = dep
      /\ \A u \in Wallets : u # a.by =>
           o.data[findDepositPda(u)] = d[findDepositPda(u)]
  <2> HIDE DEF dep
  <2>1. vault # findCompareDuelPda /\ findDepositPda(a.by) # findCompareDuelPda
        /\ findDepositPda(a.by) # vault /\ vault \in Addresses
        /\ findDepositPda(a.by) \in Addresses /\ findCompareDuelPda \in Addresses
    BY AddressesDiffer
  <2>2. \A s \in Side : s # a.side => findCompareVaultPda(s) # vault
    BY DEF Side, findCompareVaultPda
  <2>3. o.data[findCompareDuelPda] = duel
    BY <1>1, <1>3, <2>1 DEF IsData
  <2>4. o.data[vault] = d[vault] + 1
    BY <1>1, <1>3, <2>1 DEF IsData
  <2>5. o.data[findDepositPda(a.by)] = dep
    BY <1>1, <1>3, <2>1 DEF IsData
  <2>6. \A x \in Addresses \ {findCompareDuelPda, vault, findDepositPda(a.by)} :
          o.data[x] = d[x]
    BY <1>1, <1>3 DEF IsData
  <2> QED
    BY <2>2, <2>3, <2>4, <2>5, <2>6, AddressesDiffer
<1>7. d[vault] \in Nat /\ d[findCompareDuelPda] # Absent
  BY <1>1, <1>3 DEF DuelsAre
<1> HIDE DEF duel, dep, was
<1>8. \A s \in Side : o.data[findCompareVaultPda(s)] \in Nat \cup {Absent}
  BY <1>6, <1>7 DEF DuelsAre
<1>9. \A s \in Side : o.data[findCompareVaultPda(s)] # Absent
  BY <1>6, <1>7, AccountsAssumption DEF DuelsAre
<1> QED
  BY <1>4, <1>5, <1>6, <1>8, <1>9 DEF DuelsAre

(* A step that writes the duel account only keeps the rest. *)
LEMMA OnlyDuelChanges ==
  ASSUME NEW d, DuelsAre(d), d[findCompareDuelPda] # Absent, NEW e,
         \A x \in DuelAccounts \ {findCompareDuelPda} : e[x] = d[x],
         IsDuel(d[findCompareDuelPda]) => IsDuel(e[findCompareDuelPda])
  PROVE  DuelsAre(e)
BY AddressesDiffer DEF DuelsAre, DuelAccounts

LEMMA DuelSampled ==
  ASSUME NEW was, IsDuel(was), NEW perf
  PROVE  IsDuel([was EXCEPT !.samples = 1, !.perf = perf])
<1> DEFINE duel == [was EXCEPT !.samples = 1, !.perf = perf]
<1>1. /\ duel.winner = was.winner /\ duel.total = was.total
      /\ DOMAIN duel = DOMAIN was
  BY DEF IsDuel
<1> HIDE DEF duel
<1>2. IsDuel(duel)
  BY <1>1 DEF IsDuel
<1> QED
  BY <1>2 DEF duel

LEMMA DuelResolved ==
  ASSUME NEW was, IsDuel(was), NEW winner \in Side \cup {NoWinner},
         winner # was.winner => \A s \in Side : was.total[s] > 0
  PROVE  IsDuel([was EXCEPT !.status = "resolved", !.winner = winner])
<1> DEFINE duel == [was EXCEPT !.status = "resolved", !.winner = winner]
<1>1. /\ duel.winner = winner /\ duel.total = was.total
      /\ DOMAIN duel = DOMAIN was
  BY DEF IsDuel
<1> HIDE DEF duel
<1>2. IsDuel(duel)
  BY <1>1 DEF IsDuel
<1> QED
  BY <1>2 DEF duel

LEMMA DuelStopped ==
  ASSUME NEW was, IsDuel(was)
  PROVE  IsDuel([was EXCEPT !.status = "resolved"])
<1> DEFINE duel == [was EXCEPT !.status = "resolved"]
<1>1. /\ duel.winner = was.winner /\ duel.total = was.total
      /\ DOMAIN duel = DOMAIN was
  BY DEF IsDuel
<1> HIDE DEF duel
<1>2. IsDuel(duel)
  BY <1>1 DEF IsDuel
<1> QED
  BY <1>2 DEF duel

LEMMA RecordCompareTwapKeeps ==
  ASSUME NEW d, IsData(d), DuelsAre(d), NEW d0, NEW a, a.ix = "recordCompareTwap",
         NEW o \in Run(d, Build(a, d0).at, a)
  PROVE  DuelsAre(o.data)
<1> DEFINE at == Build(a, d0).at
           perf == [s \in Side |-> IF s = 0 THEN d[at.oracleA] ELSE d[at.oracleB]]
           was == d[findCompareDuelPda]
           duel == [was EXCEPT !.samples = 1, !.perf = perf]
<1>1. at.compareDuel = findCompareDuelPda
  BY RecordCompareTwapRoles
<1>2. o \in RecordCompareTwap(d, at, a)
  BY DEF Run
<1> HIDE DEF at
<1>3. /\ was # Absent
      /\ o.data = [d EXCEPT ![at.compareDuel].samples = 1, ![at.compareDuel].perf = perf]
  BY <1>1, <1>2 DEF RecordCompareTwap, Outcome, Exist
<1> HIDE DEF perf
<1>4. /\ o.data[findCompareDuelPda] = duel
      /\ \A x \in Addresses \ {findCompareDuelPda} : o.data[x] = d[x]
  BY <1>1, <1>3, AddressesDiffer DEF IsData
<1>5. IsDuel(was) => IsDuel(duel)
  BY DuelSampled
<1> HIDE DEF duel
<1> QED
  BY <1>3, <1>4, <1>5, AddressesHold, OnlyDuelChanges

LEMMA EmergencyResolveCompareKeeps ==
  ASSUME NEW d, IsData(d), DuelsAre(d), NEW d0, NEW a,
         a.ix = "emergencyResolveCompare", NEW o \in Run(d, Build(a, d0).at, a)
  PROVE  DuelsAre(o.data)
<1> DEFINE at == Build(a, d0).at
           was == d[findCompareDuelPda]
           duel == [was EXCEPT !.status = "resolved"]
<1>1. at.compareDuel = findCompareDuelPda
  BY EmergencyResolveCompareRoles
<1>2. o \in EmergencyResolveCompare(d, at, a)
  BY DEF Run
<1> HIDE DEF at
<1>3. /\ was # Absent
      /\ o.data = [d EXCEPT ![at.compareDuel].status = "resolved"]
  BY <1>1, <1>2 DEF EmergencyResolveCompare, Outcome, Exist
<1>4. /\ o.data[findCompareDuelPda] = duel
      /\ \A x \in Addresses \ {findCompareDuelPda} : o.data[x] = d[x]
  BY <1>1, <1>3, AddressesDiffer DEF IsData
<1>5. IsDuel(was) => IsDuel(duel)
  BY DuelStopped
<1> HIDE DEF duel
<1> QED
  BY <1>3, <1>4, <1>5, AddressesHold, OnlyDuelChanges

LEMMA CloseDepositKeeps ==
  ASSUME NEW d, IsData(d), DuelsAre(d), NEW d0, NEW a, a.ix = "closeDeposit",
         NEW o \in Run(d, Build(a, d0).at, a)
  PROVE  DuelsAre(o.data)
<1> DEFINE at == Build(a, d0).at
<1>1. at.depositRecord = findDepositPda(a.by)
  BY CloseDepositRoles
<1>2. o \in CloseDeposit(d, at, a)
  BY DEF Run
<1> HIDE DEF at
<1>3. o.data = [d EXCEPT ![at.depositRecord] = Absent]
  BY <1>2 DEF CloseDeposit, Outcome
<1>4. \A x \in Addresses : o.data[x] = IF x = findDepositPda(a.by) THEN Absent ELSE d[x]
  BY <1>1, <1>3 DEF IsData
<1> QED
  BY <1>4, AddressesDiffer DEF DuelsAre

LEMMA CloseCompareDuelKeeps ==
  ASSUME NEW d, IsData(d), DuelsAre(d), NEW d0, NEW a, a.ix = "closeCompareDuel",
         NEW o \in Run(d, Build(a, d0).at, a)
  PROVE  DuelsAre(o.data)
<1> DEFINE at == Build(a, d0).at
<1>1. /\ at.compareDuel = findCompareDuelPda /\ at.poolVaultA = findCompareVaultPda(0)
      /\ at.poolVaultB = findCompareVaultPda(1)
  BY CloseCompareDuelRoles
<1>2. o \in CloseCompareDuel(d, at, a)
  BY DEF Run
<1> HIDE DEF at
<1>3. o.data = [CloseIfEmpty(d, {at.poolVaultA, at.poolVaultB})
                  EXCEPT ![at.compareDuel] = Absent]
  BY <1>2 DEF CloseCompareDuel, Outcome
<1>4. /\ o.data[findCompareDuelPda] = Absent
      /\ \A x \in Addresses \ {findCompareDuelPda} :
           \/ o.data[x] = d[x]
           \/ o.data[x] = Absent /\ x \in {findCompareVaultPda(0), findCompareVaultPda(1)}
  BY <1>1, <1>3, AddressesDiffer DEF CloseIfEmpty
<1> QED
  BY <1>4, AddressesDiffer DEF DuelsAre

LEMMA ResolveCompareKeeps ==
  ASSUME NEW d, IsData(d), DuelsAre(d), NEW d0, NEW a, a.ix = "resolveCompare",
         NEW o \in Run(d, Build(a, d0).at, a)
  PROVE  DuelsAre(o.data)
<1> DEFINE at == Build(a, d0).at
           A == findCompareVaultPda(0)
           B == findCompareVaultPda(1)
           was == d[findCompareDuelPda]
           winner == Winner(was.perf)
           duel == [was EXCEPT !.status = "resolved", !.winner = winner]
           resolved == [d EXCEPT ![findCompareDuelPda].status = "resolved",
                                 ![findCompareDuelPda].winner = winner]
<1>1. /\ at.compareDuel = findCompareDuelPda /\ at.poolVaultA = A /\ at.poolVaultB = B
  BY ResolveCompareRoles
<1>2. o \in ResolveCompare(d, at, a)
  BY DEF Run
<1> HIDE DEF at
<1>3. /\ was # Absent /\ d[A] # Absent /\ d[B] # Absent
      /\ \A s \in Side : was.total[s] > 0
  BY <1>1, <1>2 DEF ResolveCompare, Outcome, Exist
<1>4. winner \in Side \cup {NoWinner}
  BY DEF Side, Winner
<1>5. d[A] \in Nat /\ d[B] \in Nat
  BY <1>3, AddressesDiffer DEF DuelsAre
<1>6. o.data = IF winner = NoWinner THEN resolved
               ELSE [resolved EXCEPT ![A] = IF winner = 0 THEN d[A] + d[B] ELSE 0,
                                     ![B] = IF winner = 1 THEN d[A] + d[B] ELSE 0]
  <2>1. o.data = Awarded(d, at, winner)
    BY <1>1, <1>2 DEF ResolveCompare, Outcome
  <2> HIDE DEF winner
  <2> QED
    BY <1>1, <2>1 DEF Awarded
<1> HIDE DEF winner
<1>7. /\ resolved[findCompareDuelPda] = duel
      /\ \A x \in Addresses \ {findCompareDuelPda} : resolved[x] = d[x]
      /\ DOMAIN resolved = Addresses
  BY AddressesDiffer DEF IsData
<1> HIDE DEF resolved
<1>8. IsDuel(duel)
  BY <1>3, <1>4, DuelResolved DEF DuelsAre
<1> HIDE DEF duel
<1>9. /\ o.data[findCompareDuelPda] = duel
      /\ o.data[A] \in Nat /\ o.data[B] \in Nat
      /\ \A x \in Addresses \ {findCompareDuelPda, A, B} : o.data[x] = d[x]
  BY <1>5, <1>6, <1>7, AddressesDiffer
<1>10. \A s \in Side : o.data[findCompareVaultPda(s)] \in Nat
  BY <1>9, AddressesDiffer
<1>11. \A u \in Wallets : o.data[findDepositPda(u)] = d[findDepositPda(u)]
  BY <1>9, AddressesDiffer
<1> QED
  BY <1>8, <1>9, <1>10, <1>11, AccountsAssumption DEF DuelsAre

(* A deposit on the losing side is owed nothing; the division is by a      *)
(* positive total.                                                         *)
LEMMA OwedIsNat ==
  ASSUME NEW duel, IsDuel(duel), NEW dep, IsDeposit(dep)
  PROVE  /\ Owed(duel, dep) \in Nat
         /\ duel.winner \notin {NoWinner, dep.side} => Owed(duel, dep) = 0
<1>1. /\ duel.total[0] \in Nat /\ duel.total[1] \in Nat
      /\ duel.total[dep.side] \in Nat
  BY DEF IsDuel, IsDeposit, Side
<1>2. CASE duel.winner = NoWinner
  BY <1>2 DEF Owed
<1>3. CASE duel.winner # NoWinner /\ duel.winner = dep.side
  <2>1. duel.total[dep.side] > 0
    BY <1>3 DEF IsDuel, IsDeposit
  <2>2. \A x \in Nat : \A y \in Nat : y > 0 => x \div y \in Nat
    OBVIOUS
  <2> QED
    BY <1>1, <1>3, <2>1, <2>2 DEF Owed
<1>4. CASE duel.winner # NoWinner /\ duel.winner # dep.side
  BY <1>4 DEF Owed
<1> QED
  BY <1>2, <1>3, <1>4

(* The vault a client names: the winner's, or the deposit's before there   *)
(* is one.                                                                 *)
LEMMA WithdrawVaultIs ==
  ASSUME NEW d, DuelsAre(d), NEW u \in Wallets, Exist(d, fetchDeposit(u))
  PROVE  LET winner == d[findCompareDuelPda].winner
             side == d[findDepositPda(u)].side
         IN  /\ side \in Side /\ winner \in Side \cup {NoWinner}
             /\ WithdrawVault(d, u) =
                  findCompareVaultPda(IF winner # NoWinner THEN winner ELSE side)
<1>1. IsDuel(d[findCompareDuelPda]) /\ IsDeposit(d[findDepositPda(u)])
  BY DEF DuelsAre, Exist, fetchDeposit
<1> QED
  BY <1>1 DEF WithdrawVault, IsDuel, IsDeposit

(* What a withdrawal asks and does, at the addresses a client fills in. *)
LEMMA WithdrawDoes ==
  ASSUME NEW d, IsData(d), DuelsAre(d), NEW at, NEW a, a.by \in Wallets,
         at.compareDuel = findCompareDuelPda, at.depositRecord = findDepositPda(a.by),
         NEW v \in Side, at.poolVault = findCompareVaultPda(v),
         NEW o \in Withdraw(d, at, a)
  PROVE  LET duel == d[findCompareDuelPda]
             dep == d[findDepositPda(a.by)]
             vault == findCompareVaultPda(v)
             payout == Owed(duel, dep)
         IN  /\ duel # Absent /\ dep # Absent /\ d[vault] # Absent
             /\ duel.winner \in {NoWinner, dep.side} => v = dep.side
             /\ payout <= d[vault]
             /\ o.data = [d EXCEPT ![findDepositPda(a.by)].withdrawn = TRUE,
                                   ![vault] = @ - payout]
<1>1. /\ d[at.compareDuel] # Absent /\ d[at.depositRecord] # Absent
      /\ d[at.poolVault] # Absent
      /\ d[at.compareDuel].winner \in {NoWinner, d[at.depositRecord].side} =>
           at.poolVault = findCompareVaultPda(d[at.depositRecord].side)
  BY DEF Withdraw, Outcome, Exist
<1> DEFINE payout == Owed(d[at.compareDuel], d[at.depositRecord])
<1>2. /\ payout <= d[at.poolVault]
      /\ o.data = [d EXCEPT ![at.depositRecord].withdrawn = TRUE,
                            ![at.poolVault] = @ - payout]
  BY DEF Withdraw, Outcome
<1>3. d[findCompareDuelPda].winner \in {NoWinner, d[findDepositPda(a.by)].side} =>
        v = d[findDepositPda(a.by)].side
  BY <1>1 DEF findCompareVaultPda
<1> QED
  BY <1>1, <1>2, <1>3

(* Paying nothing from a vault leaves it as it is. *)
LEMMA PayingNothing ==
  ASSUME NEW d, IsData(d), NEW u, NEW s \in Side,
         d[findCompareVaultPda(s)] \in Nat
  PROVE  [d EXCEPT ![findDepositPda(u)].withdrawn = TRUE,
                   ![findCompareVaultPda(s)] = @ - 0]
           = [d EXCEPT ![findDepositPda(u)].withdrawn = TRUE]
<1>1. d[findCompareVaultPda(s)] - 0 = d[findCompareVaultPda(s)]
  OBVIOUS
<1>2. findDepositPda(u) # findCompareVaultPda(s)
  BY AddressesDiffer
<1> QED
  BY <1>1, <1>2 DEF IsData

LEMMA WithdrawKeeps ==
  ASSUME NEW d, IsData(d), DuelsAre(d), NEW d0, DuelsAre(d0), NEW a,
         a.ix = "withdraw", a.by \in Wallets, Exist(d0, fetchDeposit(a.by)),
         NEW o \in Run(d, Build(a, d0).at, a)
  PROVE  DuelsAre(o.data)
<1> DEFINE at == Build(a, d0).at
           duel == d[findCompareDuelPda]
           dep == d[findDepositPda(a.by)]
           payout == Owed(duel, dep)
<1>1. PICK v \in Side : WithdrawVault(d0, a.by) = findCompareVaultPda(v)
  BY WithdrawVaultIs
<1>2. /\ at.compareDuel = findCompareDuelPda /\ at.depositRecord = findDepositPda(a.by)
      /\ at.poolVault = findCompareVaultPda(v)
  BY <1>1, WithdrawRoles
<1>3. o \in Withdraw(d, at, a)
  BY DEF Run
<1> DEFINE vault == findCompareVaultPda(v)
<1> HIDE DEF at
<1>4. /\ duel # Absent /\ dep # Absent /\ d[vault] # Absent /\ payout <= d[vault]
      /\ o.data = [d EXCEPT ![findDepositPda(a.by)].withdrawn = TRUE,
                            ![vault] = @ - payout]
  BY <1>2, <1>3, WithdrawDoes
<1>5. IsDuel(duel) /\ IsDeposit(dep) /\ d[vault] \in Nat
  BY <1>4 DEF DuelsAre
<1>6. payout \in Nat
  BY <1>5, OwedIsNat
<1> HIDE DEF payout
<1>7. /\ o.data[findCompareDuelPda] = duel
      /\ o.data[vault] = d[vault] - payout
      /\ \A s \in Side : findCompareVaultPda(s) # vault =>
           o.data[findCompareVaultPda(s)] = d[findCompareVaultPda(s)]
      /\ o.data[findDepositPda(a.by)] = [dep EXCEPT !.withdrawn = TRUE]
      /\ \A u \in Wallets : u # a.by => o.data[findDepositPda(u)] = d[findDepositPda(u)]
  <2>1. /\ vault # findCompareDuelPda /\ findDepositPda(a.by) # findCompareDuelPda
        /\ findDepositPda(a.by) # vault /\ vault \in Addresses
        /\ findDepositPda(a.by) \in Addresses /\ findCompareDuelPda \in Addresses
    BY AddressesDiffer
  <2>2. o.data[vault] = d[vault] - payout
    BY <1>4, <2>1 DEF IsData
  <2>3. o.data[findDepositPda(a.by)] = [dep EXCEPT !.withdrawn = TRUE]
    BY <1>4, <2>1 DEF IsData
  <2>4. \A x \in Addresses \ {vault, findDepositPda(a.by)} : o.data[x] = d[x]
    BY <1>4 DEF IsData
  <2> QED
    BY <2>1, <2>2, <2>3, <2>4, AddressesDiffer
<1>8. IsDeposit([dep EXCEPT !.withdrawn = TRUE])
  BY <1>5 DEF IsDeposit
<1>9. o.data[vault] \in Nat
  BY <1>4, <1>5, <1>6, <1>7
<1>10. ASSUME NEW s \in Side
       PROVE  /\ o.data[findCompareVaultPda(s)] \in Nat \cup {Absent}
              /\ o.data[findCompareVaultPda(s)] # Absent
  <2>1. CASE findCompareVaultPda(s) = vault
    BY <1>9, <2>1, AccountsAssumption
  <2>2. CASE findCompareVaultPda(s) # vault
    BY <1>4, <1>7, <2>2 DEF DuelsAre
  <2> QED
    BY <2>1, <2>2
<1> QED
  BY <1>4, <1>5, <1>7, <1>8, <1>10 DEF DuelsAre

(* A vault the duel has moved on from: a deposit that is owed something is *)
(* checked against its own side's vault, and one that is owed nothing      *)
(* takes nothing from either.                                              *)
LEMMA WithdrawStale ==
  ASSUME IsData(data), DuelsAre(data), NEW d0, DuelsAre(d0), NEW a,
         a.ix = "withdraw", a.by \in Wallets, Exist(d0, fetchDeposit(a.by)),
         NEW o \in Outcomes(Build(a, d0), a)
  PROVE  o \in Outcomes(Build(a, data), a)
<1> DEFINE at == Build(a, d0).at
           now == Build(a, data).at
           duel == data[findCompareDuelPda]
           dep == data[findDepositPda(a.by)]
<1>1. PICK v \in Side : WithdrawVault(d0, a.by) = findCompareVaultPda(v)
  BY WithdrawVaultIs
<1>2. /\ at.compareDuel = findCompareDuelPda /\ at.depositRecord = findDepositPda(a.by)
      /\ at.poolVault = findCompareVaultPda(v)
      /\ at.depositorWsolAccount = wsolAta(a.by)
  BY <1>1, WithdrawRoles
<1>3. o \in Withdraw(data, at, a)
  BY PreparedSame, WithdrawRoles DEF Outcomes, Prepared, Run
<1>4. Build(a, d0).creates = {} /\ Build(a, data).creates = {}
  BY WithdrawRoles
<1>5. /\ duel # Absent /\ dep # Absent
      /\ duel.winner \in {NoWinner, dep.side} => v = dep.side
  <2> HIDE DEF at
  <2>1. /\ data[at.compareDuel] # Absent /\ data[at.depositRecord] # Absent
        /\ data[at.compareDuel].winner \in {NoWinner, data[at.depositRecord].side} =>
             at.poolVault = findCompareVaultPda(data[at.depositRecord].side)
    BY <1>3 DEF Withdraw, Outcome, Exist
  <2> QED
    BY <1>2, <2>1 DEF findCompareVaultPda
<1>6. CASE duel.winner \in {NoWinner, dep.side}
  <2>1. WithdrawVault(data, a.by) = WithdrawVault(d0, a.by)
    BY <1>1, <1>5, <1>6, WithdrawVaultIs DEF Exist, fetchDeposit
  <2>2. at = now
    BY <2>1 DEF Build, Tx, buildWithdrawInstruction, Built
  <2> QED
    BY <1>4, <2>2, SameOutcomes
<1>7. CASE duel.winner \notin {NoWinner, dep.side}
  <2>1. IsDuel(duel) /\ IsDeposit(dep) /\ Owed(duel, dep) = 0
    BY <1>5, <1>7, OwedIsNat DEF DuelsAre
  <2>2. PICK w \in Side : WithdrawVault(data, a.by) = findCompareVaultPda(w)
    BY <1>5, WithdrawVaultIs DEF Exist, fetchDeposit
  <2>3. /\ now.compareDuel = findCompareDuelPda
        /\ now.depositRecord = findDepositPda(a.by)
        /\ now.poolVault = findCompareVaultPda(w)
        /\ now.depositorWsolAccount = wsolAta(a.by)
    BY <2>2, WithdrawRoles
  <2>4. \A s \in Side : data[findCompareVaultPda(s)] \in Nat
    BY <1>5 DEF DuelsAre
  <2> HIDE DEF at, now
  <2>5. o = [data |-> [data EXCEPT ![findDepositPda(a.by)].withdrawn = TRUE],
             moved |-> {}]
    <3>1. o = [data |-> [data EXCEPT ![at.depositRecord].withdrawn = TRUE,
                                     ![at.poolVault] = @ - 0], moved |-> {}]
      BY <1>2, <1>3, <2>1 DEF Withdraw, Outcome
    <3>2. [data EXCEPT ![findDepositPda(a.by)].withdrawn = TRUE,
                       ![findCompareVaultPda(v)] = @ - 0]
            = [data EXCEPT ![findDepositPda(a.by)].withdrawn = TRUE]
      BY <2>4, PayingNothing
    <3> QED
      BY <1>2, <3>1, <3>2
  <2>6. o \in Withdraw(data, now, a)
    <3>1. /\ data[now.compareDuel].status = "resolved"
          /\ ~data[now.depositRecord].withdrawn
          /\ Exist(data, {now.compareDuel, now.depositRecord, now.poolVault,
                          now.depositorWsolAccount})
      BY <1>2, <1>3, <2>3, <1>5, <2>4, AccountsAssumption DEF Withdraw,
         Outcome, Exist
    <3>2. o = [data |-> [data EXCEPT ![now.depositRecord].withdrawn = TRUE,
                                     ![now.poolVault] = @ - 0], moved |-> {}]
      BY <2>3, <2>4, <2>5, PayingNothing
    <3>3. /\ Owed(data[now.compareDuel], data[now.depositRecord]) = 0
          /\ data[now.compareDuel].winner # NoWinner
          /\ data[now.compareDuel].winner # data[now.depositRecord].side
          /\ 0 <= data[now.poolVault]
      BY <1>7, <2>1, <2>3, <2>4
    <3>4. /\ ~(data[now.compareDuel].winner = NoWinner
                \/ data[now.compareDuel].winner = data[now.depositRecord].side)
          /\ Owed(data[now.compareDuel], data[now.depositRecord]) <= data[now.poolVault]
          /\ ~(Owed(data[now.compareDuel], data[now.depositRecord]) > 0)
      BY <3>3
    <3>5. [data |-> [data EXCEPT ![now.depositRecord].withdrawn = TRUE,
                       ![now.poolVault] =
                         @ - Owed(data[now.compareDuel], data[now.depositRecord])],
           moved |-> {}] = o
      BY <3>2, <3>3
    <3> QED
      BY <3>1, <3>4, <3>5 DEF Withdraw, Outcome
  <2> QED
    <3>1. Fresh(data, Build(a, data).creates) /\ Prepared(Build(a, data)) = data
      BY <1>4, PreparedSame DEF Fresh
    <3>2. o \in Run(data, now, a)
      BY <2>6 DEF Run
    <3> QED
      BY <3>1, <3>2 DEF Outcomes, Prepared, now
<1> QED
  BY <1>6, <1>7

-----------------------------------------------------------------------------
(* Together: Mode 2 keeps the shape of the duel. *)
LEMMA RunKeepsDuels ==
  ASSUME NEW d, IsData(d), DuelsAre(d), NEW d0, DuelsAre(d0), NEW a \in Requests,
         a.ix \in DuelIxs, Exist(d0, Build(a, d0).fetched),
         NEW o \in Run(d, Build(a, d0).at, a)
  PROVE  DuelsAre(o.data)
<1>1. a.ix = "withdraw" => Exist(d0, fetchDeposit(a.by))
  BY WithdrawRoles
<1> QED
  BY <1>1, RequestsAre, CreateCompareDuelKeeps, DepositSolKeeps,
     RecordCompareTwapKeeps, ResolveCompareKeeps, EmergencyResolveCompareKeeps,
     WithdrawKeeps, CloseCompareDuelKeeps, CloseDepositKeeps DEF DuelIxs

-----------------------------------------------------------------------------
(* The invariant.  A waiting transaction was built, by the client's own    *)
(* builder, on accounts that had everything it fetched; nothing else is    *)
(* known of how old they are.                                              *)
PendingBuilt ==
  pending # Nothing =>
    /\ pending.a \in Requests
    /\ \E d : /\ DuelsAre(d) /\ Exist(d, Build(pending.a, d).fetched)
              /\ pending.tx = Build(pending.a, d)

(* The configuration charges one of the fees an admin asks for. *)
ConfigCharges ==
  data[findConfigPda] # Absent => data[findConfigPda].creationFee \in CreationFees

(* What keeps a market's id used: its first mint outlives it. *)
MintsStay == created \in {0, 1} /\ (created = 1 => data[findMintPda(0)] # Absent)

ClientInv == /\ IsData(data) /\ PendingBuilt
             /\ ConfigCharges /\ MintsStay /\ DuelsAre(data)

(* A transaction that lands, built on any earlier accounts, keeps the      *)
(* invariant.                                                              *)
LEMMA CommitKeeps ==
  ASSUME ClientInv, NEW a \in Requests, NEW d0, DuelsAre(d0),
         Exist(d0, Build(a, d0).fetched),
         NEW o \in Outcomes(Build(a, d0), a), Commit(a, o)
  PROVE  IsData(data)' /\ ConfigCharges' /\ MintsStay' /\ DuelsAre(data)'
<1>1. IsData(o.data) /\ data' = o.data
  BY OutcomesLand DEF ClientInv, Commit
<1>2. ConfigCharges'
  BY <1>1, OutcomesLand DEF ClientInv, ConfigCharges
<1>3. MintsStay'
  <2>1. CASE a.ix = "initializeMarket"
    BY <1>1, <2>1, OutcomesLand, AccountsAssumption DEF ClientInv, MintsStay,
       Commit, There
  <2>2. CASE a.ix # "initializeMarket"
    BY <1>1, <2>2, OutcomesLand DEF ClientInv, MintsStay, Commit
  <2> QED
    BY <2>1, <2>2
<1>4. DuelsAre(o.data)
  <2>1. CASE a.ix \in DuelIxs
    <3>1. Build(a, d0).creates = {}
      BY <2>1, CreatesAre DEF DuelIxs
    <3>2. o \in Run(data, Build(a, d0).at, a)
      BY <3>1, PreparedSame, OutcomesLand DEF ClientInv
    <3> QED
      BY <2>1, <3>2, RunKeepsDuels DEF ClientInv
  <2>2. CASE a.ix \notin DuelIxs
    <3>1. \A x \in DuelAccounts : o.data[x] = data[x]
      BY <2>2, OutcomesLand DEF ClientInv
    <3> QED
      BY <3>1 DEF ClientInv, DuelsAre, DuelAccounts
  <2> QED
    BY <2>1, <2>2
<1>5. DuelsAre(data)'
  BY <1>1, <1>4 DEF DuelsAre
<1> QED
  BY <1>1, <1>2, <1>3, <1>5 DEF IsData

(* The inductive invariant: no transaction, stale or not, ends a duel's    *)
(* shape, a mint or a fee the admin did not set (client.ts builds it, the  *)
(* program runs it).                                                       *)
THEOREM ClientInvariant == Spec => []ClientInv
<1>1. Init => ClientInv
  <2> SUFFICES ASSUME Init PROVE ClientInv
    OBVIOUS
  <2>1. findConfigPda \in Addresses \ (Alive \cup {oracle(0), oracle(1)})
    BY AddressesHold DEF Alive, findConfigPda, wallet, wsolAta, feeAccount,
       oracle
  <2>2. DuelAccounts \cap (Alive \cup {oracle(0), oracle(1)}) = {}
    BY DEF DuelAccounts, Alive, findCompareDuelPda, findCompareVaultPda,
       findDepositPda, wallet, wsolAta, feeAccount, oracle
  <2>3. \A x \in DuelAccounts : data[x] = Absent
    BY <2>2, AddressesHold DEF Init
  <2>4. DuelsAre(data)
    BY <2>3 DEF DuelsAre, DuelAccounts
  <2> QED
    BY <2>1, <2>4 DEF Init, ClientInv, IsData, PendingBuilt, ConfigCharges,
       MintsStay
<1>2. ClientInv /\ [Next]_vars => ClientInv'
  <2> SUFFICES ASSUME ClientInv, [Next]_vars PROVE ClientInv'
    OBVIOUS
  <2> USE DEF ClientInv
  <2>1. ASSUME NEW a \in Requests, Submit(a) PROVE ClientInv'
    <3>1. PendingBuilt'
      BY <2>1 DEF Submit, PendingBuilt, Requests, MarketRequests, DuelRequests
    <3> QED
      BY <2>1, <3>1 DEF Submit, IsData, ConfigCharges, MintsStay, DuelsAre
  <2>2. ASSUME NEW a \in Requests, Others(a) PROVE ClientInv'
    <3>1. PICK o \in Outcomes(Build(a, data), a) : Commit(a, o)
      BY <2>2 DEF Others
    <3>2. Exist(data, Build(a, data).fetched)
      BY <2>2 DEF Others
    <3>3. PendingBuilt'
      BY <2>2 DEF Others, PendingBuilt, Requests
    <3> QED
      BY <3>1, <3>2, <3>3, CommitKeeps
  <2>3. CASE Land
    <3>1. PICK d : /\ DuelsAre(d) /\ Exist(d, Build(pending.a, d).fetched)
                   /\ pending.tx = Build(pending.a, d)
      BY <2>3 DEF Land, PendingBuilt
    <3>2. PICK o \in Outcomes(pending.tx, pending.a) : Commit(pending.a, o)
      BY <2>3 DEF Land
    <3>3. pending.a \in Requests /\ PendingBuilt'
      BY <2>3 DEF Land, PendingBuilt
    <3> QED
      BY <3>1, <3>2, <3>3, CommitKeeps
  <2>4. CASE Drop
    BY <2>4 DEF Drop, IsData, PendingBuilt, ConfigCharges, MintsStay, DuelsAre
  <2>5. CASE Pass
    BY <2>5 DEF Pass, IsData, PendingBuilt, ConfigCharges, MintsStay, Requests,
       DuelsAre
  <2>6. ASSUME NEW s \in Side, Report(s) PROVE ClientInv'
    <3>1. oracle(s) \notin {findConfigPda, findMintPda(0)}
      BY DEF oracle, findConfigPda, findMintPda
    <3>2. IsData(data)' /\ \A x \in Addresses : x # oracle(s) => data'[x] = data[x]
      BY <2>6 DEF Report, IsData
    <3>3. ConfigCharges' /\ MintsStay'
      BY <2>6, <3>1, <3>2, AddressesHold DEF Report, ConfigCharges, MintsStay
    <3>4. oracle(s) \notin DuelAccounts
      BY DEF DuelAccounts, oracle, findCompareDuelPda, findCompareVaultPda,
         findDepositPda
    <3>5. DuelsAre(data')
      <4>1. \A x \in DuelAccounts : data'[x] = data[x]
        BY <3>2, <3>4, AddressesHold
      <4> QED
        BY <4>1 DEF DuelsAre, DuelAccounts
    <3>6. DuelsAre(data)'
      BY <3>5 DEF DuelsAre
    <3> QED
      BY <2>6, <3>2, <3>3, <3>6 DEF Report, PendingBuilt, Requests
  <2>7. CASE UNCHANGED vars
    BY <2>7 DEF vars, IsData, PendingBuilt, ConfigCharges, MintsStay, Requests,
       DuelsAre
  <2> QED
    BY <2>1, <2>2, <2>3, <2>4, <2>5, <2>6, <2>7 DEF Next
<1> QED
  BY <1>1, <1>2, PTL DEF Spec

(* close_market never gives the mints back, so initialize_market cannot    *)
(* run twice at one address, whatever wallets do in between.               *)
THEOREM ClientMarketIdUsedOnce == Spec => []MarketIdUsedOnce
<1>1. ClientInv => MarketIdUsedOnce
  BY DEF ClientInv, MintsStay, MarketIdUsedOnce
<1> QED
  BY <1>1, ClientInvariant, PTL

(* While the configuration asks no creation fee, every account any         *)
(* instruction writes is one the client's interface lists as writable      *)
(* (types.ts), for all accounts and requests.                              *)
THEOREM ClientWritesDeclaredWithoutFee ==
  Spec => [](NoCharge(data) => WritesDeclared)
<1>1. ClientInv => (NoCharge(data) => WritesDeclared)
  <2> SUFFICES ASSUME ClientInv, NoCharge(data), NEW a \in Requests,
                      Exist(data, Build(a, data).fetched),
                      NEW o \in Outcomes(Build(a, data), a)
               PROVE  Permitted(Build(a, data), o)
    BY DEF WritesDeclared
  <2> QED
    BY OutcomesLand DEF ClientInv
<1> QED
  BY <1>1, ClientInvariant, PTL

(* So if no admin ever sets a creation fee, always. With a fee it is       *)
(* false: initialize_market then writes the protocol's account, which      *)
(* types.ts lists as read only.                                            *)
THEOREM ClientWritesDeclared ==
  ASSUME CreationFees \subseteq {0}
  PROVE  Spec => []WritesDeclared
<1>1. ClientInv => NoCharge(data)
  BY DEF ClientInv, ConfigCharges, NoCharge
<1> QED
  BY <1>1, ClientInvariant, ClientWritesDeclaredWithoutFee, PTL

(* A transaction built on accounts that have changed since either fails or *)
(* does exactly what one built now would: the program's own checks catch   *)
(* every stale fee account, vault and side.                                *)
THEOREM ClientStaleEqualsFresh == Spec => []StaleEqualsFresh
<1>1. ClientInv => StaleEqualsFresh
  <2> SUFFICES ASSUME ClientInv, pending # Nothing,
                      NEW o \in Outcomes(pending.tx, pending.a)
               PROVE  /\ Exist(data, Build(pending.a, data).fetched)
                      /\ o \in Outcomes(Build(pending.a, data), pending.a)
    BY DEF StaleEqualsFresh
  <2> DEFINE a == pending.a
             Same == o \in Outcomes(Build(a, data), a)
  <2>1. PICK d : /\ DuelsAre(d) /\ Exist(d, Build(a, d).fetched)
                 /\ pending.tx = Build(a, d)
    BY DEF ClientInv, PendingBuilt
  <2>2. a \in Requests /\ o \in Outcomes(Build(a, d), a)
    BY <2>1 DEF ClientInv, PendingBuilt
  <2>3. IsData(data) /\ DuelsAre(data)
    BY DEF ClientInv
  <2> HIDE DEF a
  <2>4. Exist(data, Build(a, data).fetched)
    BY <2>2, <2>3, FetchedExist
  <2>5. ASSUME a.ix \in FixedIxs PROVE Same
    BY <2>2, <2>5, FixedBuild, SameOutcomes
  <2>6. ASSUME a.ix \in FeeIxs PROVE Same
    BY <2>2, <2>3, <2>6, FeesStale
  <2>7. ASSUME a.ix = "resolveAndGraduate" PROVE Same
    BY <2>2, <2>3, <2>7, ResolveAndGraduateStale
  <2>8. ASSUME a.ix = "resolveCompare" PROVE Same
    BY <2>2, <2>3, <2>8, ResolveCompareStale
  <2>9. ASSUME a.ix = "withdraw" PROVE Same
    <3>1. Exist(d, fetchDeposit(a.by))
      BY <2>1, <2>9, WithdrawRoles
    <3> QED
      BY <2>1, <2>2, <2>3, <2>9, <3>1, RequestsAre, WithdrawStale
  <2>10. \/ a.ix \in FixedIxs
         \/ a.ix \in FeeIxs
         \/ a.ix \in {"resolveAndGraduate", "resolveCompare", "withdraw"}
    BY <2>2, RequestsAre DEF FixedIxs, FeeIxs, ConfigIxs, MarketIxs, DuelIxs
  <2> QED
    BY <2>4, <2>5, <2>6, <2>7, <2>8, <2>9, <2>10 DEF a
<1> QED
  BY <1>1, ClientInvariant, PTL
=============================================================================
