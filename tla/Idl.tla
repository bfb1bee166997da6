-------------------------------- MODULE Idl --------------------------------
(***************************************************************************)
(* The program's interface as its clients know it (sdk/src/types.ts): for  *)
(* every instruction the roles of its accounts, the ones it may write and  *)
(* the ones it only reads.  A transaction takes its locks from this list,  *)
(* so an account the program writes must be listed writable.  Programs,    *)
(* sysvars and the mint of wrapped SOL never change and are left out; so   *)
(* are the accounts of the external pool that only Meteora reads.          *)
(***************************************************************************)

initializeConfig == [writable |-> {"admin", "config"},
                     readonly |-> {"protocolFeeAccount"}]

updateConfig == [writable |-> {"config"},
                 readonly |-> {"admin", "newProtocolFeeAccount"}]

-----------------------------------------------------------------------------
(* Mode 1. *)

marketAccounts == {"market", "sideA", "sideB", "tokenMintA", "tokenMintB",
                   "tokenVaultA", "tokenVaultB", "quoteVaultA", "quoteVaultB"}

initializeMarket ==
  [writable |-> {"creator", "metadataA", "metadataB"} \cup marketAccounts,
   readonly |-> {"protocolFeeAccount", "creatorFeeAccount", "config"}]

(* mutant: the creator's share of the fee goes to an account not writable. *)
buyTokensCreatorReadonly ==
  [writable |-> {"buyer", "market", "sideAccount", "tokenVault",
                 "buyerTokenAccount", "quoteVault", "buyerQuoteAccount",
                 "protocolFeeAccount"},
   readonly |-> {"tokenMint", "config", "creatorFeeAccount"}]

buyTokens ==
  [writable |-> {"buyer", "market", "sideAccount", "tokenVault",
                 "buyerTokenAccount", "quoteVault", "buyerQuoteAccount",
                 "protocolFeeAccount", "creatorFeeAccount"},
   readonly |-> {"tokenMint", "config"}]

sellTokens ==
  [writable |-> {"seller", "market", "sideAccount", "tokenVault",
                 "sellerTokenAccount", "quoteVault", "sellerQuoteAccount",
                 "protocolFeeAccount", "creatorFeeAccount"},
   readonly |-> {"tokenMint", "config"}]

sellPostResolution ==
  [writable |-> {"seller", "market", "sideAccount", "tokenVault",
                 "sellerTokenAccount", "quoteVault", "sellerQuoteAccount"},
   readonly |-> {"tokenMint", "config"}]

recordTwapSample == [writable |-> {"market", "sideA", "sideB"},
                     readonly |-> {"cranker"}]

resolveAndGraduate ==
  [writable |-> {"resolver", "marketTokenAta", "marketWsolAta", "pool",
                 "positionNftMint", "positionNftAccount", "position",
                 "poolTokenVaultA", "poolTokenVaultB", "losingTokenMetadata"}
                \cup marketAccounts,
   readonly |-> {"config"}]

emergencyResolve == [writable |-> {"resolver", "market", "sideA", "sideB"},
                     readonly |-> {"config"}]

claimPoolFees ==
  [writable |-> {"authority", "position", "feeReceiverTokenA",
                 "feeReceiverTokenB", "tokenAVault", "tokenBVault"},
   readonly |-> {"market", "config", "tokenMint", "pool", "positionNftAccount"}]

closeQuoteVault ==
  [writable |-> {"closer", "quoteVault", "tokenVault", "rentReceiver"},
   readonly |-> {"market", "sideAccount"}]

closeMarket == [writable |-> {"authority", "market", "sideA", "sideB"},
                readonly |-> {"config"}]

-----------------------------------------------------------------------------
(* Mode 2. *)

createCompareDuel ==
  [writable |-> {"creator", "compareDuel", "poolVaultA", "poolVaultB"},
   readonly |-> {"oracleA", "oracleB", "config", "protocolFeeAccount",
                 "creatorFeeAccount"}]

deposit == [writable |-> {"depositor", "compareDuel", "depositRecord",
                          "poolVault", "depositorWsolAccount"},
            readonly |-> {"config"}]

recordCompareTwap == [writable |-> {"compareDuel"},
                      readonly |-> {"cranker", "oracleA", "oracleB"}]

resolveCompare ==
  [writable |-> {"resolver", "compareDuel", "poolVaultA", "poolVaultB",
                 "protocolFeeAccount", "creatorFeeAccount"},
   readonly |-> {"config"}]

emergencyResolveCompare == [writable |-> {"resolver", "compareDuel"},
                            readonly |-> {"config"}]

withdraw == [writable |-> {"depositor", "depositRecord", "poolVault",
                           "depositorWsolAccount"},
             readonly |-> {"compareDuel"}]

closeCompareDuel ==
  [writable |-> {"authority", "compareDuel", "poolVaultA", "poolVaultB"},
   readonly |-> {"config"}]

closeDeposit == [writable |-> {"depositor", "depositRecord"},
                 readonly |-> {"compareDuel"}]
=============================================================================
