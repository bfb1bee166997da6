------------------------------ MODULE MCClient ------------------------------
(* Two wallets, one of them creator and administrator. *)
EXTENDS Client, TLC

CONSTANTS creator, user

MCWallets == {creator, user}
MCTraders == {user}
MCSymmetry == Permutations(FeeAccounts)
=============================================================================
