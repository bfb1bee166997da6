------------------------------ MODULE MCWebApp ------------------------------
(* Two wallets, the page mounted with one of them, two clicks and two open *)
(* requests.                                                               *)
EXTENDS WebApp

CONSTANTS w1, w2, none

MCWallets == {w1, w2}
MCMounted == {w1}
=============================================================================
