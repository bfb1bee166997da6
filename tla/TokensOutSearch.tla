--------------------------- MODULE TokensOutSearch ---------------------------
(***************************************************************************)
(* The loop of bonding_curve::tokens_out, one action per way through its   *)
(* body: a binary search on u64 indices for the number of tokens a quote   *)
(* amount buys.  The three exits of the loop, the two early returns before *)
(* it and the `mid - 1` on an unsigned index are what can go wrong in it.  *)
(***************************************************************************)
EXTENDS BondingCurve

CONSTANT Sols    \* the quote amounts the search is run on

ASSUME SolsAssumption == Sols \subseteq Nat

VARIABLES sol,      \* sol_amount
          supply,   \* current_supply
          lo, hi,   \* the bracket of the search
          best,     \* the best affordable amount found
          pc        \* "entry", "loop" or "done"

vars == <<sol, supply, lo, hi, best, pc>>

available == TOTAL_SUPPLY_PER_SIDE - supply
mid == lo + (hi - lo) \div 2

(* cost <= sol, where the difference of integrals is truncated once each. *)
AffordableStrict == Cost(supply, mid) < sol     \* mutant: strict comparison
Affordable == Cost(supply, mid) <= sol

Init == /\ sol \in Sols
        /\ supply \in Supplies
        /\ lo = 0 /\ hi = 0 /\ best = 0
        /\ pc = "entry"

(* Nothing is paid, or nothing is left to buy. *)
ReturnZero == /\ pc = "entry"
              /\ sol = 0 \/ available = 0
              /\ pc' = "done"
              /\ UNCHANGED <<sol, supply, lo, hi, best>>

StartSearch == /\ pc = "entry"
               /\ sol # 0 /\ available # 0
               /\ hi' = available
               /\ pc' = "loop"
               /\ UNCHANGED <<sol, supply, lo, best>>

(* mutant: the lower end of the bracket keeps mid. *)
MoveUpKeepingMid == /\ pc = "loop" /\ lo <= hi /\ Affordable
                    /\ best' = mid
                    /\ pc' = IF mid = hi THEN "done" ELSE "loop"
                    /\ lo' = mid
                    /\ UNCHANGED <<sol, supply, hi>>

(* mid tokens are affordable: look for more, unless mid is the last one. *)
MoveUp == /\ pc = "loop" /\ lo <= hi /\ Affordable
          /\ best' = mid
          /\ pc' = IF mid = hi THEN "done" ELSE "loop"
          /\ lo' = IF mid = hi THEN lo ELSE mid + 1
          /\ UNCHANGED <<sol, supply, hi>>

(* mutant: the upper end of the bracket skips mid - 1. *)
MoveDownTooFar == /\ pc = "loop" /\ lo <= hi /\ ~Affordable
                  /\ pc' = IF mid = 0 THEN "done" ELSE "loop"
                  /\ hi' = IF mid = 0 THEN hi ELSE mid - 2
                  /\ UNCHANGED <<sol, supply, lo, best>>

(* mid tokens are too dear: look for fewer; the test on mid keeps the      *)
(* unsigned hi from wrapping.                                              *)
MoveDown == /\ pc = "loop" /\ lo <= hi /\ ~Affordable
            /\ pc' = IF mid = 0 THEN "done" ELSE "loop"
            /\ hi' = IF mid = 0 THEN hi ELSE mid - 1
            /\ UNCHANGED <<sol, supply, lo, best>>

(* The loop condition fails. *)
BracketEmpty == /\ pc = "loop" /\ lo > hi
                /\ pc' = "done"
                /\ UNCHANGED <<sol, supply, lo, hi, best>>

Next == ReturnZero \/ StartSearch \/ MoveUp \/ MoveDown \/ BracketEmpty

Spec == Init /\ [][Next]_vars

-----------------------------------------------------------------------------
(* The indices stay in the range of the supply that is left: in            *)
(* particular the unsigned hi never goes below zero.                       *)
TypeOK == /\ sol \in Sols
          /\ supply \in Supplies
          /\ lo \in 0 .. available
          /\ hi \in 0 .. available
          /\ best \in 0 .. available
          /\ pc \in {"entry", "loop", "done"}

(* Everything above the bracket is too dear, best is affordable, and best  *)
(* is the amount just below the bracket (or nothing was affordable yet).   *)
Bracketed ==
  /\ pc = "entry" => lo = 0 /\ hi = 0 /\ best = 0
  /\ pc = "loop" =>
       /\ lo <= hi + 1
       /\ best = lo - 1 \/ (lo = 0 /\ best = 0)
       /\ Cost(supply, best) <= sol
       /\ \A t \in hi + 1 .. available : Cost(supply, t) > sol

(* The buyer gets the most tokens that the quote pays for: never one more  *)
(* (the vault would lose) and never one less (the buyer would).            *)
SearchCorrect == pc = "done" => IsTokensOut(sol, supply, best)

(* Selling the tokens just bought never returns more than was paid         *)
(* (SPEC.md security goal 3), whatever the truncations of the integral.    *)
NoFreeRoundTrip == pc = "done" => SolOut(best, supply + best) <= sol
=============================================================================
