----------------------------- MODULE MCCompareDuel -----------------------------
(***************************************************************************)
(* Three users, so that two can share a win, stakes and a fee that do not  *)
(* divide evenly, and two prices.  Of the feeds some are refused: not      *)
(* positive, too uncertain, too large, or so once scaled.  The coarse ones *)
(* have an exponent below what the scale keeps: a price can scale to 0.    *)
(***************************************************************************)
EXTENDS CompareDuel, TLC

CONSTANTS u1, u2, u3

MCUsers == {u1, u2, u3}
MCTwoUsers == {u1, u2}
MCFeeds == [price : 0 .. 3, conf : {0, 1}, expo : {-1, 4}]
MCCoarseFeeds == [price : 0 .. 3, conf : {0, 1}, expo : {-2, -1, 4}]
MCSampleIntervals == 1 .. 2
Symmetry == Permutations(MCUsers)
TwoSymmetry == Permutations(MCTwoUsers)
=============================================================================
