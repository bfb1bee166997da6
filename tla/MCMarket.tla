------------------------------ MODULE MCMarket ------------------------------
(***************************************************************************)
(* A market of three tokens a side on a curve where they cost 1, 2 and 6   *)
(* in all.  One offer is too small for the fee to show, the other pays a   *)
(* fee and leaves rounding dust.  The window has room for two samples.     *)
(***************************************************************************)
EXTENDS Market

MCSampleIntervals == 1 .. 2
=============================================================================
