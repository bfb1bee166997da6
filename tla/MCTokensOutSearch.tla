------------------------- MODULE MCTokensOutSearch -------------------------
(***************************************************************************)
(* A curve of 12 tokens steep enough (scale 4) for both the quadratic term *)
(* and its truncation to show, and every quote amount up to one more than  *)
(* the whole supply costs.  Floats of nine bits guarantee exact reserves   *)
(* up to five tokens and exact prices everywhere; at eleven tokens the     *)
(* SDK's reserve is off by one and so are some of its answers.             *)
(***************************************************************************)
EXTENDS SdkMath

MCSols == 0 .. ReserveIntegral(TOTAL_SUPPLY_PER_SIDE) + 1
=============================================================================
