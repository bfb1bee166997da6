------------------------------ MODULE SdkMath ------------------------------
(***************************************************************************)
(* The copies of the curve that clients work with, beside the program's    *)
(* own search: the SDK's (sdk/src/client.ts), in floating-point numbers,   *)
(* and the estimates of the market page (app/app/duels/[id]/page.tsx),     *)
(* which walk along the curve in steps.  The loops are state machines like *)
(* the program's.  They share nothing, so one order of running them stands *)
(* for all: the program's search, then the client's three loops on the     *)
(* same side.                                                              *)
(***************************************************************************)
EXTENDS TokensOutSearch

CONSTANTS MANTISSA,    \* binary digits of a double: 53
          FRACTION,    \* and the most it has after the point: 1074
          STEP         \* tokens per step of the page's estimates

(* A power of two.  (A recursive function: TLAPS knows nothing of ^.)      *)
Two[n \in Nat] == IF n = 0 THEN 1 ELSE 2 * Two[n - 1]

(* Every quotient of the curve is a normal number, far from underflow.     *)
ASSUME SdkAssumption == /\ MANTISSA \in Nat \ {0, 1}
                        /\ FRACTION \in Nat
                        /\ STEP \in Nat \ {0}
                        /\ Two[MANTISSA] * (3 * CURVE_SCALE) <= Two[FRACTION]

VARIABLES turn,                     \* whose loop runs
          sdkLo, sdkHi, sdkBest,    \* lo, hi and best of calculateTokensOut
          at, remaining,            \* supply and remaining of the page's loops
          tokens,                   \* what estimateTokensOut returns
          lamports                  \* what estimateSolOut returns

sdk == <<sdkLo, sdkHi, sdkBest>>
page == <<at, remaining, tokens, lamports>>
sdkVars == <<vars, turn, sdk, page>>

-----------------------------------------------------------------------------
(* Every double is a whole number of units, a unit being the smallest      *)
(* positive one; One is the number 1.                                      *)
One == Two[FRACTION]

(* The distance between neighbouring doubles around m units: a double is a *)
(* mantissa shifted left, so halve m until it fits one.                    *)
Grid[m \in Nat] == IF m < Two[MANTISSA] THEN 1 ELSE 2 * Grid[m \div 2]

(* The one nearest to n / d units, the even one of two.                    *)
Nearest(d) ==
  [n \in Nat |->
     LET g == Grid[n \div d]
         w == d * g
         q == n \div w
         r == n % w
     IN  g * (IF w < 2 * r \/ (w = 2 * r /\ q % 2 = 1) THEN q + 1 ELSE q)]

Float(n, d) == Nearest(d)[n]

Floor(x) == x \div One

(* Math.floor(a / d + c), each operation rounded.  Supplies and amounts,   *)
(* with their sums and differences, are integers a double holds; powers    *)
(* are taken to be rounded once; the factors CURVE_A and CURVE_B are 1:    *)
(* nothing else rounds.                                                    *)
Over(a, d) == Float(Float(a * One, 1), d)
FloorOfSum(a, d, c) == Floor(Float(Over(a, d) + c * One, 1))

calculatePrice(k) == FloorOfSum(CURVE_A * (k * k), CURVE_SCALE, CURVE_B)

(* mutant: the reserve is rounded to the nearest integer. *)
calculateReserveRounded(k) ==
  LET x == Over(CURVE_A * (k * k * k), 3 * CURVE_SCALE)
  IN  Floor(Float(x + CURVE_B * k * One, 1) + One \div 2)

calculateReserve(k) ==
  FloorOfSum(CURVE_A * (k * k * k), 3 * CURVE_SCALE, CURVE_B * k)

(* The difference of two reserves is rounded like any other. *)
ReserveBetween(j, k) ==
  Floor(Float((calculateReserve(k) - calculateReserve(j)) * One, 1))

calculateQuoteOut(t, k) == IF t = 0 THEN 0 ELSE ReserveBetween(k - t, k)

-----------------------------------------------------------------------------
(* The loop of calculateTokensOut: the program's, on the SDK's reserve.    *)
sdkMid == sdkLo + (sdkHi - sdkLo) \div 2
Cheap == ReserveBetween(supply, supply + sdkMid) <= sol

calculateTokensOut ==
  /\ turn = "program" /\ pc = "done"
  /\ turn' = IF sol = 0 \/ available <= 0 THEN "page" ELSE "search"
  /\ sdkLo' = 0 /\ sdkHi' = available /\ sdkBest' = 0
  /\ UNCHANGED <<vars, page>>

LookAbove == /\ turn = "search" /\ sdkLo <= sdkHi /\ Cheap
             /\ sdkBest' = sdkMid
             /\ turn' = IF sdkMid = sdkHi THEN "page" ELSE "search"
             /\ sdkLo' = IF sdkMid = sdkHi THEN sdkLo ELSE sdkMid + 1
             /\ UNCHANGED <<vars, sdkHi, page>>

LookBelow == /\ turn = "search" /\ sdkLo <= sdkHi /\ ~Cheap
             /\ turn' = IF sdkMid = 0 THEN "page" ELSE "search"
             /\ sdkHi' = IF sdkMid = 0 THEN sdkHi ELSE sdkMid - 1
             /\ UNCHANGED <<vars, sdkLo, sdkBest, page>>

NothingBetween == /\ turn = "search" /\ sdkLo > sdkHi
                  /\ turn' = "page"
                  /\ UNCHANGED <<vars, sdk, page>>

-----------------------------------------------------------------------------
(* The page adds whole steps at the price of their first token (for        *)
(* nothing, should a price round to zero) ...                              *)
estimateTokensOut == /\ turn = "page"
                     /\ turn' = "buy"
                     /\ at' = supply /\ remaining' = sol /\ tokens' = 0
                     /\ UNCHANGED <<vars, sdk, lamports>>

MoreToBuy == remaining > 0 /\ at < TOTAL_SUPPLY_PER_SIDE

BuyStep == /\ turn = "buy" /\ MoreToBuy
           /\ calculatePrice(at) * STEP <= remaining
           /\ remaining' = remaining - calculatePrice(at) * STEP
           /\ at' = at + STEP
           /\ tokens' = tokens + STEP
           /\ UNCHANGED <<vars, turn, sdk, lamports>>

(* ... then what the rest pays for at one price.                           *)
BuyRest == /\ turn = "buy" /\ MoreToBuy
           /\ calculatePrice(at) * STEP > remaining
           /\ tokens' = tokens + remaining \div calculatePrice(at)
           /\ turn' = "bought"
           /\ UNCHANGED <<vars, sdk, at, remaining, lamports>>

BuyEnds == /\ turn = "buy" /\ ~MoreToBuy
           /\ turn' = "bought"
           /\ UNCHANGED <<vars, sdk, page>>

(* For a sale of the same tokens it takes steps off at the price of the    *)
(* last token that stays.                                                  *)
estimateSolOut == /\ turn = "bought"
                  /\ turn' = "sell"
                  /\ at' = supply + best /\ remaining' = best /\ lamports' = 0
                  /\ UNCHANGED <<vars, sdk, tokens>>

Least(i, j) == IF i < j THEN i ELSE j
batch == Least(Least(STEP, remaining), at)

SellStep == /\ turn = "sell" /\ remaining > 0 /\ at > 0
            /\ lamports' = lamports + calculatePrice(at - batch) * batch
            /\ at' = at - batch
            /\ remaining' = remaining - batch
            /\ UNCHANGED <<vars, turn, sdk, tokens>>

SellEnds == /\ turn = "sell" /\ ~(remaining > 0 /\ at > 0)
            /\ turn' = "done"
            /\ UNCHANGED <<vars, sdk, page>>

-----------------------------------------------------------------------------
SdkInit == /\ Init
           /\ turn = "program"
           /\ sdkLo = 0 /\ sdkHi = 0 /\ sdkBest = 0
           /\ at = 0 /\ remaining = 0 /\ tokens = 0 /\ lamports = 0

ProgramStep == turn = "program" /\ Next /\ UNCHANGED <<turn, sdk, page>>

SdkNext ==
  \/ ProgramStep
  \/ calculateTokensOut \/ LookAbove \/ LookBelow \/ NothingBetween
  \/ estimateTokensOut \/ BuyStep \/ BuyRest \/ BuyEnds
  \/ estimateSolOut \/ SellStep \/ SellEnds

SdkSpec == SdkInit /\ [][SdkNext]_sdkVars
(* Each loop runs inside one instruction or call: nothing stops it         *)
(* half-way.                                                               *)
FairSdkSpec == SdkSpec /\ WF_sdkVars(SdkNext)

-----------------------------------------------------------------------------
(* Supplies at which three roundings together stay below the smallest      *)
(* fraction of the curve.  (Two of them can push a sum that is below the   *)
(* next integer over it already when the amounts fit the mantissa but not  *)
(* with a bit to spare.)                                                   *)
PreciseReserve(k) ==
  2 * (CURVE_A * (k * k * k) + 3 * CURVE_SCALE * (CURVE_B * k)) < Two[MANTISSA]
PrecisePrice(k) ==
  2 * (CURVE_A * (k * k) + CURVE_SCALE * CURVE_B) < Two[MANTISSA]

(* How far beyond that the SDK's reserve may be from the program's, times  *)
(* 2^MANTISSA: one unit for the truncation, four roundings' worth of the   *)
(* reserve for the floats.                                                 *)
Slack(k) == Two[MANTISSA] + 4 * (ReserveIntegral(k) + 1)

(* The first supply out of reach of the buyer, if there is one. *)
top == supply + (IF best < available THEN best + 1 ELSE best)

(* The SDK's search probes the curve far above the answer, where floats    *)
(* are not exact.  Still: while the answer is where they are, the SDK      *)
(* quotes the program's amounts; anywhere else the amount it returns costs *)
(* at most the slack more than what is paid, and one token more would not  *)
(* have been cheaper by more than that.  Where prices are exact the page   *)
(* promises a seller no more and a buyer no less than the curve gives.     *)
MirrorsAgree ==
  turn = "done" =>
    /\ PreciseReserve(top) =>
         /\ sdkBest = best
         /\ calculateQuoteOut(best, supply + best)
              = SolOut(best, supply + best)
    /\ sol < Two[MANTISSA] =>
         /\ (Cost(supply, sdkBest) - sol) * Two[MANTISSA]
              <= Slack(supply) + Slack(supply + sdkBest)
         /\ sdkBest < available =>
              (sol - Cost(supply, sdkBest + 1)) * Two[MANTISSA]
                <= Slack(supply) + Slack(supply + (sdkBest + 1))
    /\ PrecisePrice(supply + best) =>
         /\ tokens >= best
         /\ lamports <= SolOut(best, supply + best)

(* Every loop ends on every input. *)
EveryLoopEnds == <>(turn = "done")
=============================================================================
