--------------------------- MODULE ScriptCranker ---------------------------
(***************************************************************************)
(* Anyone may crank.  Here the production daemon works beside the          *)
(* stand-alone cranker (scripts/cranker.ts), whose loop makes the same     *)
(* requests in the same order but whose timer starts a new invocation      *)
(* whether or not the one before has ended: its ticks overlap each other   *)
(* and the daemon's.                                                       *)
(***************************************************************************)
EXTENDS Cranker

(* setInterval(tick): no flag is looked at. *)
StartScriptTick(l) ==
  /\ loop[l].pc = "idle"
  /\ \E d \in Skew : Await(l, [Idle EXCEPT !.pc = "fetch", !.clock = now + d])
  /\ UNCHANGED <<chainVars, daemonVars, failures>>

ScriptFetch(l) == FetchMarkets(l)
ScriptTakeMarket(l) == TakeMarket(l) \/ LoopEnds(l)
ScriptPickWinner(l) == ReadSide(l) \/ PickWinner(l)
ScriptEnsureAtas(l) == EnsureAtas(l)
ScriptTransaction(l) == Confirmed(l) \/ Rejected(l)

(* Nothing is assumed of the script, so its errors need no bound: the loop *)
(* goes on to the next market, or ends.                                    *)
ScriptFails(l) ==
  /\ Awaiting(l)
  /\ (loop[l].pc = "fetch" /\ Finish(l))
     \/ (loop[l].pc # "fetch" /\ NextOne(l) /\ UNCHANGED <<isProcessing, phase>>)
  /\ Others /\ UNCHANGED <<chain, atas, failures>>

ScriptStep(l) == \/ StartScriptTick(l) \/ ScriptFetch(l)
                 \/ ScriptTakeMarket(l) \/ ScriptPickWinner(l)
                 \/ ScriptEnsureAtas(l) \/ ScriptTransaction(l)
                 \/ ScriptFails(l)

Next == \/ ProgramStep
        \/ DaemonStep \/ Misfortune \/ Signal \/ Exit
        \/ \E l \in ScriptTicks : ScriptStep(l)

Spec == Init /\ [][Next]_vars

(* Time passes, the daemon's timer fires, its requests are answered unless *)
(* they hang, and its exit timer fires.  Nothing is assumed of the script, *)
(* of traders or of whoever may declare an emergency.                      *)
FairSpec == Spec /\ WF_vars(Tick) /\ WF_vars(DaemonStep) /\ WF_vars(Exit)

-----------------------------------------------------------------------------
LoopType ==
  [pc : {"idle", "fetch", "next", "sample", "sideA", "sideB", "balances",
         "ata", "createAta", "resolve", "hung"},
   clock : Int, snap : [Markets -> [count : Nat, last : Nat]],
   todo : SUBSET Markets, cur : Markets,
   acc : [Side -> Nat], expected : Side,
   need : SUBSET (Markets \X {0, 1, wsol})]

TypeOK ==
  /\ now \in Nat
  /\ chain \in [Markets -> [resolved : BOOLEAN, winner : Side \cup {NoWinner},
                            count : Nat, last : Nat, acc : [Side -> Nat],
                            vault : [Side -> Nat]]]
  /\ atas \subseteq Markets \X {0, 1, wsol}
  /\ loop \in [Loops -> LoopType]
  /\ isProcessing \in BOOLEAN /\ isShuttingDown \in BOOLEAN
  /\ phase \in {"first", "polling", "exited"}
  /\ failures \in Nat

(* However many crankers race with stale snapshots, a market with a winner *)
(* was over, had half its samples and went to the side its final record    *)
(* puts ahead: the program rechecks what the cranker expects               *)
(* (resolve_and_graduate.rs:180-213).                                      *)
WinnerOfRecord ==
  \A m \in Markets :
    chain[m].winner # NoWinner =>
      /\ now >= Terms[m].deadline
      /\ chain[m].count >= MinSamples(Terms[m])
      /\ chain[m].winner = Leader(chain[m].acc, chain[m].count, chain[m].vault)

Decided(l) == loop[l].pc \in {"ata", "createAta", "resolve"}

(* The cranker decides on a sample count older than the accumulators it    *)
(* divides (cranker.ts:255-261), so its winner can be rejected.  A loop    *)
(* that started after the deadline cannot be wrong: nothing it read can    *)
(* have changed, and its arithmetic is the program's.                      *)
LateDecisionsExact ==
  \A l \in Loops :
    LET m == loop[l].cur IN
    Decided(l) /\ (\A d \in Skew : loop[l].clock - d > Terms[m].deadline) =>
      loop[l].expected = Leader(chain[m].acc, chain[m].count, chain[m].vault)

Graduable(m) == /\ now >= Terms[m].deadline
                /\ chain[m].count >= MinSamples(Terms[m])
                /\ Funded(m)

DaemonGone == isShuttingDown \/ phase = "exited" \/ loop[Daemon].pc = "hung"

(* Failed, lost and unconfirmed transactions, accounts somebody else       *)
(* created meanwhile and winners computed from stale data only delay the   *)
(* daemon: a market that can graduate is resolved in the end, unless the   *)
(* daemon is stopped or one of its requests is never answered.             *)
EventuallyCranked ==
  \A m \in Markets : Graduable(m) ~> (chain[m].resolved \/ DaemonGone)
=============================================================================
