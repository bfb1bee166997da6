------------------------------ MODULE Cranker ------------------------------
(***************************************************************************)
(* The production cranker (backend/src/cranker.ts): a daemon that polls    *)
(* every market, sends TWAP samples inside the window and resolve and      *)
(* graduate transactions after the deadline.  Every await is a step of its *)
(* own: the loop decides on a local clock and on snapshots that other      *)
(* crankers, traders and time go on changing.  The markets are the part of *)
(* the program the cranker reads and calls; Market.tla models it in full.  *)
(***************************************************************************)
EXTENDS Twap, FiniteSets

CONSTANTS Markets, Terms,          \* the markets and the terms of each
          MIN_GRADUATION_RESERVE, EMERGENCY_WINDOW, NoWinner,
          Daemon, ScriptTicks,     \* the invocations of crankerLoop
          Reserves,                \* what a quote vault can hold
          Skew,                    \* local clock minus cluster clock
          MaxTime, MaxFailures     \* bounds of the model

ASSUME CrankerAssumption ==
  /\ IsFiniteSet(Markets) /\ Markets # {} /\ Daemon \notin ScriptTicks
  /\ Terms \in [Markets -> [deadline : Nat, twap_window : Nat \ {0},
                            twap_interval : Nat \ {0}]]
  /\ Reserves \subseteq Nat /\ Skew \subseteq Int
  /\ MIN_GRADUATION_RESERVE \in Nat /\ EMERGENCY_WINDOW \in Nat
  /\ MaxTime \in Nat /\ MaxFailures \in Nat

Side == {0, 1}
Loops == {Daemon} \cup ScriptTicks
wsol == 2                          \* the market's wrapped SOL account

VARIABLES now,        \* the cluster's clock
          chain,      \* chain[m]: the accounts of market m
          atas,       \* the associated token accounts of market PDAs
          loop,       \* loop[l]: one invocation of crankerLoop
          isProcessing, isShuttingDown,
          phase,      \* main: the first tick, the poll interval, the end
          failures    \* requests that failed for no fault of the program's

chainVars == <<now, chain, atas>>
daemonVars == <<isProcessing, isShuttingDown, phase>>
vars == <<chainVars, loop, daemonVars, failures>>

Unseen == [count |-> 0, last |-> 0]
NoSnapshot == [m \in Markets |-> Unseen]
Zero == [s \in Side |-> 0]
Idle == [pc |-> "idle", clock |-> 0, snap |-> NoSnapshot, todo |-> {},
         cur |-> CHOOSE m \in Markets : TRUE,
         acc |-> Zero, expected |-> 0, need |-> {}]

Init ==
  /\ now = 1
  /\ chain = [m \in Markets |->
                [resolved |-> FALSE, winner |-> NoWinner, count |-> 0,
                 last |-> 0, acc |-> Zero, vault |-> Zero]]
  /\ atas = {}
  /\ loop = [l \in Loops |-> Idle]
  /\ isProcessing = FALSE /\ isShuttingDown = FALSE /\ phase = "first"
  /\ failures = 0

-----------------------------------------------------------------------------
(* The program, as far as crankers see it. *)

Tick == now < MaxTime /\ now' = now + 1
        /\ UNCHANGED <<chain, atas, loop, daemonVars, failures>>

(* Buys and sells move a side's reserve, and its price with it. *)
Trade(m) == /\ ~chain[m].resolved /\ now < Terms[m].deadline
            /\ \E s \in Side, r \in Reserves :
                 chain' = [chain EXCEPT ![m].vault[s] = r]
            /\ UNCHANGED <<now, atas, loop, daemonVars, failures>>

EmergencyResolve(m) ==
  /\ ~chain[m].resolved
  /\ now >= Terms[m].deadline + EMERGENCY_WINDOW
  /\ chain' = [chain EXCEPT ![m].resolved = TRUE]
  /\ UNCHANGED <<now, atas, loop, daemonVars, failures>>

SampleAccepted(m) == /\ ~chain[m].resolved
                     /\ InTwapWindow(Terms[m], now)
                     /\ IntervalElapsed(Terms[m], chain[m].last, now)

RecordTwapSample(m) ==
  chain' = [chain EXCEPT ![m].count = @ + 1, ![m].last = now,
                         ![m].acc = [s \in Side |-> @[s] + chain[m].vault[s]]]

(* Who leads a record of samples: the higher average, then the larger      *)
(* reserve, then side 0.                                                   *)
Leader(acc, count, vault) ==
  LET avg == [s \in Side |-> acc[s] \div count]
  IN  IF avg[0] # avg[1] THEN IF avg[0] > avg[1] THEN 0 ELSE 1
                         ELSE IF vault[0] >= vault[1] THEN 0 ELSE 1

Funded(m) == chain[m].vault[0] + chain[m].vault[1] >= MIN_GRADUATION_RESERVE

Resolvable(m) == /\ ~chain[m].resolved
                 /\ now >= Terms[m].deadline
                 /\ chain[m].count >= MinSamples(Terms[m])
                 /\ Funded(m)

(* mutant: the program takes the caller's word for the winner. *)
ResolveAcceptedOnTrust(m, expected) ==
  Resolvable(m) /\ {<<m, expected>>, <<m, wsol>>} \subseteq atas

ResolveAccepted(m, expected) ==
  /\ Resolvable(m)
  /\ expected = Leader(chain[m].acc, chain[m].count, chain[m].vault)
  /\ {<<m, expected>>, <<m, wsol>>} \subseteq atas

ResolveAndGraduate(m, expected) ==
  chain' = [chain EXCEPT ![m].resolved = TRUE, ![m].winner = expected]

-----------------------------------------------------------------------------
(* One invocation of crankerLoop.  pc names the request it awaits; todo    *)
(* are the markets of the snapshot it has not dealt with, and cur the one  *)
(* it is dealing with.                                                     *)

inTwapWindow(m, clock) == /\ clock >= Terms[m].deadline - Terms[m].twap_window
                          /\ clock <= Terms[m].deadline

intervalElapsed(m, last, clock) ==
  last = 0 \/ clock - last >= Terms[m].twap_interval

(* Math.floor(Math.max(1, window / interval) / 2) on floating point        *)
(* numbers: the quotient is not truncated before it is halved.             *)
minSamples(m) ==
  LET w == Terms[m].twap_window
      i == Terms[m].twap_interval
  IN  IF w >= i THEN AtLeastOne(w \div (2 * i)) ELSE 1

(* mutant: an exact tie has no winner. *)
determineExpectedWinnerNoTie(acc, count, vault) ==
  IF count = 0 THEN 0
  ELSE IF acc[0] \div count > acc[1] \div count THEN 0
  ELSE IF acc[1] \div count > acc[0] \div count THEN 1 ELSE NoWinner

determineExpectedWinner(acc, count, vault) ==
  IF count = 0 THEN 0
  ELSE IF acc[0] \div count > acc[1] \div count THEN 0
  ELSE IF acc[1] \div count > acc[0] \div count THEN 1
  ELSE IF vault[0] >= vault[1] THEN 0 ELSE 1

-----------------------------------------------------------------------------
(* The steps of an invocation.  An await that throws inside a market's     *)
(* block is logged and the loop goes on to the next market; the finally    *)
(* block releases the daemon's flag however the loop ends.                 *)

Others == UNCHANGED <<now, isShuttingDown>>
AtMarket(l) == loop[l].cur
Await(l, changed) == loop' = [loop EXCEPT ![l] = changed]
NextOne(l) == Await(l, [Idle EXCEPT !.pc = "next", !.clock = loop[l].clock,
                                    !.snap = loop[l].snap,
                                    !.todo = loop[l].todo \ {AtMarket(l)}])

(* mutant: the flag stays set when the loop returns early. *)
FinishKeepsFlag(l) == /\ Await(l, Idle)
                      /\ UNCHANGED <<isProcessing, phase>>

Finish(l) == /\ Await(l, Idle)
             /\ isProcessing' = IF l = Daemon THEN FALSE ELSE isProcessing
             /\ phase' = IF l = Daemon THEN "polling" ELSE phase

(* The poll timer fires; the call returns at once while another one is     *)
(* processing or the daemon is shutting down.                              *)
StartTick ==
  /\ ~isProcessing /\ ~isShuttingDown /\ phase # "exited"
  /\ isProcessing' = TRUE
  /\ \E d \in Skew : Await(Daemon, [Idle EXCEPT !.pc = "fetch",
                                                !.clock = now + d])
  /\ UNCHANGED <<now, chain, atas, isShuttingDown, phase, failures>>

(* program.account.market.all(), then the filter on the status. *)
FetchMarkets(l) ==
  /\ loop[l].pc = "fetch"
  /\ LET active == {m \in Markets : ~chain[m].resolved}
     IN  Await(l, [loop[l] EXCEPT
           !.pc = "next", !.todo = active,
           !.snap = [m \in Markets |->
                       IF m \in active THEN [count |-> chain[m].count,
                                             last |-> chain[m].last]
                                       ELSE Unseen]])
  /\ Others /\ UNCHANGED <<chain, atas, isProcessing, phase, failures>>

Stopping(l) == l = Daemon /\ isShuttingDown

WantsSample(l, m) == /\ inTwapWindow(m, loop[l].clock)
                     /\ intervalElapsed(m, loop[l].snap[m].last, loop[l].clock)

WantsResolve(l, m) == /\ loop[l].clock >= Terms[m].deadline
                      /\ loop[l].snap[m].count >= minSamples(m)

(* What to do with the next market is decided on the clock and on the      *)
(* snapshot alone, whatever the earlier markets' requests took.            *)
TakeMarket(l) ==
  /\ loop[l].pc = "next" /\ ~Stopping(l)
  /\ \E m \in loop[l].todo :
       Await(l, IF WantsSample(l, m)
                THEN [loop[l] EXCEPT !.pc = "sample", !.cur = m,
                                     !.snap[m] = Unseen]
                ELSE IF WantsResolve(l, m)
                THEN [loop[l] EXCEPT !.pc = "sideA", !.cur = m]
                ELSE [loop[l] EXCEPT !.todo = @ \ {m}, !.snap[m] = Unseen])
  /\ Others /\ UNCHANGED <<chain, atas, isProcessing, phase, failures>>

LoopEnds(l) == /\ loop[l].pc = "next" /\ (loop[l].todo = {} \/ Stopping(l))
               /\ Finish(l)
               /\ Others /\ UNCHANGED <<chain, atas, failures>>

(* mutant: the winner is picked before side B's accumulator is read. *)
ReadSideSkipsB(l) ==
  /\ loop[l].pc = "sideA"
  /\ Await(l, [loop[l] EXCEPT !.pc = "balances",
                              !.acc[0] = chain[AtMarket(l)].acc[0]])
  /\ Others /\ UNCHANGED <<chain, atas, isProcessing, phase, failures>>

(* The two sides are two requests: a sample may be taken in between. *)
ReadSide(l) ==
  /\ \/ /\ loop[l].pc = "sideA"
        /\ Await(l, [loop[l] EXCEPT !.pc = "sideB",
                                    !.acc[0] = chain[AtMarket(l)].acc[0]])
     \/ /\ loop[l].pc = "sideB"
        /\ Await(l, [loop[l] EXCEPT !.pc = "balances",
                                    !.acc[1] = chain[AtMarket(l)].acc[1]])
  /\ Others /\ UNCHANGED <<chain, atas, isProcessing, phase, failures>>

(* The vault balances arrive (one step: from the deadline on they do not   *)
(* change) and the winner is worked out, on the snapshot's sample count.   *)
PickWinner(l) ==
  /\ loop[l].pc = "balances"
  /\ LET m == AtMarket(l)
     IN  Await(l, [loop[l] EXCEPT !.pc = "ata", !.acc = Zero, !.snap[m] = Unseen,
           !.expected = determineExpectedWinner(
                          loop[l].acc, loop[l].snap[m].count, chain[m].vault)])
  /\ Others /\ UNCHANGED <<chain, atas, isProcessing, phase, failures>>

(* ensureAta, twice: accounts are never removed, so looking both up in one *)
(* step loses no outcome.                                                  *)
EnsureAtas(l) ==
  /\ loop[l].pc = "ata"
  /\ LET need == {<<AtMarket(l), loop[l].expected>>, <<AtMarket(l), wsol>>}
                   \ atas
     IN  Await(l, [loop[l] EXCEPT !.pc = IF need = {} THEN "resolve"
                                                     ELSE "createAta",
                                  !.need = need])
  /\ Others /\ UNCHANGED <<chain, atas, isProcessing, phase, failures>>

(* createAssociatedTokenAccount fails when the account exists. *)
CreateAccepted(l) == loop[l].need \cap atas = {}

TransactionAccepted(l) ==
  \/ loop[l].pc = "sample" /\ SampleAccepted(AtMarket(l))
  \/ loop[l].pc = "createAta" /\ CreateAccepted(l)
  \/ loop[l].pc = "resolve" /\ ResolveAccepted(AtMarket(l), loop[l].expected)

Execute(l) ==
  \/ /\ loop[l].pc = "sample"
     /\ RecordTwapSample(AtMarket(l)) /\ UNCHANGED atas
  \/ /\ loop[l].pc = "createAta"
     /\ atas' = atas \cup loop[l].need /\ UNCHANGED chain
  \/ /\ loop[l].pc = "resolve"
     /\ ResolveAndGraduate(AtMarket(l), loop[l].expected) /\ UNCHANGED atas

(* A transaction is executed and its confirmation arrives. *)
Confirmed(l) ==
  /\ TransactionAccepted(l) /\ Execute(l)
  /\ IF loop[l].pc = "createAta"
     THEN Await(l, [loop[l] EXCEPT !.pc = "resolve", !.need = {}])
     ELSE NextOne(l)
  /\ UNCHANGED <<now, daemonVars, failures>>

(* It is executed, and the confirmation times out: the caller sees an      *)
(* error.                                                                  *)
Unconfirmed(l) ==
  /\ failures < MaxFailures /\ failures' = failures + 1
  /\ TransactionAccepted(l) /\ Execute(l) /\ NextOne(l)
  /\ Others /\ UNCHANGED <<isProcessing, phase>>

Transacting(l) == loop[l].pc \in {"sample", "createAta", "resolve"}
Awaiting(l) == loop[l].pc \notin {"idle", "next", "hung"}

(* The program rejects the transaction. *)
Rejected(l) == /\ Transacting(l) /\ ~TransactionAccepted(l)
               /\ NextOne(l)
               /\ Others /\ UNCHANGED <<chain, atas, isProcessing, phase,
                                        failures>>

(* The endpoint fails the request; without the list of markets there is    *)
(* nothing to go on with.                                                  *)
RequestFails(l) ==
  /\ Awaiting(l) /\ failures < MaxFailures /\ failures' = failures + 1
  /\ IF loop[l].pc = "fetch" THEN Finish(l)
                             ELSE NextOne(l) /\ UNCHANGED <<isProcessing, phase>>
  /\ Others /\ UNCHANGED <<chain, atas>>

(* No request has a timeout: one that is never answered holds the loop     *)
(* for good.                                                               *)
RequestHangs(l) ==
  /\ Awaiting(l) /\ failures < MaxFailures /\ failures' = failures + 1
  /\ Await(l, [Idle EXCEPT !.pc = "hung"])
  /\ Others /\ UNCHANGED <<chain, atas, isProcessing, phase>>

LoopStep(l) == \/ FetchMarkets(l) \/ TakeMarket(l) \/ LoopEnds(l)
               \/ ReadSide(l) \/ PickWinner(l) \/ EnsureAtas(l)
               \/ Confirmed(l) \/ Rejected(l)

Misfortune == \/ Unconfirmed(Daemon) \/ RequestFails(Daemon)
              \/ RequestHangs(Daemon)

-----------------------------------------------------------------------------
(* The daemon's signals.  The handlers are installed only after the first  *)
(* tick: until then a signal ends the process where it stands.             *)
Signal ==
  /\ phase # "exited" /\ ~isShuttingDown
  /\ \/ /\ phase = "first" /\ phase' = "exited" /\ Await(Daemon, Idle)
        /\ UNCHANGED isShuttingDown
     \/ /\ phase = "polling" /\ isShuttingDown' = TRUE
        /\ UNCHANGED <<phase, loop>>
  /\ UNCHANGED <<chainVars, isProcessing, failures>>

(* The daemon leaves when the loop is done or ten seconds have passed,     *)
(* whatever request is still open then.                                    *)
Exit ==
  /\ isShuttingDown /\ phase # "exited"
  /\ phase' = "exited" /\ Await(Daemon, Idle)
  /\ UNCHANGED <<chainVars, isProcessing, isShuttingDown, failures>>

ProgramStep == Tick \/ \E m \in Markets : Trade(m) \/ EmergencyResolve(m)
DaemonStep == StartTick \/ LoopStep(Daemon)
=============================================================================
