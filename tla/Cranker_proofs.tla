--------------------------- MODULE Cranker_proofs ---------------------------
(***************************************************************************)
(* The safety of the crankers, for every set of markets, of overlapping    *)
(* script ticks, of clock skews and of reserves.                           *)
(***************************************************************************)
EXTENDS ScriptCranker, TLAPS

LEMMA MinSamplesOfTerms ==
  ASSUME NEW m \in Markets
  PROVE  /\ Terms[m].deadline \in Nat /\ Terms[m].twap_window \in Nat
         /\ Terms[m].twap_interval \in Nat \ {0}
         /\ MinSamples(Terms[m]) \in Nat \ {0}
         /\ minSamples(m) \in Nat \ {0}
<1>1. /\ Terms[m].deadline \in Nat /\ Terms[m].twap_window \in Nat
      /\ Terms[m].twap_interval \in Nat \ {0}
  BY CrankerAssumption
<1>2. \A n \in Int : AtLeastOne(n) \in Nat \ {0}
  BY DEF AtLeastOne
<1>3. \A w \in Nat, i \in Nat \ {0} : w \div i \in Int /\ w \div (2 * i) \in Int
  OBVIOUS
<1> QED
  BY <1>1, <1>2, <1>3 DEF MinSamples, minSamples

-----------------------------------------------------------------------------
(* Types. *)

LEMMA IdleTyped == Idle \in LoopType /\ Idle.pc = "idle"
<1>1. (CHOOSE m \in Markets : TRUE) \in Markets
  BY CrankerAssumption
<1> QED
  BY <1>1 DEF Idle, LoopType, NoSnapshot, Unseen, Zero, Side, wsol

LEMMA AwaitTyped ==
  ASSUME NEW l \in Loops, NEW new \in LoopType,
         loop \in [Loops -> LoopType], Await(l, new)
  PROVE  loop' \in [Loops -> LoopType]
BY DEF Await

LEMMA NextOneTyped ==
  ASSUME NEW l \in Loops, loop \in [Loops -> LoopType], NextOne(l)
  PROVE  loop' \in [Loops -> LoopType]
<1>1. [Idle EXCEPT !.pc = "next", !.clock = loop[l].clock,
                   !.snap = loop[l].snap,
                   !.todo = loop[l].todo \ {AtMarket(l)}] \in LoopType
  BY IdleTyped DEF LoopType
<1> QED
  BY <1>1, AwaitTyped DEF NextOne

LEMMA DecisionTyped ==
  ASSUME NEW acc \in [Side -> Nat], NEW count \in Nat,
         NEW vault \in [Side -> Nat]
  PROVE  determineExpectedWinner(acc, count, vault) \in Side
BY DEF determineExpectedWinner, Side

LEMMA LoopStepTyped ==
  ASSUME TypeOK, NEW l \in Loops, LoopStep(l)
  PROVE  loop' \in [Loops -> LoopType]
<1> DEFINE Inv == loop \in [Loops -> LoopType]
<1>0. Inv /\ loop[l] \in LoopType
  BY DEF TypeOK
<1>1. CASE FetchMarkets(l)
  <2> DEFINE active == {m \in Markets : ~chain[m].resolved}
             seen == [m \in Markets |->
                        IF m \in active THEN [count |-> chain[m].count,
                                              last |-> chain[m].last]
                                        ELSE Unseen]
  <2>1. seen \in [Markets -> [count : Nat, last : Nat]]
    BY DEF TypeOK, Unseen
  <2>2. [loop[l] EXCEPT !.pc = "next", !.todo = active, !.snap = seen] \in LoopType
    BY <1>0, <2>1 DEF LoopType
  <2> QED
    BY <1>0, <1>1, <2>2, AwaitTyped DEF FetchMarkets
<1>2. CASE TakeMarket(l)
  <2>1. PICK m \in loop[l].todo :
          Await(l, IF WantsSample(l, m)
                   THEN [loop[l] EXCEPT !.pc = "sample", !.cur = m,
                                        !.snap[m] = Unseen]
                   ELSE IF WantsResolve(l, m)
                   THEN [loop[l] EXCEPT !.pc = "sideA", !.cur = m]
                   ELSE [loop[l] EXCEPT !.todo = @ \ {m}, !.snap[m] = Unseen])
    BY <1>2 DEF TakeMarket
  <2>2. m \in Markets
    BY <1>0 DEF LoopType
  <2>3. /\ [loop[l] EXCEPT !.pc = "sample", !.cur = m, !.snap[m] = Unseen] \in LoopType
        /\ [loop[l] EXCEPT !.pc = "sideA", !.cur = m] \in LoopType
        /\ [loop[l] EXCEPT !.todo = @ \ {m}, !.snap[m] = Unseen] \in LoopType
    BY <1>0, <2>2 DEF LoopType, Unseen
  <2> QED
    BY <1>0, <2>1, <2>3, AwaitTyped
<1>3. CASE LoopEnds(l)
  BY <1>0, <1>3, IdleTyped, AwaitTyped DEF LoopEnds, Finish
<1>4. CASE ReadSide(l)
  <2>1. chain[AtMarket(l)].acc \in [Side -> Nat]
    BY <1>0 DEF TypeOK, LoopType, AtMarket
  <2>2. /\ [loop[l] EXCEPT !.pc = "sideB",
                           !.acc[0] = chain[AtMarket(l)].acc[0]] \in LoopType
        /\ [loop[l] EXCEPT !.pc = "balances",
                           !.acc[1] = chain[AtMarket(l)].acc[1]] \in LoopType
    BY <1>0, <2>1 DEF LoopType, Side
  <2> QED
    BY <1>0, <1>4, <2>2, AwaitTyped DEF ReadSide
<1>5. CASE PickWinner(l)
  <2> DEFINE m == AtMarket(l)
             winner == determineExpectedWinner(loop[l].acc, loop[l].snap[m].count,
                                               chain[m].vault)
  <2>1. m \in Markets /\ loop[l].acc \in [Side -> Nat]
        /\ loop[l].snap[m].count \in Nat /\ chain[m].vault \in [Side -> Nat]
    BY <1>0 DEF TypeOK, LoopType, AtMarket
  <2>2. winner \in Side
    BY <2>1, DecisionTyped
  <2>3. [loop[l] EXCEPT !.pc = "ata", !.acc = Zero, !.snap[m] = Unseen,
                        !.expected = winner] \in LoopType
    <3> HIDE DEF winner
    <3> QED
      BY <1>0, <2>1, <2>2 DEF LoopType, Unseen, Zero
  <2> QED
    BY <1>0, <1>5, <2>3, AwaitTyped DEF PickWinner
<1>6. CASE EnsureAtas(l)
  <2> DEFINE need == {<<AtMarket(l), loop[l].expected>>, <<AtMarket(l), wsol>>}
                       \ atas
  <2>1. need \in SUBSET (Markets \X {0, 1, wsol})
    BY <1>0 DEF LoopType, AtMarket, Side
  <2>2. [loop[l] EXCEPT !.pc = IF need = {} THEN "resolve" ELSE "createAta",
                        !.need = need] \in LoopType
    BY <1>0, <2>1 DEF LoopType
  <2> QED
    BY <1>0, <1>6, <2>2, AwaitTyped DEF EnsureAtas
<1>7. CASE Confirmed(l)
  <2>1. [loop[l] EXCEPT !.pc = "resolve", !.need = {}] \in LoopType
    BY <1>0 DEF LoopType
  <2> QED
    BY <1>0, <1>7, <2>1, AwaitTyped, NextOneTyped DEF Confirmed
<1>8. CASE Rejected(l)
  BY <1>0, <1>8, NextOneTyped DEF Rejected
<1> QED
  BY <1>1, <1>2, <1>3, <1>4, <1>5, <1>6, <1>7, <1>8 DEF LoopStep

LEMMA LoopsTyped ==
  ASSUME TypeOK, Next
  PROVE  loop' \in [Loops -> LoopType]
<1>0. loop \in [Loops -> LoopType] /\ Daemon \in Loops
  BY DEF TypeOK, Loops
<1>1. ASSUME NEW l \in Loops, NEW d \in Skew,
             Await(l, [Idle EXCEPT !.pc = "fetch", !.clock = now + d])
      PROVE  loop' \in [Loops -> LoopType]
  <2>1. now + d \in Int
    BY CrankerAssumption DEF TypeOK
  <2>2. [Idle EXCEPT !.pc = "fetch", !.clock = now + d] \in LoopType
    BY <2>1, IdleTyped DEF LoopType
  <2> QED
    BY <1>0, <1>1, <2>2, AwaitTyped
<1>2. ASSUME NEW l \in Loops, Await(l, Idle) \/ NextOne(l)
      PROVE  loop' \in [Loops -> LoopType]
  BY <1>0, <1>2, IdleTyped, AwaitTyped, NextOneTyped
<1>3. [Idle EXCEPT !.pc = "hung"] \in LoopType
  BY IdleTyped DEF LoopType
<1>4. CASE ProgramStep
  BY <1>0, <1>4 DEF ProgramStep, Tick, Trade, EmergencyResolve
<1>5. CASE DaemonStep
  BY <1>0, <1>1, <1>5, LoopStepTyped DEF DaemonStep, StartTick
<1>6. CASE Misfortune
  BY <1>0, <1>2, <1>3, <1>6, AwaitTyped
     DEF Misfortune, Unconfirmed, RequestFails, RequestHangs, Finish
<1>7. CASE Signal \/ Exit
  BY <1>0, <1>2, <1>7 DEF Signal, Exit
<1>8. ASSUME NEW l \in ScriptTicks, ScriptStep(l)
      PROVE  loop' \in [Loops -> LoopType]
  <2>0. l \in Loops
    BY DEF Loops
  <2>1. CASE StartScriptTick(l)
    BY <1>1, <2>0, <2>1 DEF StartScriptTick
  <2>2. CASE ScriptFails(l)
    BY <1>2, <2>0, <2>2 DEF ScriptFails, Finish
  <2>3. CASE ~StartScriptTick(l) /\ ~ScriptFails(l)
    BY <1>8, <2>0, <2>3, LoopStepTyped
       DEF ScriptStep, ScriptFetch, ScriptTakeMarket, ScriptPickWinner,
           ScriptEnsureAtas, ScriptTransaction, LoopStep
  <2> QED
    BY <2>1, <2>2, <2>3
<1> QED
  BY <1>4, <1>5, <1>6, <1>7, <1>8 DEF Next

-----------------------------------------------------------------------------
(* What may happen to the markets, whoever acts and whatever it knew.      *)

ChainMove(m) ==
  \/ ~chain[m].resolved /\ now < Terms[m].deadline
     /\ \E s \in Side, r \in Reserves : chain' = [chain EXCEPT ![m].vault[s] = r]
  \/ ~chain[m].resolved /\ chain' = [chain EXCEPT ![m].resolved = TRUE]
  \/ SampleAccepted(m) /\ RecordTwapSample(m)
  \/ \E s \in Side : ResolveAccepted(m, s) /\ ResolveAndGraduate(m, s)

LEMMA TransactionMoves ==
  ASSUME TypeOK, NEW l \in Loops, TransactionAccepted(l), Execute(l)
  PROVE  /\ chain' = chain \/ \E m \in Markets : ChainMove(m)
         /\ atas' \subseteq Markets \X {0, 1, wsol}
<1>1. /\ AtMarket(l) \in Markets /\ loop[l].expected \in Side
      /\ loop[l].need \subseteq Markets \X {0, 1, wsol}
      /\ atas \subseteq Markets \X {0, 1, wsol}
  BY DEF TypeOK, LoopType, AtMarket
<1>2. CASE loop[l].pc = "sample"
  BY <1>1, <1>2 DEF TransactionAccepted, Execute, ChainMove
<1>3. CASE loop[l].pc = "createAta"
  BY <1>1, <1>3 DEF TransactionAccepted, Execute
<1>4. CASE loop[l].pc = "resolve"
  BY <1>1, <1>4 DEF TransactionAccepted, Execute, ChainMove
<1> QED
  BY <1>2, <1>3, <1>4 DEF TransactionAccepted

LEMMA ChainMoves ==
  ASSUME TypeOK, [Next]_vars
  PROVE  /\ now' = now \/ now' = now + 1
         /\ atas' \subseteq Markets \X {0, 1, wsol}
         /\ chain' = chain \/ (now' = now /\ \E m \in Markets : ChainMove(m))
<1>0. Daemon \in Loops /\ atas \subseteq Markets \X {0, 1, wsol}
  BY DEF TypeOK, Loops
<1>1. CASE UNCHANGED vars
  BY <1>0, <1>1 DEF vars, chainVars
<1>2. CASE ProgramStep
  BY <1>0, <1>2 DEF ProgramStep, Tick, Trade, EmergencyResolve, ChainMove
<1>3. ASSUME NEW l \in Loops, LoopStep(l) \/ Unconfirmed(l)
      PROVE  /\ now' = now
             /\ atas' \subseteq Markets \X {0, 1, wsol}
             /\ chain' = chain \/ \E m \in Markets : ChainMove(m)
  <2>1. CASE Confirmed(l) \/ Unconfirmed(l)
    BY <2>1, TransactionMoves DEF Confirmed, Unconfirmed, Others
  <2>2. CASE ~Confirmed(l) /\ ~Unconfirmed(l)
    BY <1>0, <1>3, <2>2
       DEF LoopStep, FetchMarkets, TakeMarket, LoopEnds, ReadSide, PickWinner,
           EnsureAtas, Rejected, Others
  <2> QED
    BY <2>1, <2>2
<1>4. CASE DaemonStep \/ Misfortune
  BY <1>0, <1>3, <1>4
     DEF DaemonStep, StartTick, Misfortune, RequestFails, RequestHangs, Others
<1>5. CASE Signal \/ Exit
  BY <1>0, <1>5 DEF Signal, Exit, chainVars
<1>6. ASSUME NEW l \in ScriptTicks, ScriptStep(l)
      PROVE  /\ now' = now
             /\ atas' \subseteq Markets \X {0, 1, wsol}
             /\ chain' = chain \/ \E m \in Markets : ChainMove(m)
  <2>1. CASE StartScriptTick(l) \/ ScriptFails(l)
    BY <1>0, <2>1 DEF StartScriptTick, ScriptFails, Others, chainVars
  <2>2. CASE ~StartScriptTick(l) /\ ~ScriptFails(l)
    BY <1>3, <1>6, <2>2
       DEF ScriptStep, ScriptFetch, ScriptTakeMarket, ScriptPickWinner,
           ScriptEnsureAtas, ScriptTransaction, LoopStep, Loops
  <2> QED
    BY <2>1, <2>2
<1> QED
  BY <1>1, <1>2, <1>4, <1>5, <1>6 DEF Next

(* A market nobody has resolved has no winner; the winner of one that was  *)
(* agrees with accounts that no step can change any more.                  *)
WinnerNeedsResolution ==
  \A m \in Markets : chain[m].winner # NoWinner => chain[m].resolved

RecordInv == TypeOK /\ WinnerNeedsResolution /\ WinnerOfRecord

LEMMA ChainMoveTyped ==
  ASSUME TypeOK, NEW m \in Markets, ChainMove(m)
  PROVE  /\ chain' = [chain EXCEPT ![m] = chain'[m]]
         /\ chain'[m] \in [resolved : BOOLEAN, winner : Side \cup {NoWinner},
                           count : Nat, last : Nat, acc : [Side -> Nat],
                           vault : [Side -> Nat]]
<1> DEFINE Account == [resolved : BOOLEAN, winner : Side \cup {NoWinner},
                       count : Nat, last : Nat, acc : [Side -> Nat],
                       vault : [Side -> Nat]]
<1>1. chain[m] \in Account /\ chain \in [Markets -> Account] /\ now \in Nat
  BY DEF TypeOK
<1>2. ASSUME NEW s \in Side, NEW r \in Reserves,
             chain' = [chain EXCEPT ![m].vault[s] = r]
      PROVE  chain' = [chain EXCEPT ![m] = chain'[m]] /\ chain'[m] \in Account
  <2>1. r \in Nat
    BY CrankerAssumption
  <2> QED
    BY <1>1, <1>2, <2>1
<1>3. CASE chain' = [chain EXCEPT ![m].resolved = TRUE]
  BY <1>1, <1>3
<1>4. CASE RecordTwapSample(m)
  <2> DEFINE sums == [s \in Side |-> chain[m].acc[s] + chain[m].vault[s]]
             new == [chain[m] EXCEPT !.count = @ + 1, !.last = now, !.acc = sums]
  <2>1. sums \in [Side -> Nat]
    BY <1>1
  <2>2. new \in Account
    <3> HIDE DEF sums
    <3>1. \A a \in Account, n \in Nat, x \in [Side -> Nat] :
            /\ [a EXCEPT !.count = n] \in Account
            /\ [a EXCEPT !.last = n] \in Account
            /\ [a EXCEPT !.acc = x] \in Account
      OBVIOUS
    <3>2. chain[m].count + 1 \in Nat
      BY <1>1
    <3> HIDE DEF Account
    <3> QED
      BY <1>1, <2>1, <3>1, <3>2
  <2>3. chain' = [chain EXCEPT ![m] = new]
    <3> HIDE DEF sums
    <3>1. chain' = [chain EXCEPT ![m].count = @ + 1, ![m].last = now,
                                 ![m].acc = sums]
      BY <1>4 DEF RecordTwapSample, sums
    <3> QED
      BY <1>1, <3>1
  <2> QED
    BY <1>1, <2>2, <2>3
<1>5. ASSUME NEW s \in Side, ResolveAndGraduate(m, s)
      PROVE  chain' = [chain EXCEPT ![m] = chain'[m]] /\ chain'[m] \in Account
  BY <1>1, <1>5 DEF ResolveAndGraduate
<1> QED
  BY <1>2, <1>3, <1>4, <1>5 DEF ChainMove

LEMMA TypesKept ==
  ASSUME TypeOK, [Next]_vars
  PROVE  TypeOK'
<1>1. CASE UNCHANGED vars
  BY <1>1 DEF TypeOK, vars, chainVars, daemonVars
<1>2. CASE Next
  <2>1. loop' \in [Loops -> LoopType]
    BY <1>2, LoopsTyped
  <2>2. now' \in Nat /\ atas' \subseteq Markets \X {0, 1, wsol}
    BY ChainMoves DEF TypeOK
  <2>3. chain' \in [Markets ->
                      [resolved : BOOLEAN, winner : Side \cup {NoWinner},
                       count : Nat, last : Nat, acc : [Side -> Nat],
                       vault : [Side -> Nat]]]
    BY ChainMoves, ChainMoveTyped DEF TypeOK
  <2> DEFINE Flags == /\ isProcessing \in BOOLEAN /\ isShuttingDown \in BOOLEAN
                      /\ phase \in {"first", "polling", "exited"}
                      /\ failures \in Nat
  <2>4. Flags'
    <3>1. Flags
      BY DEF TypeOK
    <3>2. CASE ProgramStep \/ Signal \/ Exit
      BY <3>1, <3>2 DEF ProgramStep, Tick, Trade, EmergencyResolve, Signal,
                        Exit, daemonVars
    <3>3. ASSUME NEW l \in Loops, LoopStep(l)
          PROVE  Flags'
      BY <3>1, <3>3 DEF LoopStep, FetchMarkets, TakeMarket, LoopEnds, ReadSide,
                        PickWinner, EnsureAtas, Confirmed, Rejected, Others,
                        Finish, daemonVars
    <3>4. CASE DaemonStep \/ Misfortune
      <4>1. CASE StartTick
        BY <3>1, <4>1 DEF StartTick
      <4>2. CASE LoopStep(Daemon)
        BY <3>3, <4>2 DEF Loops
      <4>3. CASE Misfortune
        <5>1. failures' = failures + 1
          BY <4>3 DEF Misfortune, Unconfirmed, RequestFails, RequestHangs
        <5>2. isShuttingDown' = isShuttingDown
          BY <4>3 DEF Misfortune, Unconfirmed, RequestFails, RequestHangs, Others
        <5>3. \/ isProcessing' = FALSE /\ phase' = "polling"
              \/ isProcessing' = isProcessing /\ phase' = phase
          BY <4>3 DEF Misfortune, Unconfirmed, RequestFails, RequestHangs, Finish
        <5>4. failures' \in Nat
          BY <3>1, <5>1
        <5> QED
          BY <3>1, <5>2, <5>3, <5>4, Zenon
      <4> QED
        BY <3>4, <4>1, <4>2, <4>3 DEF DaemonStep
    <3>5. ASSUME NEW l \in ScriptTicks, ScriptStep(l)
          PROVE  Flags'
      BY <3>1, <3>3, <3>5
         DEF ScriptStep, StartScriptTick, ScriptFails, ScriptFetch,
             ScriptTakeMarket, ScriptPickWinner, ScriptEnsureAtas,
             ScriptTransaction, LoopStep, Loops, Others, Finish, daemonVars
    <3> QED
      BY <1>2, <3>2, <3>4, <3>5 DEF Next
  <2> QED
    BY <2>1, <2>2, <2>3, <2>4 DEF TypeOK
<1> QED
  BY <1>1, <1>2

LEMMA RecordInit == Init => RecordInv
<1> SUFFICES ASSUME Init PROVE RecordInv
  OBVIOUS
<1>1. TypeOK
  BY IdleTyped DEF Init, TypeOK, Zero
<1>2. \A m \in Markets : chain[m].winner = NoWinner
  BY DEF Init
<1> QED
  BY <1>1, <1>2 DEF RecordInv, WinnerNeedsResolution, WinnerOfRecord

LEMMA RecordKept ==
  ASSUME RecordInv, [Next]_vars
  PROVE  RecordInv'
<1>1. TypeOK /\ TypeOK'
  BY TypesKept DEF RecordInv
<1>2. now' >= now /\ now \in Nat /\ now' \in Nat
  BY <1>1, ChainMoves DEF TypeOK
<1>3. ASSUME NEW m \in Markets, chain[m].winner # NoWinner, chain'[m] = chain[m]
      PROVE  /\ chain'[m].resolved
             /\ now' >= Terms[m].deadline
             /\ chain'[m].count >= MinSamples(Terms[m])
             /\ chain'[m].winner
                  = Leader(chain'[m].acc, chain'[m].count, chain'[m].vault)
  BY <1>2, <1>3, MinSamplesOfTerms
     DEF RecordInv, WinnerNeedsResolution, WinnerOfRecord
<1>4. ASSUME NEW m \in Markets, ChainMove(m), now' = now
      PROVE  \A k \in Markets : chain'[k].winner # NoWinner =>
               /\ chain'[k].resolved
               /\ now' >= Terms[k].deadline
               /\ chain'[k].count >= MinSamples(Terms[k])
               /\ chain'[k].winner
                    = Leader(chain'[k].acc, chain'[k].count, chain'[k].vault)
  <2> SUFFICES ASSUME NEW k \in Markets, chain'[k].winner # NoWinner
               PROVE  /\ chain'[k].resolved
                      /\ now' >= Terms[k].deadline
                      /\ chain'[k].count >= MinSamples(Terms[k])
                      /\ chain'[k].winner
                           = Leader(chain'[k].acc, chain'[k].count,
                                    chain'[k].vault)
    OBVIOUS
  <2>1. CASE k # m
    <3>1. chain'[k] = chain[k]
      BY <1>1, <1>4, <2>1, ChainMoveTyped DEF TypeOK
    <3> QED
      BY <1>3, <3>1
  <2>2. CASE k = m
    <3>1. chain[m].resolved = FALSE /\ chain[m].winner = NoWinner
      BY <1>1, <1>4 DEF ChainMove, SampleAccepted, ResolveAccepted, Resolvable,
                        RecordInv, WinnerNeedsResolution, TypeOK
    <3>2. chain'[m].winner = NoWinner \/
            \E s \in Side : ResolveAccepted(m, s) /\ ResolveAndGraduate(m, s)
      BY <1>1, <1>4, <3>1 DEF ChainMove, RecordTwapSample, TypeOK
    <3>3. PICK s \in Side : ResolveAccepted(m, s) /\ ResolveAndGraduate(m, s)
      BY <2>2, <3>2
    <3>4. /\ chain'[m].resolved /\ chain'[m].winner = s
          /\ chain'[m].count = chain[m].count
          /\ chain'[m].acc = chain[m].acc /\ chain'[m].vault = chain[m].vault
      BY <1>1, <3>3 DEF ResolveAndGraduate, TypeOK
    <3> QED
      BY <1>4, <2>2, <3>3, <3>4 DEF ResolveAccepted, Resolvable
  <2> QED
    BY <2>1, <2>2
<1>5. CASE chain' = chain
  BY <1>1, <1>3, <1>5 DEF RecordInv, WinnerNeedsResolution, WinnerOfRecord
<1>6. CASE chain' # chain
  <2>1. PICK m \in Markets : ChainMove(m) /\ now' = now
    BY <1>1, <1>6, ChainMoves
  <2> QED
    BY <1>1, <1>4, <2>1 DEF RecordInv, WinnerNeedsResolution, WinnerOfRecord
<1> QED
  BY <1>5, <1>6

LEMMA RecordInvariant == Spec => []RecordInv
<1>1. RecordInv /\ [Next]_vars => RecordInv'
  BY RecordKept
<1> QED
  BY <1>1, RecordInit, PTL DEF Spec

(* Whatever invocations of crankerLoop overlap, the daemon, the script and *)
(* the accounts keep their types (cranker.ts:167-383).                     *)
THEOREM CrankerTypes == Spec => []TypeOK
<1>1. RecordInv => TypeOK
  BY DEF RecordInv
<1> QED
  BY <1>1, RecordInvariant, PTL

(* However many crankers race with stale snapshots and skewed clocks, a    *)
(* market with a winner was over, had enough samples and went to the side  *)
(* its final record puts ahead (resolve_and_graduate.rs:180-213).          *)
THEOREM CrankerWinnerOfRecord == Spec => []WinnerOfRecord
<1>1. RecordInv => WinnerOfRecord
  BY DEF RecordInv
<1> QED
  BY <1>1, RecordInvariant, PTL

-----------------------------------------------------------------------------
(* Decisions of a loop that started after the deadline: the clock it works *)
(* on lies in the past, the accounts it reads are frozen, and what it has  *)
(* noted down about them stays true.                                       *)

Running(l) == loop[l].pc \notin {"idle", "hung"}
Late(l, m) == \A d \in Skew : loop[l].clock - d > Terms[m].deadline
CountKnown(l, m) == loop[l].snap[m].count = chain[m].count

ClockPast ==
  \A l \in Loops : Running(l) => \E d \in Skew : loop[l].clock - d <= now

TodoKnown(l) ==
  loop[l].pc \notin {"idle", "hung", "fetch"} =>
    \A m \in loop[l].todo :
      (loop[l].pc = "next" \/ m # loop[l].cur) /\ Late(l, m) => CountKnown(l, m)

NotesTrue(l) ==
  LET m == loop[l].cur IN
  Late(l, m) =>
    /\ loop[l].pc \in {"sideA", "sideB", "balances"} =>
         CountKnown(l, m) /\ chain[m].count > 0
    /\ loop[l].pc \in {"sideB", "balances"} => loop[l].acc[0] = chain[m].acc[0]
    /\ loop[l].pc = "balances" => loop[l].acc[1] = chain[m].acc[1]
    /\ Decided(l) =>
         loop[l].expected = Leader(chain[m].acc, chain[m].count, chain[m].vault)

LateInv == /\ TypeOK /\ ClockPast
           /\ \A l \in Loops : TodoKnown(l) /\ NotesTrue(l)

(* What one step does to the invocation that takes it.                     *)
LoopMove(l) ==
  \/ loop'[l].pc \in {"idle", "hung"}
  \/ \E d \in Skew : loop'[l] = [Idle EXCEPT !.pc = "fetch", !.clock = now + d]
  \/ FetchMarkets(l) \/ TakeMarket(l) \/ ReadSide(l) \/ PickWinner(l)
  \/ EnsureAtas(l)
  \/ loop[l].pc = "createAta"
     /\ loop'[l] = [loop[l] EXCEPT !.pc = "resolve", !.need = {}]
  \/ loop[l].pc \notin {"idle", "next", "hung", "fetch"} /\ NextOne(l)

OnlyMoves(l) == LoopMove(l) /\ \A k \in Loops \ {l} : loop'[k] = loop[k]

LEMMA AwaitMoves ==
  ASSUME loop \in [Loops -> LoopType], NEW l \in Loops, NEW new, Await(l, new)
  PROVE  loop'[l] = new /\ \A k \in Loops \ {l} : loop'[k] = loop[k]
BY DEF Await

LEMMA LoopStepMoves ==
  ASSUME TypeOK, NEW l \in Loops, LoopStep(l)
  PROVE  OnlyMoves(l)
<1>0. loop \in [Loops -> LoopType] /\ Idle.pc = "idle"
  BY IdleTyped DEF TypeOK
<1>1. CASE FetchMarkets(l)
  BY <1>0, <1>1, AwaitMoves DEF FetchMarkets, OnlyMoves, LoopMove
<1>2. CASE TakeMarket(l)
  BY <1>0, <1>2, AwaitMoves DEF TakeMarket, OnlyMoves, LoopMove
<1>3. CASE LoopEnds(l)
  BY <1>0, <1>3, AwaitMoves DEF LoopEnds, Finish, OnlyMoves, LoopMove
<1>4. CASE ReadSide(l)
  BY <1>0, <1>4, AwaitMoves DEF ReadSide, OnlyMoves, LoopMove
<1>5. CASE PickWinner(l)
  BY <1>0, <1>5, AwaitMoves DEF PickWinner, OnlyMoves, LoopMove
<1>6. CASE EnsureAtas(l)
  BY <1>0, <1>6, AwaitMoves DEF EnsureAtas, OnlyMoves, LoopMove
<1>7. CASE Confirmed(l)
  <2>1. loop[l].pc \in {"sample", "createAta", "resolve"}
    BY <1>7 DEF Confirmed, TransactionAccepted
  <2>2. CASE loop[l].pc = "createAta"
    BY <1>0, <1>7, <2>2, AwaitMoves DEF Confirmed, OnlyMoves, LoopMove
  <2>3. CASE loop[l].pc # "createAta"
    <3>1. NextOne(l)
      BY <1>7, <2>3 DEF Confirmed
    <3>2. \A k \in Loops \ {l} : loop'[k] = loop[k]
      BY <1>0, <3>1, AwaitMoves DEF NextOne
    <3> QED
      BY <2>1, <3>1, <3>2 DEF OnlyMoves, LoopMove
  <2> QED
    BY <2>2, <2>3
<1>8. CASE Rejected(l)
  BY <1>0, <1>8, AwaitMoves DEF Rejected, Transacting, NextOne, OnlyMoves, LoopMove
<1> QED
  BY <1>1, <1>2, <1>3, <1>4, <1>5, <1>6, <1>7, <1>8 DEF LoopStep

LEMMA LoopMoves ==
  ASSUME TypeOK, [Next]_vars
  PROVE  loop' = loop \/ \E l \in Loops : OnlyMoves(l)
<1>0. loop \in [Loops -> LoopType] /\ Idle.pc = "idle" /\ Daemon \in Loops
  BY IdleTyped DEF TypeOK, Loops
<1>1. CASE UNCHANGED vars \/ ProgramStep
  BY <1>1 DEF vars, ProgramStep, Tick, Trade, EmergencyResolve
<1>2. ASSUME NEW l \in Loops, Await(l, Idle) PROVE OnlyMoves(l)
  BY <1>0, <1>2, AwaitMoves DEF OnlyMoves, LoopMove
<1>3. ASSUME NEW l \in Loops, NEW d \in Skew,
             Await(l, [Idle EXCEPT !.pc = "fetch", !.clock = now + d])
      PROVE  OnlyMoves(l)
  BY <1>0, <1>3, AwaitMoves DEF OnlyMoves, LoopMove
<1>4. ASSUME NEW l \in Loops, NextOne(l),
             loop[l].pc \notin {"idle", "next", "hung", "fetch"}
      PROVE  OnlyMoves(l)
  BY <1>0, <1>4, AwaitMoves DEF NextOne, OnlyMoves, LoopMove
<1>5. CASE DaemonStep
  BY <1>0, <1>3, <1>5, LoopStepMoves DEF DaemonStep, StartTick
<1>6. CASE Misfortune
  <2>1. CASE Unconfirmed(Daemon)
    BY <1>0, <1>4, <2>1 DEF Unconfirmed, TransactionAccepted
  <2>2. CASE RequestFails(Daemon)
    BY <1>0, <1>2, <1>4, <2>2 DEF RequestFails, Awaiting, Finish
  <2>3. CASE RequestHangs(Daemon)
    <3>1. [Idle EXCEPT !.pc = "hung"].pc = "hung"
      BY IdleTyped DEF LoopType
    <3> QED
      BY <1>0, <2>3, <3>1, AwaitMoves DEF RequestHangs, OnlyMoves, LoopMove
  <2> QED
    BY <1>6, <2>1, <2>2, <2>3 DEF Misfortune
<1>7. CASE Signal \/ Exit
  BY <1>0, <1>2, <1>7 DEF Signal, Exit
<1>8. ASSUME NEW l \in ScriptTicks, ScriptStep(l)
      PROVE  OnlyMoves(l) /\ l \in Loops
  <2>0. l \in Loops
    BY DEF Loops
  <2>1. CASE StartScriptTick(l)
    BY <1>3, <2>0, <2>1 DEF StartScriptTick
  <2>2. CASE ScriptFails(l)
    BY <1>2, <1>4, <2>0, <2>2 DEF ScriptFails, Finish, Awaiting
  <2>3. CASE ~StartScriptTick(l) /\ ~ScriptFails(l)
    BY <1>8, <2>0, <2>3, LoopStepMoves
       DEF ScriptStep, ScriptFetch, ScriptTakeMarket, ScriptPickWinner,
           ScriptEnsureAtas, ScriptTransaction, LoopStep
  <2> QED
    BY <2>0, <2>1, <2>2, <2>3
<1> QED
  BY <1>0, <1>1, <1>5, <1>6, <1>7, <1>8 DEF Next

(* The record and the vaults of a market that is over no longer change.    *)
LEMMA OverIsFrozen ==
  ASSUME TypeOK, [Next]_vars, NEW m \in Markets, now > Terms[m].deadline
  PROVE  /\ chain'[m].count = chain[m].count /\ chain'[m].acc = chain[m].acc
         /\ chain'[m].vault = chain[m].vault
<1>1. Terms[m].deadline \in Nat /\ now \in Nat
      /\ chain \in [Markets ->
                     [resolved : BOOLEAN, winner : Side \cup {NoWinner},
                      count : Nat, last : Nat, acc : [Side -> Nat],
                      vault : [Side -> Nat]]]
  BY MinSamplesOfTerms DEF TypeOK
<1>2. ASSUME NEW k \in Markets, ChainMove(k), k # m
      PROVE  chain'[m] = chain[m]
  BY <1>1, <1>2, ChainMoveTyped
<1>3. ASSUME ChainMove(m)
      PROVE  /\ chain'[m].count = chain[m].count /\ chain'[m].acc = chain[m].acc
             /\ chain'[m].vault = chain[m].vault
  <2>1. ~SampleAccepted(m) /\ ~(now < Terms[m].deadline)
    BY <1>1 DEF SampleAccepted, InTwapWindow
  <2> QED
    BY <1>1, <1>3, <2>1 DEF ChainMove, ResolveAndGraduate
<1> QED
  BY <1>2, <1>3, ChainMoves

LEMMA LateMeansOver ==
  ASSUME TypeOK, ClockPast, NEW l \in Loops, NEW m \in Markets,
         Running(l), Late(l, m)
  PROVE  now > Terms[m].deadline
<1>1. PICK d \in Skew : loop[l].clock - d <= now
  BY DEF ClockPast
<1>2. /\ d \in Int /\ loop[l].clock \in Int /\ now \in Nat
      /\ Terms[m].deadline \in Nat /\ loop[l].clock - d > Terms[m].deadline
  BY CrankerAssumption, MinSamplesOfTerms DEF TypeOK, LoopType, Late
<1> QED
  BY <1>1, <1>2

LEMMA DecisionIsLeader ==
  ASSUME NEW acc \in [Side -> Nat], NEW vault \in [Side -> Nat],
         NEW count \in Nat, count > 0
  PROVE  determineExpectedWinner(acc, count, vault) = Leader(acc, count, vault)
<1> DEFINE a == acc[0] \div count
           b == acc[1] \div count
<1>1. a \in Int /\ b \in Int /\ count # 0
  BY DEF Side
<1>2. Leader(acc, count, vault) =
        IF a # b THEN IF a > b THEN 0 ELSE 1
                 ELSE IF vault[0] >= vault[1] THEN 0 ELSE 1
  BY DEF Leader, Side
<1>3. determineExpectedWinner(acc, count, vault) =
        IF a > b THEN 0 ELSE IF b > a THEN 1
        ELSE IF vault[0] >= vault[1] THEN 0 ELSE 1
  BY <1>1 DEF determineExpectedWinner
<1> HIDE DEF a, b
<1>4. (a # b /\ a > b /\ ~(b > a)) \/ (a # b /\ ~(a > b) /\ b > a)
      \/ (a = b /\ ~(a > b) /\ ~(b > a))
  BY <1>1
<1> QED
  BY <1>2, <1>3, <1>4

(* A loop that does not move keeps what it knows.                          *)
LEMMA StillKnown ==
  ASSUME LateInv, [Next]_vars, NEW l \in Loops, loop'[l] = loop[l]
  PROVE  TodoKnown(l)' /\ NotesTrue(l)'
<1>1. loop[l].cur \in Markets /\ loop[l].todo \subseteq Markets
  BY DEF LateInv, TypeOK, LoopType
<1>2. \A m \in Markets : Late(l, m)' <=> Late(l, m)
  BY DEF Late
<1>3. ASSUME NEW m \in Markets, Running(l), Late(l, m)
      PROVE  /\ chain'[m].count = chain[m].count /\ chain'[m].acc = chain[m].acc
             /\ chain'[m].vault = chain[m].vault
  BY <1>3, LateMeansOver, OverIsFrozen DEF LateInv
<1>4. TodoKnown(l)'
  BY <1>1, <1>2, <1>3 DEF LateInv, TodoKnown, CountKnown, Running
<1>5. NotesTrue(l)'
  BY <1>1, <1>2, <1>3 DEF LateInv, NotesTrue, CountKnown, Running, Decided
<1> QED
  BY <1>4, <1>5

(* What the fields of a moving loop become.                                *)
LEMMA FetchEffect ==
  ASSUME TypeOK, NEW l \in Loops, FetchMarkets(l)
  PROVE  /\ loop[l].pc = "fetch" /\ loop'[l].pc = "next" /\ chain' = chain
         /\ loop'[l].clock = loop[l].clock
         /\ \A m \in loop'[l].todo : loop'[l].snap[m].count = chain[m].count
<1> DEFINE active == {m \in Markets : ~chain[m].resolved}
           seen == [m \in Markets |->
                      IF m \in active THEN [count |-> chain[m].count,
                                            last |-> chain[m].last]
                                      ELSE Unseen]
<1>1. loop[l] \in LoopType /\ loop \in [Loops -> LoopType]
  BY DEF TypeOK
<1>2. Await(l, [loop[l] EXCEPT !.pc = "next", !.todo = active, !.snap = seen])
  BY DEF FetchMarkets
<1>3. \A m \in active : m \in Markets /\ seen[m].count = chain[m].count
  OBVIOUS
<1> HIDE DEF active, seen
<1>4. loop'[l] = [loop[l] EXCEPT !.pc = "next", !.todo = active, !.snap = seen]
  BY <1>1, <1>2, AwaitMoves
<1>5. /\ loop'[l].pc = "next" /\ loop'[l].todo = active
      /\ loop'[l].snap = seen /\ loop'[l].clock = loop[l].clock
  BY <1>1, <1>4 DEF LoopType
<1> QED
  BY <1>3, <1>5 DEF FetchMarkets

LEMMA ReadEffect ==
  ASSUME TypeOK, NEW l \in Loops, ReadSide(l)
  PROVE  /\ chain' = chain
         /\ loop'[l].clock = loop[l].clock /\ loop'[l].todo = loop[l].todo
         /\ loop'[l].cur = loop[l].cur /\ loop'[l].snap = loop[l].snap
         /\ \/ /\ loop[l].pc = "sideA" /\ loop'[l].pc = "sideB"
               /\ loop'[l].acc[0] = chain[loop[l].cur].acc[0]
            \/ /\ loop[l].pc = "sideB" /\ loop'[l].pc = "balances"
               /\ loop'[l].acc[0] = loop[l].acc[0]
               /\ loop'[l].acc[1] = chain[loop[l].cur].acc[1]
<1>1. loop[l] \in LoopType /\ loop \in [Loops -> LoopType]
  BY DEF TypeOK
<1>2. chain' = chain
  BY DEF ReadSide
<1>3. CASE loop[l].pc = "sideA"
  <2>1. Await(l, [loop[l] EXCEPT !.pc = "sideB",
                                 !.acc[0] = chain[AtMarket(l)].acc[0]])
    BY <1>3 DEF ReadSide
  <2>2. loop'[l] = [loop[l] EXCEPT !.pc = "sideB",
                                   !.acc[0] = chain[AtMarket(l)].acc[0]]
    BY <1>1, <2>1, AwaitMoves
  <2> QED
    BY <1>1, <1>2, <1>3, <2>2 DEF LoopType, AtMarket, Side
<1>4. CASE loop[l].pc = "sideB"
  <2>1. Await(l, [loop[l] EXCEPT !.pc = "balances",
                                 !.acc[1] = chain[AtMarket(l)].acc[1]])
    BY <1>4 DEF ReadSide
  <2>2. loop'[l] = [loop[l] EXCEPT !.pc = "balances",
                                   !.acc[1] = chain[AtMarket(l)].acc[1]]
    BY <1>1, <2>1, AwaitMoves
  <2> QED
    BY <1>1, <1>2, <1>4, <2>2 DEF LoopType, AtMarket, Side
<1> QED
  BY <1>3, <1>4 DEF ReadSide

LEMMA PickEffect ==
  ASSUME TypeOK, NEW l \in Loops, PickWinner(l)
  PROVE  /\ loop[l].pc = "balances" /\ loop'[l].pc = "ata" /\ chain' = chain
         /\ loop'[l].clock = loop[l].clock /\ loop'[l].todo = loop[l].todo
         /\ loop'[l].cur = loop[l].cur
         /\ \A m \in Markets \ {loop[l].cur} :
              loop'[l].snap[m] = loop[l].snap[m]
         /\ loop'[l].expected =
              determineExpectedWinner(loop[l].acc,
                                      loop[l].snap[loop[l].cur].count,
                                      chain[loop[l].cur].vault)
<1> DEFINE m == AtMarket(l)
           winner == determineExpectedWinner(loop[l].acc, loop[l].snap[m].count,
                                             chain[m].vault)
<1>1. loop[l] \in LoopType /\ loop \in [Loops -> LoopType]
  BY DEF TypeOK
<1>2. Await(l, [loop[l] EXCEPT !.pc = "ata", !.acc = Zero, !.snap[m] = Unseen,
                               !.expected = winner])
  BY DEF PickWinner
<1> HIDE DEF winner
<1>3. loop'[l] = [loop[l] EXCEPT !.pc = "ata", !.acc = Zero, !.snap[m] = Unseen,
                                 !.expected = winner]
  BY <1>1, <1>2, AwaitMoves
<1>4. /\ loop'[l].pc = "ata" /\ loop'[l].expected = winner
      /\ loop'[l].clock = loop[l].clock /\ loop'[l].todo = loop[l].todo
      /\ loop'[l].cur = loop[l].cur
      /\ loop'[l].snap = [loop[l].snap EXCEPT ![m] = Unseen]
  BY <1>1, <1>3 DEF LoopType
<1> QED
  BY <1>1, <1>4 DEF PickWinner, AtMarket, LoopType, winner

LEMMA EnsureEffect ==
  ASSUME TypeOK, NEW l \in Loops, EnsureAtas(l)
  PROVE  /\ loop[l].pc = "ata" /\ loop'[l].pc \in {"resolve", "createAta"}
         /\ chain' = chain
         /\ loop'[l].clock = loop[l].clock /\ loop'[l].todo = loop[l].todo
         /\ loop'[l].cur = loop[l].cur /\ loop'[l].snap = loop[l].snap
         /\ loop'[l].expected = loop[l].expected
<1> DEFINE need == {<<AtMarket(l), loop[l].expected>>, <<AtMarket(l), wsol>>}
                     \ atas
           pc == IF need = {} THEN "resolve" ELSE "createAta"
<1>1. loop[l] \in LoopType /\ loop \in [Loops -> LoopType]
  BY DEF TypeOK
<1>2. Await(l, [loop[l] EXCEPT !.pc = pc, !.need = need])
  BY DEF EnsureAtas
<1>3. pc \in {"resolve", "createAta"}
  OBVIOUS
<1> HIDE DEF pc, need
<1>4. loop'[l] = [loop[l] EXCEPT !.pc = pc, !.need = need]
  BY <1>1, <1>2, AwaitMoves
<1> QED
  BY <1>1, <1>3, <1>4 DEF LoopType, EnsureAtas

LEMMA TakeEffect ==
  ASSUME TypeOK, NEW l \in Loops, TakeMarket(l)
  PROVE  \E m \in loop[l].todo :
           /\ loop[l].pc = "next" /\ chain' = chain /\ m \in Markets
           /\ loop'[l].clock = loop[l].clock
           /\ \A k \in Markets \ {m} : loop'[l].snap[k] = loop[l].snap[k]
           /\ \/ /\ loop'[l].pc = "sample" /\ loop'[l].cur = m
                 /\ loop'[l].todo = loop[l].todo
              \/ /\ loop'[l].pc = "sideA" /\ loop'[l].cur = m
                 /\ loop'[l].todo = loop[l].todo
                 /\ loop'[l].snap = loop[l].snap
                 /\ loop[l].snap[m].count >= minSamples(m)
              \/ /\ loop'[l].pc = "next"
                 /\ loop'[l].todo = loop[l].todo \ {m}
<1>1. loop[l] \in LoopType /\ loop \in [Loops -> LoopType]
  BY DEF TypeOK
<1>2. PICK m \in loop[l].todo :
        Await(l, IF WantsSample(l, m)
                 THEN [loop[l] EXCEPT !.pc = "sample", !.cur = m,
                                      !.snap[m] = Unseen]
                 ELSE IF WantsResolve(l, m)
                 THEN [loop[l] EXCEPT !.pc = "sideA", !.cur = m]
                 ELSE [loop[l] EXCEPT !.todo = @ \ {m}, !.snap[m] = Unseen])
  BY DEF TakeMarket
<1>3. m \in Markets /\ loop[l].pc = "next" /\ chain' = chain
  BY <1>1, <1>2 DEF LoopType, TakeMarket
<1>4. CASE WantsSample(l, m)
  <2>1. loop'[l] = [loop[l] EXCEPT !.pc = "sample", !.cur = m, !.snap[m] = Unseen]
    BY <1>1, <1>2, <1>4, AwaitMoves
  <2>2. /\ loop'[l].pc = "sample" /\ loop'[l].cur = m
        /\ loop'[l].todo = loop[l].todo /\ loop'[l].clock = loop[l].clock
        /\ loop'[l].snap = [loop[l].snap EXCEPT ![m] = Unseen]
    BY <1>1, <2>1 DEF LoopType
  <2> QED
    BY <1>1, <1>3, <2>2 DEF LoopType
<1>5. CASE ~WantsSample(l, m) /\ WantsResolve(l, m)
  <2>1. loop'[l] = [loop[l] EXCEPT !.pc = "sideA", !.cur = m]
    BY <1>1, <1>2, <1>5, AwaitMoves
  <2> QED
    BY <1>1, <1>3, <1>5, <2>1 DEF LoopType, WantsResolve
<1>6. CASE ~WantsSample(l, m) /\ ~WantsResolve(l, m)
  <2>1. loop'[l] = [loop[l] EXCEPT !.todo = @ \ {m}, !.snap[m] = Unseen]
    BY <1>1, <1>2, <1>6, AwaitMoves
  <2>2. /\ loop'[l].pc = "next" /\ loop'[l].todo = loop[l].todo \ {m}
        /\ loop'[l].clock = loop[l].clock
        /\ loop'[l].snap = [loop[l].snap EXCEPT ![m] = Unseen]
    BY <1>1, <1>3, <2>1 DEF LoopType
  <2> QED
    BY <1>1, <1>3, <2>2 DEF LoopType
<1> QED
  BY <1>4, <1>5, <1>6

LEMMA NextOneEffect ==
  ASSUME TypeOK, NEW l \in Loops, NextOne(l)
  PROVE  /\ loop'[l].pc = "next" /\ loop'[l].clock = loop[l].clock
         /\ loop'[l].snap = loop[l].snap
         /\ loop'[l].todo = loop[l].todo \ {loop[l].cur}
<1>1. loop[l] \in LoopType /\ loop \in [Loops -> LoopType]
  BY DEF TypeOK
<1>2. loop'[l] = [Idle EXCEPT !.pc = "next", !.clock = loop[l].clock,
                              !.snap = loop[l].snap,
                              !.todo = loop[l].todo \ {AtMarket(l)}]
  BY <1>1, AwaitMoves DEF NextOne
<1> QED
  BY <1>2, IdleTyped DEF LoopType, AtMarket

(* The loop that moves.  Its clock is kept, or read off the cluster's.     *)
LEMMA ClockKept ==
  ASSUME LateInv, [Next]_vars, NEW l \in Loops, OnlyMoves(l)
  PROVE  ClockPast'
<1>1. /\ now \in Nat /\ now' \in Nat /\ now <= now' /\ Skew \subseteq Int
      /\ loop \in [Loops -> LoopType]
  BY ChainMoves, CrankerAssumption DEF LateInv, TypeOK
<1>2. ASSUME NEW k \in Loops, Running(k), loop'[k].clock = loop[k].clock
      PROVE  \E d \in Skew : loop'[k].clock - d <= now'
  <2>1. PICK d \in Skew : loop[k].clock - d <= now
    BY <1>2 DEF LateInv, ClockPast
  <2>2. d \in Int /\ loop[k].clock \in Int
    BY <1>1 DEF LoopType
  <2> QED
    BY <1>1, <1>2, <2>1, <2>2
<1>3. ASSUME Running(l)'
      PROVE  \E d \in Skew : loop'[l].clock - d <= now'
  <2>1. CASE \E d \in Skew :
               loop'[l] = [Idle EXCEPT !.pc = "fetch", !.clock = now + d]
    <3>1. PICK d \in Skew :
            loop'[l] = [Idle EXCEPT !.pc = "fetch", !.clock = now + d]
      BY <2>1
    <3>2. loop'[l].clock = now + d
      BY <3>1, IdleTyped DEF LoopType
    <3> QED
      BY <1>1, <3>2
  <2>2. CASE ~(\E d \in Skew :
                 loop'[l] = [Idle EXCEPT !.pc = "fetch", !.clock = now + d])
    <3>1. Running(l) /\ loop'[l].clock = loop[l].clock
      <4>1. loop[l] \in LoopType /\ TypeOK
        BY <1>1 DEF LateInv
      <4>2. CASE NextOne(l) /\ loop[l].pc \notin {"idle", "next", "hung", "fetch"}
        BY <4>1, <4>2, NextOneEffect DEF Running
      <4>3. CASE FetchMarkets(l) \/ ReadSide(l) \/ EnsureAtas(l) \/ PickWinner(l)
        BY <4>1, <4>3, FetchEffect, ReadEffect, EnsureEffect, PickEffect
           DEF Running
      <4>4. CASE TakeMarket(l)
        BY <4>1, <4>4, TakeEffect DEF Running
      <4>5. CASE /\ loop[l].pc = "createAta"
                 /\ loop'[l] = [loop[l] EXCEPT !.pc = "resolve", !.need = {}]
        BY <4>1, <4>5 DEF LoopType, Running
      <4> QED
        BY <1>3, <2>2, <4>2, <4>3, <4>4, <4>5 DEF OnlyMoves, LoopMove, Running
    <3> QED
      BY <1>2, <3>1
  <2> QED
    BY <2>1, <2>2
<1>4. ASSUME NEW k \in Loops, k # l, Running(k)'
      PROVE  \E d \in Skew : loop'[k].clock - d <= now'
  BY <1>2, <1>4 DEF OnlyMoves, Running
<1> QED
  BY <1>3, <1>4 DEF ClockPast

(* Known facts about a market whose record is frozen carry over.           *)
LEMMA KnownStaysTrue ==
  ASSUME LateInv, [Next]_vars, NEW l \in Loops, Running(l),
         NEW m \in Markets, Late(l, m)
  PROVE  /\ chain'[m].count = chain[m].count /\ chain'[m].acc = chain[m].acc
         /\ chain'[m].vault = chain[m].vault
BY LateMeansOver, OverIsFrozen DEF LateInv

LEMMA MoverKnows ==
  ASSUME LateInv, [Next]_vars, NEW l \in Loops, LoopMove(l)
  PROVE  TodoKnown(l)' /\ NotesTrue(l)'
<1> USE DEF CountKnown
<1>0. /\ TypeOK /\ TodoKnown(l) /\ NotesTrue(l)
      /\ loop[l] \in LoopType /\ loop[l].cur \in Markets
      /\ loop[l].todo \subseteq Markets
  BY DEF LateInv, TypeOK, LoopType
<1>1. ASSUME NEW m \in Markets, Running(l), Late(l, m)
      PROVE  /\ chain'[m].count = chain[m].count /\ chain'[m].acc = chain[m].acc
             /\ chain'[m].vault = chain[m].vault
  BY <1>1, KnownStaysTrue
<1>2. CASE loop'[l].pc \in {"idle", "hung", "fetch"}
  BY <1>2 DEF TodoKnown, NotesTrue, Decided
<1>3. ASSUME NEW d \in Skew,
             loop'[l] = [Idle EXCEPT !.pc = "fetch", !.clock = now + d]
      PROVE  loop'[l].pc = "fetch"
  BY <1>3, IdleTyped DEF LoopType
<1>4. CASE FetchMarkets(l)
  BY <1>0, <1>4, FetchEffect DEF TodoKnown, NotesTrue, Decided
<1>5. CASE TakeMarket(l)
  <2>1. PICK m \in loop[l].todo :
          /\ loop[l].pc = "next" /\ chain' = chain /\ m \in Markets
          /\ loop'[l].clock = loop[l].clock
          /\ \A k \in Markets \ {m} : loop'[l].snap[k] = loop[l].snap[k]
          /\ \/ /\ loop'[l].pc = "sample" /\ loop'[l].cur = m
                /\ loop'[l].todo = loop[l].todo
             \/ /\ loop'[l].pc = "sideA" /\ loop'[l].cur = m
                /\ loop'[l].todo = loop[l].todo
                /\ loop'[l].snap = loop[l].snap
                /\ loop[l].snap[m].count >= minSamples(m)
             \/ /\ loop'[l].pc = "next"
                /\ loop'[l].todo = loop[l].todo \ {m}
    BY <1>0, <1>5, TakeEffect
  <2>2. \A k \in Markets : Late(l, k)' <=> Late(l, k)
    BY <2>1 DEF Late
  <2>3. \A k \in loop[l].todo : Late(l, k) => CountKnown(l, k)
    BY <1>0, <2>1 DEF TodoKnown
  <2>4. TodoKnown(l)'
    BY <1>0, <2>1, <2>2, <2>3 DEF TodoKnown
  <2>5. loop'[l].pc = "sideA" /\ Late(l, m) =>
          loop'[l].snap[m].count = chain'[m].count /\ chain'[m].count > 0
    <3>1. minSamples(m) > 0 /\ minSamples(m) \in Nat
          /\ loop[l].snap[m].count \in Nat
      BY <1>0, <2>1, MinSamplesOfTerms DEF LoopType
    <3> QED
      BY <2>1, <2>3, <3>1
  <2>6. NotesTrue(l)'
    BY <1>0, <2>1, <2>2, <2>5 DEF NotesTrue, Decided
  <2> QED
    BY <2>4, <2>6
<1>6. CASE ReadSide(l)
  <2>1. \A k \in Markets : Late(l, k)' <=> Late(l, k)
    BY <1>0, <1>6, ReadEffect DEF Late
  <2>2. TodoKnown(l)'
    BY <1>0, <1>6, <2>1, ReadEffect DEF TodoKnown
  <2>3. NotesTrue(l)'
    BY <1>0, <1>6, <2>1, ReadEffect DEF NotesTrue, Decided
  <2> QED
    BY <2>2, <2>3
<1>7. CASE PickWinner(l)
  <2>1. \A k \in Markets : Late(l, k)' <=> Late(l, k)
    BY <1>0, <1>7, PickEffect DEF Late
  <2>2. TodoKnown(l)'
    BY <1>0, <1>7, <2>1, PickEffect DEF TodoKnown
  <2> DEFINE m == loop[l].cur
  <2>3. /\ loop[l].acc \in [Side -> Nat] /\ chain[m].acc \in [Side -> Nat]
        /\ chain[m].vault \in [Side -> Nat] /\ chain[m].count \in Nat
    BY <1>0 DEF TypeOK, LoopType
  <2>4. Late(l, m) =>
          /\ loop[l].snap[m].count = chain[m].count /\ chain[m].count > 0
          /\ loop[l].acc[0] = chain[m].acc[0] /\ loop[l].acc[1] = chain[m].acc[1]
    BY <1>0, <1>7, PickEffect DEF NotesTrue
  <2>5. Late(l, m) => loop[l].acc = chain[m].acc
    BY <2>3, <2>4 DEF Side
  <2>6. Late(l, m) =>
          loop'[l].expected = Leader(chain[m].acc, chain[m].count, chain[m].vault)
    BY <1>0, <1>7, <2>3, <2>4, <2>5, PickEffect, DecisionIsLeader
  <2>7. NotesTrue(l)'
    BY <1>0, <1>7, <2>1, <2>6, PickEffect DEF NotesTrue, Decided
  <2> QED
    BY <2>2, <2>7
<1>8. CASE EnsureAtas(l)
  <2>1. \A k \in Markets : Late(l, k)' <=> Late(l, k)
    BY <1>0, <1>8, EnsureEffect DEF Late
  <2>2. TodoKnown(l)'
    BY <1>0, <1>8, <2>1, EnsureEffect DEF TodoKnown
  <2>3. NotesTrue(l)'
    BY <1>0, <1>8, <2>1, EnsureEffect DEF NotesTrue, Decided
  <2> QED
    BY <2>2, <2>3
<1>9. CASE /\ loop[l].pc = "createAta"
           /\ loop'[l] = [loop[l] EXCEPT !.pc = "resolve", !.need = {}]
  <2>1. /\ loop'[l].pc = "resolve" /\ loop'[l].clock = loop[l].clock
        /\ loop'[l].todo = loop[l].todo /\ loop'[l].cur = loop[l].cur
        /\ loop'[l].snap = loop[l].snap /\ loop'[l].expected = loop[l].expected
    BY <1>0, <1>9 DEF LoopType
  <2>2. Running(l) /\ \A k \in Markets : Late(l, k)' <=> Late(l, k)
    BY <1>9, <2>1 DEF Late, Running
  <2>3. TodoKnown(l)'
    BY <1>0, <1>1, <1>9, <2>1, <2>2 DEF TodoKnown
  <2>4. NotesTrue(l)'
    BY <1>0, <1>1, <1>9, <2>1, <2>2 DEF NotesTrue, Decided
  <2> QED
    BY <2>3, <2>4
<1>10. CASE loop[l].pc \notin {"idle", "next", "hung", "fetch"} /\ NextOne(l)
  <2>1. Running(l) /\ \A k \in Markets : Late(l, k)' <=> Late(l, k)
    BY <1>0, <1>10, NextOneEffect DEF Late, Running
  <2>2. TodoKnown(l)'
    BY <1>0, <1>1, <1>10, <2>1, NextOneEffect DEF TodoKnown
  <2>3. NotesTrue(l)'
    BY <1>0, <1>10, NextOneEffect DEF NotesTrue, Decided
  <2> QED
    BY <2>2, <2>3
<1> QED
  BY <1>2, <1>3, <1>4, <1>5, <1>6, <1>7, <1>8, <1>9, <1>10 DEF LoopMove

LEMMA LateInit == Init => LateInv
<1> SUFFICES ASSUME Init PROVE LateInv
  OBVIOUS
<1>1. \A l \in Loops : loop[l].pc = "idle"
  BY IdleTyped DEF Init
<1> QED
  BY <1>1, RecordInit
     DEF RecordInv, LateInv, ClockPast, Running, TodoKnown, NotesTrue, Decided

LEMMA LateKept ==
  ASSUME LateInv, [Next]_vars
  PROVE  LateInv'
<1>1. TypeOK /\ TypeOK'
  BY TypesKept DEF LateInv
<1>2. CASE loop' = loop
  <2>1. \A l \in Loops : TodoKnown(l)' /\ NotesTrue(l)'
    BY <1>2, StillKnown
  <2>2. ASSUME NEW l \in Loops, Running(l)'
        PROVE  \E d \in Skew : loop'[l].clock - d <= now'
    <3>1. PICK d \in Skew : loop[l].clock - d <= now
      BY <1>2, <2>2 DEF LateInv, ClockPast, Running
    <3>2. d \in Int /\ loop[l].clock \in Int /\ now \in Nat /\ now <= now'
          /\ now' \in Nat
      BY <1>1, ChainMoves, CrankerAssumption DEF TypeOK, LoopType
    <3> QED
      BY <1>2, <3>1, <3>2
  <2> QED
    BY <1>1, <2>1, <2>2 DEF LateInv, ClockPast
<1>3. CASE loop' # loop
  <2>1. PICK l \in Loops : OnlyMoves(l)
    BY <1>1, <1>3, LoopMoves
  <2>2. ClockPast'
    BY <2>1, ClockKept
  <2>3. TodoKnown(l)' /\ NotesTrue(l)'
    BY <2>1, MoverKnows DEF OnlyMoves
  <2>4. \A k \in Loops \ {l} : TodoKnown(k)' /\ NotesTrue(k)'
    BY <2>1, StillKnown DEF OnlyMoves
  <2> QED
    BY <1>1, <2>2, <2>3, <2>4 DEF LateInv
<1> QED
  BY <1>2, <1>3

(* Whatever the clocks' skew and however many crankers overlap, a loop     *)
(* that started after the deadline expects the winner the program will     *)
(* find: the two implementations of the comparison agree and what the      *)
(* loop read cannot have changed (cranker.ts:116-142, 255-261).            *)
THEOREM CrankerLateDecisionsExact == Spec => []LateDecisionsExact
<1>1. LateInv => LateDecisionsExact
  BY DEF LateInv, LateDecisionsExact, NotesTrue, Late, Decided
<1>2. LateInv /\ [Next]_vars => LateInv'
  BY LateKept
<1> QED
  BY <1>1, <1>2, LateInit, PTL DEF Spec
=============================================================================
