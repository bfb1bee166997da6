--------------------------- MODULE Indexer_proofs ---------------------------
(***************************************************************************)
(* Proofs about Indexer: its type, that its rows never show what the chain *)
(* did not have, that an event is recorded at most once per start, and     *)
(* that a start without failed requests repairs the row of a resolved      *)
(* market.                                                                 *)
(***************************************************************************)
EXTENDS Indexer, FiniteSetTheorems, TLAPS

-----------------------------------------------------------------------------
(* The chain as the program's log gives it.                                *)

LEMMA EventsFinite ==
  ASSUME TypeOK, NEW kind
  PROVE  /\ EventsOf(kind) \subseteq 1 .. Len(ledger)
         /\ IsFiniteSet(EventsOf(kind)) /\ Cardinality(EventsOf(kind)) \in Nat
<1>1. EventsOf(kind) \subseteq 1 .. Len(ledger) /\ Len(ledger) \in Nat
  BY DEF EventsOf, TypeOK
<1>2. IsFiniteSet(1 .. Len(ledger))
  BY <1>1, FS_Interval
<1>. QED BY <1>1, <1>2, FS_Subset, FS_CardinalityType

Entry == [kind : Kinds, slot : Nat, winner : Winners]

LEMMA LedgerEntries ==
  ASSUME TypeOK
  PROVE  /\ ledger \in Seq(Entry) /\ Len(ledger) \in Nat
         /\ DOMAIN ledger = 1 .. Len(ledger)
         /\ \A e \in DOMAIN ledger : ledger[e] \in Entry
<1>1. ledger \in Seq(Entry)
  BY DEF TypeOK, Entry
<1>. QED BY <1>1

(* What a request reads off the chain is of the type of a snapshot. *)
LEMMA OnChainType == ASSUME TypeOK PROVE OnChain \in SeenType /\ ChainWinner \in Winners
<1>1. ChainWinner \in Winners
  <2>1. CASE Happened("MarketResolved")
    <3> DEFINE e == CHOOSE e \in EventsOf("MarketResolved") : TRUE
    <3>1. e \in EventsOf("MarketResolved")
      BY <2>1 DEF Happened
    <3>2. ChainWinner = ledger[e].winner
      BY <2>1 DEF ChainWinner
    <3>. HIDE DEF e
    <3>3. ledger[e] \in Entry
      BY <3>1, LedgerEntries DEF EventsOf
    <3>. QED BY <3>2, <3>3 DEF Entry
  <2>2. CASE ~Happened("MarketResolved")
    BY <2>2 DEF ChainWinner, Winners
  <2>. QED BY <2>1, <2>2
<1>2. Cardinality(EventsOf("Traded")) \in Nat
  BY EventsFinite
<1>. QED BY <1>1, <1>2 DEF OnChain, SeenType, Happened

(* Nothing but the program's events changes the chain. *)
LEMMA ChainStands ==
  ASSUME ledger' = ledger
  PROVE  OnChain' = OnChain /\ ChainWinner' = ChainWinner
BY DEF OnChain, ChainWinner, Happened, EventsOf

LEMMA LedgerGrows ==
  ASSUME TypeOK, NEW kind \in Kinds, Emit(kind)
  PROVE  /\ ledger' \in Seq([kind : Kinds, slot : Nat, winner : Winners])
         /\ Len(ledger') = Len(ledger) + 1 /\ Len(ledger') <= MaxEvents
         /\ \A e \in 1 .. Len(ledger) : ledger'[e] = ledger[e]
         /\ ledger'[Len(ledger')].kind = kind
         /\ Len(ledger) \in Nat
         /\ \A k \in Kinds \ {kind} : EventsOf(k)' = EventsOf(k)
         /\ EventsOf(kind) \subseteq EventsOf(kind)'
<1>1. PICK s \in {0, 1}, w \in {0, 1} :
        ledger' = Append(ledger,
          [kind |-> kind,
           slot |-> IF ledger = <<>> THEN 1 ELSE ledger[Len(ledger)].slot + s,
           winner |-> IF kind = "MarketResolved" THEN w ELSE Null])
  BY DEF Emit
<1> DEFINE new == [kind |-> kind,
           slot |-> IF ledger = <<>> THEN 1 ELSE ledger[Len(ledger)].slot + s,
           winner |-> IF kind = "MarketResolved" THEN w ELSE Null]
<1>2. ledger \in Seq(Entry) /\ Len(ledger) \in Nat
  BY LedgerEntries
<1>3. new \in Entry
  <2>1. ledger # <<>> => ledger[Len(ledger)].slot \in Nat
    <3>. SUFFICES ASSUME ledger # <<>> PROVE ledger[Len(ledger)].slot \in Nat
      OBVIOUS
    <3>1. Len(ledger) \in DOMAIN ledger
      BY <1>2
    <3>2. ledger[Len(ledger)] \in Entry
      BY <3>1, LedgerEntries
    <3>. QED BY <3>2 DEF Entry
  <2>. QED BY <2>1 DEF Winners, Entry
<1>4. new.kind = kind
  OBVIOUS
<1>5. ledger' = Append(ledger, new)
  BY <1>1
<1> HIDE DEF new
<1>6. /\ ledger' \in Seq(Entry) /\ Len(ledger') = Len(ledger) + 1
      /\ \A e \in 1 .. Len(ledger) : ledger'[e] = ledger[e]
      /\ ledger'[Len(ledger) + 1] = new
  BY <1>2, <1>3, <1>5
<1>7. Len(ledger) < MaxEvents
  BY DEF Emit
<1>8. DOMAIN ledger = 1 .. Len(ledger) /\ DOMAIN ledger' = 1 .. Len(ledger) + 1
  BY <1>2, <1>6
<1>9. ASSUME NEW k \in Kinds \ {kind} PROVE EventsOf(k)' = EventsOf(k)
  BY <1>2, <1>4, <1>6, <1>8 DEF EventsOf
<1>10. EventsOf(kind) \subseteq EventsOf(kind)'
  BY <1>2, <1>6, <1>8 DEF EventsOf
<1>. QED
  BY <1>2, <1>4, <1>6, <1>7, <1>9, <1>10, IndexerAssumption
  DEF IndexerAssumption, Entry

(* A new event keeps outcomes and winners and takes nothing away from the  *)
(* reserve.                                                                *)
LEMMA ChainGrows ==
  ASSUME TypeOK, TypeOK', NEW kind \in Kinds, Emit(kind)
  PROVE  /\ OnChain.resolved => OnChain'.resolved /\ ChainWinner' = ChainWinner
         /\ ~OnChain.resolved => ChainWinner = Null
         /\ OnChain.reserve <= OnChain'.reserve
         /\ OnChain'.found => OnChain.found \/ ledger = <<>>
<1>1. /\ \A k \in Kinds \ {kind} : EventsOf(k)' = EventsOf(k)
      /\ EventsOf(kind) \subseteq EventsOf(kind)'
      /\ Possible(kind)
  BY LedgerGrows DEF Emit
<1>2. ASSUME OnChain.resolved
      PROVE  OnChain'.resolved /\ ChainWinner' = ChainWinner
  <2>1. kind \notin {"MarketResolved", "EmergencyResolved"}
    BY <1>1, <1>2 DEF Possible
  <2>2. /\ EventsOf("MarketResolved")' = EventsOf("MarketResolved")
        /\ EventsOf("EmergencyResolved")' = EventsOf("EmergencyResolved")
    BY <1>1, <2>1 DEF Kinds
  <2>3. OnChain'.resolved
    BY <1>2, <2>2 DEF OnChain, Happened
  <2>4. ChainWinner' = ChainWinner
    <3>1. CASE Happened("MarketResolved")
      <4> DEFINE e == CHOOSE e \in EventsOf("MarketResolved") : TRUE
      <4>1. e \in EventsOf("MarketResolved")
        BY <3>1 DEF Happened
      <4>4. ChainWinner = ledger[e].winner
        BY <3>1 DEF ChainWinner
      <4>5. ChainWinner' = ledger'[e].winner
        BY <3>1, <2>2 DEF ChainWinner, Happened
      <4>. HIDE DEF e
      <4>2. e \in 1 .. Len(ledger)
        BY <4>1, LedgerEntries DEF EventsOf
      <4>3. ledger'[e] = ledger[e]
        BY <4>2, LedgerGrows
      <4>. QED BY <4>3, <4>4, <4>5
    <3>2. CASE ~Happened("MarketResolved")
      BY <3>2, <2>2 DEF ChainWinner, Happened
    <3>. QED BY <3>1, <3>2
  <2>. QED BY <2>3, <2>4
<1>3. ~OnChain.resolved => ChainWinner = Null
  BY DEF OnChain, ChainWinner
<1>4. OnChain.reserve <= OnChain'.reserve
  <2>1. EventsOf("Traded") \subseteq EventsOf("Traded")'
    BY <1>1 DEF Kinds
  <2>2. IsFiniteSet(EventsOf("Traded")') /\ Cardinality(EventsOf("Traded")') \in Nat
    <3>1. (EventsOf("Traded") \subseteq 1 .. Len(ledger))'
      BY DEF EventsOf, TypeOK
    <3>2. Len(ledger') \in Nat
      BY DEF TypeOK
    <3>3. IsFiniteSet(1 .. Len(ledger'))
      BY <3>2, FS_Interval
    <3>. QED BY <3>1, <3>3, FS_Subset, FS_CardinalityType
  <2>3. Cardinality(EventsOf("Traded")) <= Cardinality(EventsOf("Traded")')
    BY <2>1, <2>2, FS_Subset
  <2>. QED BY <2>3 DEF OnChain
<1>5. OnChain'.found => OnChain.found \/ ledger = <<>>
  <2>1. CASE kind = "MarketCreated"
    BY <2>1, <1>1 DEF Possible
  <2>2. CASE kind # "MarketCreated"
    <3>1. EventsOf("MarketCreated")' = EventsOf("MarketCreated")
      BY <1>1, <2>2 DEF Kinds
    <3>2. EventsOf("MarketClosed") \subseteq EventsOf("MarketClosed")'
      BY <1>1 DEF Kinds
    <3>. QED BY <3>1, <3>2 DEF OnChain, Happened
  <2>. QED BY <2>1, <2>2
<1>. QED BY <1>2, <1>3, <1>4, <1>5

-----------------------------------------------------------------------------
(* What the tasks do in each phase.                                        *)

Reading == {"fetch", "sides", "write"}

(* A task works on an event of the log; the synchronisation of a single    *)
(* market is that of a created one, or the start's (event 0).  A handler   *)
(* has the number of its event, which is later than the start.             *)
TasksFit ==
  /\ queue \subseteq DOMAIN ledger
  /\ \A t \in Tasks :
       /\ task[t].pc \in {"handle", "setState"} => task[t].event \in DOMAIN ledger
       /\ task[t].pc \in Reading /\ task[t].event # 0 =>
            /\ task[t].event \in DOMAIN ledger
            /\ ledger[task[t].event].kind = "MarketCreated"
  /\ \A t \in Events : ~At(t, "done") =>
       task[t].event = t /\ t > known /\ ~At(t, "update")
  /\ task[Updater].pc \in {"done", "update"} /\ ~At(Main, "update")

(* Only main() works before the subscription, and only others after it.    *)
PhaseFits ==
  /\ phase = "down" => queue = {} /\ \A t \in Tasks : At(t, "done")
  /\ phase # "down" => starts > 0
  /\ phase = "sync" => /\ queue = {} /\ task[Main].event = 0
                       /\ task[Main].pc \in Reading \cup {"done"}
  /\ phase \in {"sync", "backfill"} =>
       \A t \in Tasks \ {Main} : At(t, "done")
  /\ phase = "running" => queue = {} /\ At(Main, "done")

(* A market is created once, by the first of its events.                   *)
CreatedFirst ==
  \A e \in DOMAIN ledger : ledger[e].kind = "MarketCreated" => e = 1

-----------------------------------------------------------------------------
(* The state keeps its type.                                               *)

LEMMA DoneType == Done \in TaskType /\ Unread \in SeenType
BY IndexerAssumption
DEF IndexerAssumption, Done, Unread, TaskType, SeenType, Winners

LEMMA InitTypeOK == Init => TypeOK
<1>. SUFFICES ASSUME Init PROVE TypeOK
  OBVIOUS
<1>1. ledger \in Seq([kind : Kinds, slot : Nat, winner : Winners]) /\ Len(ledger) = 0
  BY DEF Init
<1>2. row \in [exists : BOOLEAN, status : {"active", "resolved"},
              winner : Winners, reserve : Nat]
  BY DEF Init, NoRow, Winners
<1>. QED BY <1>1, <1>2, DoneType, IndexerAssumption DEF IndexerAssumption, Init, TypeOK

(* A task that goes on to a snapshot or a state of the right type.         *)
LEMMA TaskKeepsType ==
  ASSUME TypeOK, NEW t \in Tasks, NEW new \in TaskType, Becomes(t, new)
  PROVE  task' \in [Tasks -> TaskType]
BY DEF TypeOK, Becomes

LEMMA AfterSyncType == ASSUME TypeOK, NEW t \in Tasks PROVE AfterSync(t) \in TaskType
<1>. task[t] \in TaskType
  BY DEF TypeOK
<1>. QED BY DoneType DEF AfterSync, TaskType

LEMMA NextTypeOK == TypeOK /\ TasksFit /\ [Next]_vars => TypeOK'
<1>. SUFFICES ASSUME TypeOK, TasksFit, [Next]_vars PROVE TypeOK'
  OBVIOUS
<1>. Main \in Tasks /\ Updater \in Tasks /\ Events \subseteq Tasks /\ MaxEvents \in Nat
  BY IndexerAssumption DEF IndexerAssumption, Main, Updater, Tasks, Events
<1>1. ASSUME NEW kind \in Kinds, Emit(kind) PROVE TypeOK'
  <2>1. /\ ledger' \in Seq([kind : Kinds, slot : Nat, winner : Winners])
        /\ Len(ledger') = Len(ledger) + 1 /\ Len(ledger') <= MaxEvents
        /\ Len(ledger) \in Nat
    BY <1>1, LedgerGrows
  <2>2. known' \in 0 .. Len(ledger')
    BY <1>1, <2>1 DEF TypeOK, Emit
  <2>3. task' \in [Tasks -> TaskType]
    <3>1. CASE UNCHANGED task
      BY <3>1 DEF TypeOK
    <3>2. CASE task' = [task EXCEPT ![Len(ledger) + 1] =
                          [Done EXCEPT !.pc = "handle", !.event = Len(ledger) + 1]]
      <4>1. Len(ledger) + 1 \in 0 .. MaxEvents
        BY <2>1
      <4>2. [Done EXCEPT !.pc = "handle", !.event = Len(ledger) + 1] \in TaskType
        BY <4>1, DoneType DEF TaskType
      <4>. QED BY <3>2, <4>2 DEF TypeOK
    <3>. QED BY <1>1, <3>1, <3>2 DEF Emit
  <2>. QED BY <1>1, <2>1, <2>2, <2>3 DEF TypeOK, Emit, dbVars
<1>2. CASE Start
  <2>1. [Done EXCEPT !.pc = "fetch"] \in TaskType
    BY DoneType DEF TaskType
  <2>2. task' \in [Tasks -> TaskType]
    BY <1>2, <2>1, DoneType DEF Start, TypeOK, Becomes
  <2>3. Len(ledger) \in Nat
    BY LedgerEntries
  <2>. QED BY <1>2, <2>2, <2>3 DEF TypeOK, Start, dbVars
<1>3. CASE ListSignatures
  <2>1. DOMAIN ledger \subseteq Events
    BY LedgerEntries DEF TypeOK, Events
  <2>. QED BY <1>3, <2>1 DEF TypeOK, ListSignatures, dbVars
<1>4. CASE BackfillNext
  <2>1. PICK e \in queue :
          /\ Becomes(Main, [Done EXCEPT !.pc = "handle", !.event = e])
          /\ queue' = queue \ {e}
    BY <1>4 DEF BackfillNext
  <2>2. e \in 0 .. MaxEvents
    BY DEF TypeOK, Events
  <2>3. [Done EXCEPT !.pc = "handle", !.event = e] \in TaskType
    BY <2>2, DoneType DEF TaskType
  <2>4. task' \in [Tasks -> TaskType]
    BY <2>1, <2>3, TaskKeepsType
  <2>. QED BY <1>4, <2>1, <2>4 DEF TypeOK, BackfillNext, dbVars
<1>5. CASE startEventListener
  BY <1>5 DEF TypeOK, startEventListener, dbVars
<1>6. ASSUME NEW t \in Tasks, TaskStep(t) PROVE TypeOK'
  <2>0. /\ task[t] \in TaskType /\ OnChain \in SeenType
        /\ row \in [exists : BOOLEAN, status : {"active", "resolved"},
                    winner : Winners, reserve : Nat]
    BY OnChainType DEF TypeOK
  <2>a. \A pc \in {"setState", "fetch", "sides", "write"} :
          [task[t] EXCEPT !.pc = pc] \in TaskType
    BY <2>0 DEF TaskType
  <2>1. CASE At(t, "handle") /\ HandleMarketCreated(t) /\
             UNCHANGED <<ledger, cursor, phase, queue, starts, failures, known>>
    <3>1. row' \in [exists : BOOLEAN, status : {"active", "resolved"},
                    winner : Winners, reserve : Nat]
      BY <2>0, <2>1 DEF HandleMarketCreated, upsertMarket
    <3>2. task' \in [Tasks -> TaskType]
      BY <2>1, <2>a, TaskKeepsType DEF HandleMarketCreated, Goes
    <3>. QED BY <2>1, <3>1, <3>2 DEF TypeOK, HandleMarketCreated
  <2>2. CASE At(t, "handle") /\ HandleTraded(t) /\
             UNCHANGED <<ledger, cursor, phase, queue, starts, failures, known>>
    <3>1. task' \in [Tasks -> TaskType]
      BY <2>2, <2>a, DoneType, TaskKeepsType DEF HandleTraded, Goes
    <3>2. inserted' \in [Events -> Nat]
      BY <2>2 DEF TypeOK, HandleTraded
    <3>. QED BY <2>2, <3>1, <3>2 DEF TypeOK, HandleTraded
  <2>3. CASE At(t, "handle") /\ HandleMarketResolved(t) /\
             UNCHANGED <<ledger, cursor, phase, queue, starts, failures, known>>
    <3>1. row' = row /\ Becomes(t, Done) /\ inserted' = inserted
      BY <2>3 DEF HandleMarketResolved, upsertMarket, UpsertAccepted, NotNullColumns
    <3>2. task' \in [Tasks -> TaskType]
      BY <3>1, DoneType, TaskKeepsType
    <3>. QED BY <2>3, <3>1, <3>2 DEF TypeOK
  <2>4. CASE At(t, "handle") /\ HandleOther(t) /\
             UNCHANGED <<ledger, cursor, phase, queue, starts, failures, known>>
    <3>1. task' \in [Tasks -> TaskType]
      BY <2>4, <2>a, TaskKeepsType DEF HandleOther, Goes
    <3>. QED BY <2>4, <3>1 DEF TypeOK, HandleOther
  <2>5. CASE SetState(t)
    <3>1. task' \in [Tasks -> TaskType]
      BY <2>5, DoneType, TaskKeepsType DEF SetState
    <3>2. task[t].event \in DOMAIN ledger
      BY <2>5 DEF TasksFit, SetState, At
    <3>3. cursor' \in Nat
      BY <2>5, <3>2, LedgerEntries DEF SetState, Entry
    <3>. QED BY <2>5, <3>1, <3>3 DEF TypeOK, SetState
  <2>6. CASE FetchMarket(t)
    <3>1. [task[t] EXCEPT !.pc = "sides",
             !.seen = [OnChain EXCEPT !.reserve = 0]] \in TaskType
      BY <2>0 DEF TaskType, SeenType
    <3>2. task' \in [Tasks -> TaskType]
      BY <2>6, <3>1, AfterSyncType, TaskKeepsType DEF FetchMarket
    <3>. QED BY <2>6, <3>2 DEF TypeOK, FetchMarket, dbVars
  <2>7. CASE FetchSides(t)
    <3>1. \A r \in Nat : [task[t] EXCEPT !.pc = "write", !.seen.reserve = r] \in TaskType
      BY <2>0 DEF TaskType, SeenType
    <3>2. (IF OnChain.found THEN OnChain.reserve ELSE 0) \in Nat
      BY <2>0 DEF SeenType
    <3>3. task' \in [Tasks -> TaskType]
      BY <2>7, <3>1, <3>2, TaskKeepsType DEF FetchSides
    <3>. QED BY <2>7, <3>3 DEF TypeOK, FetchSides, dbVars
  <2>8. CASE WriteSync(t)
    <3>1. task' \in [Tasks -> TaskType]
      BY <2>8, AfterSyncType, TaskKeepsType DEF WriteSync
    <3>2. task[t].seen \in SeenType
      BY <2>0 DEF TaskType
    <3>3. row' \in [exists : BOOLEAN, status : {"active", "resolved"},
                    winner : Winners, reserve : Nat]
      BY <2>0, <2>8, <3>2
      DEF WriteSync, upsertMarket, getMarketStatus, SyncedWinner, SeenType
    <3>. QED BY <2>8, <3>1, <3>3 DEF TypeOK, WriteSync
  <2>. QED BY <1>6, <2>1, <2>2, <2>3, <2>4, <2>5, <2>6, <2>7, <2>8
       DEF TaskStep, handleEvent
<1>7. ASSUME NEW t \in Tasks, RequestFails(t) PROVE TypeOK'
  <2>1. task[t] \in TaskType
    BY DEF TypeOK
  <2>2. [task[t] EXCEPT !.pc = "write"] \in TaskType
    BY <2>1 DEF TaskType
  <2>3. task' \in [Tasks -> TaskType]
    BY <1>7, <2>2, DoneType, AfterSyncType, TaskKeepsType DEF RequestFails
  <2>. QED BY <1>7, <2>3 DEF TypeOK, RequestFails, dbVars
<1>8. CASE UpdateReserves
  <2>1. [Done EXCEPT !.pc = "update", !.seen = OnChain] \in TaskType
    BY DoneType, OnChainType DEF TaskType
  <2>2. task' \in [Tasks -> TaskType]
    BY <1>8, <2>1, TaskKeepsType DEF UpdateReserves
  <2>. QED BY <1>8, <2>2 DEF TypeOK, UpdateReserves, dbVars
<1>9. CASE WriteReserves
  <2>1. row' = row
    BY <1>9 DEF WriteReserves, upsertMarket, UpsertAccepted, NotNullColumns
  <2>2. task' \in [Tasks -> TaskType]
    BY <1>9, DoneType, TaskKeepsType DEF WriteReserves
  <2>. QED BY <1>9, <2>1, <2>2 DEF TypeOK, WriteReserves
<1>10. CASE Crash
  BY <1>10, DoneType DEF TypeOK, Crash, dbVars
<1>11. CASE UNCHANGED vars
  BY <1>11 DEF TypeOK, vars, dbVars
<1>. QED
  BY <1>1, <1>2, <1>3, <1>4, <1>5, <1>6, <1>7, <1>8, <1>9, <1>10, <1>11
  DEF Next, Kinds

-----------------------------------------------------------------------------
(* Tasks and phases keep fitting together.                                 *)

(* Where a step of a task's own can take it.                               *)
LEMMA TaskMoves ==
  ASSUME TypeOK, TasksFit, NEW t \in Tasks, TaskStep(t) \/ RequestFails(t)
  PROVE  /\ ~At(t, "done")
         /\ UNCHANGED <<ledger, phase, queue, starts, known>>
         /\ \E new \in TaskType :
              /\ Becomes(t, new)
              /\ new.pc \in Reading \cup {"done", "setState"}
              /\ new.event = IF new.pc = "done" THEN 0 ELSE task[t].event
              /\ new.pc = "setState" =>
                   ~At(t, "update") /\ new.event \in DOMAIN ledger
              /\ new.pc \in Reading =>
                   \/ task[t].pc \in Reading
                   \/ At(t, "handle") /\ Kind(t) = "MarketCreated"
<1>0. /\ task[t] \in TaskType /\ OnChain \in SeenType
      /\ Done \in TaskType /\ Done.pc = "done" /\ Done.event = 0
  BY OnChainType, DoneType DEF TypeOK, Done
<1>. DEFINE Fits(new) ==
       /\ new \in TaskType
       /\ Becomes(t, new)
       /\ new.pc \in Reading \cup {"done", "setState"}
       /\ new.event = IF new.pc = "done" THEN 0 ELSE task[t].event
       /\ new.pc = "setState" =>
            ~At(t, "update") /\ new.event \in DOMAIN ledger
       /\ new.pc \in Reading =>
            \/ task[t].pc \in Reading
            \/ At(t, "handle") /\ Kind(t) = "MarketCreated"
<1>1. \A pc \in Reading \cup {"setState"} :
        LET new == [task[t] EXCEPT !.pc = pc]
        IN  new \in TaskType /\ new.pc = pc /\ new.event = task[t].event
  BY <1>0 DEF TaskType, Reading
<1>2. Becomes(t, Done) => Fits(Done)
  BY <1>0 DEF Reading
<1>3. task[t].pc \in Reading /\ Becomes(t, AfterSync(t)) => Fits(AfterSync(t))
  <2>1. CASE task[t].event = 0
    BY <2>1, <1>2 DEF AfterSync
  <2>2. CASE task[t].event # 0
    <3>. DEFINE new == [task[t] EXCEPT !.pc = "setState", !.seen = Unread]
    <3>1. new \in TaskType /\ new.pc = "setState" /\ new.event = task[t].event
      BY <1>0, DoneType DEF TaskType
    <3>2. AfterSync(t) = new
      BY <2>2 DEF AfterSync
    <3>. HIDE DEF new
    <3>3. task[t].pc \in Reading => task[t].event \in DOMAIN ledger
      BY <2>2 DEF TasksFit
    <3>. QED BY <3>1, <3>2, <3>3 DEF Reading, At
  <2>. QED BY <2>1, <2>2
<1>4. CASE handleEvent(t)
  <2>1. task[t].event \in DOMAIN ledger
    BY <1>4 DEF handleEvent, At, TasksFit
  <2>2. CASE HandleMarketCreated(t)
    <3>1. Fits([task[t] EXCEPT !.pc = "fetch"])
      BY <1>1, <1>4, <2>2 DEF HandleMarketCreated, handleEvent, Goes, Reading
    <3>. QED BY <1>4, <3>1 DEF handleEvent, At
  <2>3. CASE HandleTraded(t) \/ HandleMarketResolved(t) \/ HandleOther(t)
    <3>1. Goes(t, "setState") \/ Becomes(t, Done)
      BY <2>3 DEF HandleTraded, HandleMarketResolved, HandleOther
    <3>2. Goes(t, "setState") => Fits([task[t] EXCEPT !.pc = "setState"])
      BY <1>1, <1>4, <2>1 DEF Goes, Reading, handleEvent, At
    <3>. QED BY <1>2, <1>4, <3>1, <3>2 DEF handleEvent, At
  <2>. QED BY <1>4, <2>2, <2>3 DEF handleEvent
<1>5. CASE SetState(t)
  BY <1>2, <1>5 DEF SetState, At
<1>6. CASE FetchMarket(t)
  <2>. DEFINE new == [task[t] EXCEPT !.pc = "sides",
                                     !.seen = [OnChain EXCEPT !.reserve = 0]]
  <2>1. new \in TaskType /\ new.pc = "sides" /\ new.event = task[t].event
    BY <1>0 DEF TaskType, SeenType
  <2>2. Becomes(t, new) \/ Becomes(t, AfterSync(t))
    BY <1>6 DEF FetchMarket
  <2>. HIDE DEF new
  <2>3. task[t].pc \in Reading /\ ~At(t, "done")
    BY <1>6 DEF FetchMarket, At, Reading
  <2>4. Becomes(t, new) => Fits(new)
    BY <2>1, <2>3 DEF Reading
  <2>. QED BY <1>3, <1>6, <2>2, <2>3, <2>4 DEF FetchMarket
<1>7. CASE FetchSides(t)
  <2>. DEFINE new == [task[t] EXCEPT !.pc = "write",
                        !.seen.reserve = IF OnChain.found THEN OnChain.reserve ELSE 0]
  <2>0. (IF OnChain.found THEN OnChain.reserve ELSE 0) \in Nat
    BY <1>0 DEF SeenType
  <2>1. new \in TaskType /\ new.pc = "write" /\ new.event = task[t].event
    BY <1>0, <2>0 DEF TaskType, SeenType
  <2>2. Becomes(t, new)
    BY <1>7 DEF FetchSides
  <2>. HIDE DEF new
  <2>3. task[t].pc \in Reading /\ ~At(t, "done")
    BY <1>7 DEF FetchSides, At, Reading
  <2>4. Fits(new)
    BY <2>1, <2>2, <2>3 DEF Reading
  <2>. QED BY <1>7, <2>3, <2>4 DEF FetchSides
<1>8. CASE WriteSync(t)
  <2>1. task[t].pc \in Reading /\ ~At(t, "done") /\ Becomes(t, AfterSync(t))
    BY <1>8 DEF WriteSync, At, Reading
  <2>. QED BY <1>3, <1>8, <2>1 DEF WriteSync
<1>9. CASE RequestFails(t)
  <2>1. CASE At(t, "sides")
    <3>1. Fits([task[t] EXCEPT !.pc = "write"])
      BY <1>1, <1>9, <2>1 DEF RequestFails, At, Reading
    <3>. QED BY <1>9, <3>1 DEF RequestFails
  <2>2. CASE task[t].pc \in {"fetch", "write"}
    <3>1. Becomes(t, AfterSync(t)) /\ task[t].pc \in Reading
      BY <1>9, <2>2 DEF RequestFails, At, Reading
    <3>. QED BY <1>3, <1>9, <3>1 DEF RequestFails
  <2>3. CASE ~At(t, "sides") /\ task[t].pc \notin {"fetch", "write"}
    <3>1. Becomes(t, Done)
      BY <1>9, <2>3 DEF RequestFails
    <3>. QED BY <1>2, <1>9, <3>1 DEF RequestFails
  <2>. QED BY <2>1, <2>2, <2>3
<1>. QED BY <1>4, <1>5, <1>6, <1>7, <1>8, <1>9 DEF TaskStep

LEMMA TaskNames ==
  /\ Tasks = {Main, Updater} \cup Events
  /\ Main \notin Events /\ Updater \notin Events /\ Main # Updater
  /\ Main = 0 /\ MaxEvents \in Nat
BY IndexerAssumption DEF IndexerAssumption, Main, Updater, Tasks, Events

LEMMA InitFits == Init => TasksFit /\ PhaseFits /\ CreatedFirst
<1>. SUFFICES ASSUME Init PROVE TasksFit /\ PhaseFits /\ CreatedFirst
  OBVIOUS
<1>1. \A t \in Tasks : task[t].pc = "done" /\ task[t].event = 0
  BY DEF Init, Done
<1>2. queue = {} /\ phase = "down" /\ DOMAIN ledger = {}
  BY DEF Init
<1>. QED BY <1>1, <1>2, TaskNames DEF TasksFit, PhaseFits, CreatedFirst, At, Reading

(* The only handler an event starts is its own.                            *)
LEMMA EmitTask ==
  ASSUME TypeOK, NEW kind \in Kinds, Emit(kind)
  PROVE  LET e == Len(ledger) + 1
         IN  /\ e \in Events /\ e > known
             /\ \A t \in Tasks \ {e} : task'[t] = task[t]
             /\ \/ task'[e] = task[e]
                \/ /\ phase = "running" /\ task'[e].pc = "handle"
                   /\ task'[e].event = e
<1>. DEFINE e == Len(ledger) + 1
<1>1. e \in Events /\ e > known /\ e \in Tasks
  BY LedgerEntries, TaskNames DEF Emit, Events, TypeOK
<1>2. task' = task \/ (/\ phase = "running"
                       /\ task' = [task EXCEPT ![e] =
                            [Done EXCEPT !.pc = "handle", !.event = e]])
  BY DEF Emit, Listening
<1>. HIDE DEF e
<1>3. task \in [Tasks -> TaskType]
  BY DEF TypeOK
<1>4. /\ e \in Events /\ e > known
      /\ \A t \in Tasks \ {e} : task'[t] = task[t]
      /\ \/ task'[e] = task[e]
         \/ /\ phase = "running" /\ task'[e].pc = "handle"
            /\ task'[e].event = e
  BY <1>1, <1>2, <1>3 DEF Done
<1>. QED BY <1>4 DEF e

LEMMA NextCreatedFirst == TypeOK /\ CreatedFirst /\ [Next]_vars => CreatedFirst'
<1>. SUFFICES ASSUME TypeOK, CreatedFirst, [Next]_vars PROVE CreatedFirst'
  OBVIOUS
<1>1. ASSUME NEW kind \in Kinds, Emit(kind) PROVE CreatedFirst'
  <2>1. /\ Len(ledger') = Len(ledger) + 1 /\ Len(ledger) \in Nat
        /\ \A e \in 1 .. Len(ledger) : ledger'[e] = ledger[e]
        /\ ledger'[Len(ledger')].kind = kind
        /\ ledger' \in Seq(Entry)
    BY <1>1, LedgerGrows DEF Entry
  <2>2. kind = "MarketCreated" => Len(ledger) = 0
    BY <1>1 DEF Emit, Possible
  <2>3. DOMAIN ledger' = 1 .. Len(ledger) + 1 /\ DOMAIN ledger = 1 .. Len(ledger)
    BY <2>1, LedgerEntries
  <2>. QED BY <2>1, <2>2, <2>3 DEF CreatedFirst
<1>2. CASE ledger' = ledger
  BY <1>2 DEF CreatedFirst
<1>. QED
  BY <1>1, <1>2
  DEF Next, Kinds, Start, ListSignatures, BackfillNext, startEventListener, TaskStep,
      handleEvent, SetState, FetchMarket, FetchSides, WriteSync, RequestFails,
      UpdateReserves, WriteReserves, Crash, vars

LEMMA NextTasksFit ==
  TypeOK /\ TasksFit /\ PhaseFits /\ CreatedFirst /\ [Next]_vars => TasksFit'
<1>. SUFFICES ASSUME TypeOK, TasksFit, PhaseFits, CreatedFirst, [Next]_vars
              PROVE  TasksFit'
  OBVIOUS
<1>0. /\ task \in [Tasks -> TaskType] /\ Done.pc = "done" /\ Done.event = 0
      /\ DOMAIN ledger = 1 .. Len(ledger) /\ Len(ledger) \in Nat
  BY LedgerEntries DEF TypeOK, Done
<1>1. ASSUME NEW kind \in Kinds, Emit(kind) PROVE TasksFit'
  <2>. DEFINE e == Len(ledger) + 1
  <2>1. /\ Len(ledger') = e /\ \A d \in DOMAIN ledger : ledger'[d] = ledger[d]
        /\ DOMAIN ledger' = 1 .. e /\ DOMAIN ledger \subseteq DOMAIN ledger'
        /\ e \in DOMAIN ledger'
    BY <1>0, <1>1, LedgerGrows
  <2>2. /\ e \in Events /\ e > known
        /\ \A t \in Tasks \ {e} : task'[t] = task[t]
        /\ \/ task'[e] = task[e]
           \/ task'[e].pc = "handle" /\ task'[e].event = e
    BY <1>1, EmitTask
  <2>3. queue' = queue /\ known' = known
    BY <1>1 DEF Emit
  <2>. HIDE DEF e
  <2>4. \A t \in Tasks :
          /\ task'[t].pc \in {"handle", "setState"} => task'[t].event \in DOMAIN ledger'
          /\ task'[t].pc \in Reading /\ task'[t].event # 0 =>
               /\ task'[t].event \in DOMAIN ledger'
               /\ ledger'[task'[t].event].kind = "MarketCreated"
    BY <2>1, <2>2 DEF TasksFit, Reading
  <2>5. \A t \in Events : ~At(t, "done")' =>
          task'[t].event = t /\ t > known' /\ ~At(t, "update")'
    BY <2>2, <2>3, TaskNames DEF TasksFit, At
  <2>6. task'[Updater].pc \in {"done", "update"} /\ ~At(Main, "update")'
    BY <2>2, TaskNames DEF TasksFit, At
  <2>. QED BY <2>1, <2>3, <2>4, <2>5, <2>6 DEF TasksFit
<1>2. CASE Start
  <2>1. /\ \A t \in Tasks \ {Main} : task'[t] = task[t] /\ At(t, "done")
        /\ task'[Main].pc \in {"fetch", "done"} /\ task'[Main].event = 0
        /\ queue' = queue /\ queue = {} /\ ledger' = ledger
    BY <1>0, <1>2, TaskNames DEF Start, PhaseFits, Becomes, dbVars, Done
  <2>. QED BY <2>1, TaskNames DEF TasksFit, At, Reading
<1>3. CASE ListSignatures
  BY <1>3 DEF TasksFit, ListSignatures, At
<1>4. CASE BackfillNext
  <2>1. PICK e \in queue :
          /\ Becomes(Main, [Done EXCEPT !.pc = "handle", !.event = e])
          /\ queue' = queue \ {e}
    BY <1>4 DEF BackfillNext
  <2>2. /\ \A t \in Tasks \ {Main} : task'[t] = task[t]
        /\ task'[Main].pc = "handle" /\ task'[Main].event = e
        /\ ledger' = ledger /\ known' = known
    BY <1>0, <1>4, <2>1, TaskNames DEF BackfillNext, Becomes, Done
  <2>. QED BY <2>1, <2>2, TaskNames DEF TasksFit, At, Reading
<1>5. CASE startEventListener
  BY <1>5 DEF TasksFit, startEventListener, At
<1>6. ASSUME NEW t \in Tasks, TaskStep(t) \/ RequestFails(t) PROVE TasksFit'
  <2>1. /\ ~At(t, "done") /\ UNCHANGED <<ledger, queue, known>>
        /\ \A u \in Tasks \ {t} : task'[u] = task[u]
        /\ task'[t].pc \in Reading \cup {"done", "setState"}
        /\ task'[t].event = IF task'[t].pc = "done" THEN 0 ELSE task[t].event
        /\ task'[t].pc = "setState" =>
             ~At(t, "update") /\ task'[t].event \in DOMAIN ledger
        /\ task'[t].pc \in Reading =>
             \/ task[t].pc \in Reading
             \/ At(t, "handle") /\ Kind(t) = "MarketCreated"
    BY <1>0, <1>6, TaskMoves DEF Becomes
  <2>2. \A u \in Tasks :
          /\ task'[u].pc \in {"handle", "setState"} => task'[u].event \in DOMAIN ledger'
          /\ task'[u].pc \in Reading /\ task'[u].event # 0 =>
               /\ task'[u].event \in DOMAIN ledger'
               /\ ledger'[task'[u].event].kind = "MarketCreated"
    BY <2>1 DEF TasksFit, Reading, At, Kind
  <2>3. \A u \in Events : ~At(u, "done")' =>
          task'[u].event = u /\ u > known' /\ ~At(u, "update")'
    BY <2>1, TaskNames DEF TasksFit, At, Reading
  <2>4. ~At(Main, "update")'
    BY <2>1, TaskNames DEF TasksFit, At, Reading
  <2>5. task'[Updater].pc \in {"done", "update"}
    <3>1. CASE t # Updater
      BY <2>1, <3>1, TaskNames DEF TasksFit
    <3>2. CASE t = Updater
      BY <2>1, <3>2, TaskNames DEF TasksFit, At, Reading
    <3>. QED BY <3>1, <3>2
  <2>6. queue' \subseteq DOMAIN ledger'
    BY <2>1 DEF TasksFit
  <2>. QED BY <2>2, <2>3, <2>4, <2>5, <2>6 DEF TasksFit
<1>7. CASE UpdateReserves \/ WriteReserves
  <2>1. /\ \A t \in Tasks \ {Updater} : task'[t] = task[t]
        /\ task'[Updater].pc \in {"done", "update"}
        /\ UNCHANGED <<ledger, queue, known>>
    <3>1. PICK new : Becomes(Updater, new) /\ new.pc \in {"done", "update"}
      <4>1. [Done EXCEPT !.pc = "update", !.seen = OnChain].pc = "update"
        BY DEF Done
      <4>. QED BY <1>0, <1>7, <4>1 DEF UpdateReserves, WriteReserves
    <3>2. UNCHANGED <<ledger, queue, known>>
      BY <1>7 DEF UpdateReserves, WriteReserves
    <3>. QED BY <1>0, <3>1, <3>2, TaskNames DEF Becomes
  <2>. QED BY <2>1, TaskNames DEF TasksFit, At, Reading
<1>8. CASE Crash
  <2>1. /\ \A t \in Tasks : task'[t].pc = "done" /\ task'[t].event = 0
        /\ queue' = {} /\ ledger' = ledger
    BY <1>0, <1>8 DEF Crash
  <2>. QED BY <2>1, TaskNames DEF TasksFit, At, Reading
<1>9. CASE UNCHANGED vars
  BY <1>9 DEF TasksFit, vars, At
<1>. QED
  BY <1>1, <1>2, <1>3, <1>4, <1>5, <1>6, <1>7, <1>8, <1>9 DEF Next, Kinds

LEMMA NextPhaseFits == TypeOK /\ TasksFit /\ PhaseFits /\ [Next]_vars => PhaseFits'
<1>. SUFFICES ASSUME TypeOK, TasksFit, PhaseFits, [Next]_vars PROVE PhaseFits'
  OBVIOUS
<1>0. /\ task \in [Tasks -> TaskType] /\ Done.pc = "done" /\ Done.event = 0
      /\ starts \in Nat /\ phase \in {"down", "sync", "backfill", "running"}
  BY DEF TypeOK, Done
<1>1. ASSUME NEW kind \in Kinds, Emit(kind) PROVE PhaseFits'
  <2>. DEFINE e == Len(ledger) + 1
  <2>1. /\ e \in Events
        /\ \A t \in Tasks \ {e} : task'[t] = task[t]
        /\ phase # "running" => task'[e] = task[e]
    BY <1>1, EmitTask
  <2>2. UNCHANGED <<queue, phase, starts>>
    BY <1>1 DEF Emit
  <2>. HIDE DEF e
  <2>. QED BY <2>1, <2>2, TaskNames DEF PhaseFits, At
<1>2. CASE Start
  <2>1. /\ \A t \in Tasks \ {Main} : task'[t] = task[t] /\ At(t, "done")
        /\ task'[Main].pc \in {"fetch", "done"} /\ task'[Main].event = 0
        /\ queue' = queue /\ queue = {} /\ phase' = "sync" /\ starts' = starts + 1
    BY <1>0, <1>2, TaskNames DEF Start, PhaseFits, Becomes, Done
  <2>. QED BY <1>0, <2>1, TaskNames DEF PhaseFits, At, Reading
<1>3. CASE ListSignatures
  BY <1>3 DEF PhaseFits, ListSignatures, At
<1>4. CASE BackfillNext
  <2>1. PICK e \in queue :
          Becomes(Main, [Done EXCEPT !.pc = "handle", !.event = e])
    BY <1>4 DEF BackfillNext
  <2>2. /\ \A t \in Tasks \ {Main} : task'[t] = task[t]
        /\ phase = "backfill" /\ phase' = phase /\ starts' = starts
    BY <1>0, <1>4, <2>1, TaskNames DEF BackfillNext, Becomes
  <2>. QED BY <2>2, TaskNames DEF PhaseFits, At
<1>5. CASE startEventListener
  BY <1>5 DEF PhaseFits, startEventListener, At
<1>6. ASSUME NEW t \in Tasks, TaskStep(t) \/ RequestFails(t) PROVE PhaseFits'
  <2>1. /\ ~At(t, "done") /\ UNCHANGED <<phase, queue, starts>>
        /\ \A u \in Tasks \ {t} : task'[u] = task[u]
        /\ task'[t].pc \in Reading \cup {"done", "setState"}
        /\ task'[t].event = IF task'[t].pc = "done" THEN 0 ELSE task[t].event
        /\ task'[t].pc = "setState" =>
             ~At(t, "update") /\ task'[t].event \in DOMAIN ledger
    BY <1>0, <1>6, TaskMoves DEF Becomes
  <2>2. 0 \notin DOMAIN ledger
    BY LedgerEntries
  <2>3. phase' = "sync" => /\ queue' = {}
                          /\ task'[Main].pc \in Reading \cup {"done"}
    BY <2>1, <2>2, TaskNames DEF PhaseFits, At, Reading
  <2>4. phase' = "sync" => task'[Main].event = 0
    BY <2>1, TaskNames DEF PhaseFits, At, Reading
  <2>. QED BY <2>1, <2>3, <2>4, TaskNames DEF PhaseFits, At, Reading
<1>7. CASE UpdateReserves \/ WriteReserves
  <2>1. /\ \A t \in Tasks \ {Updater} : task'[t] = task[t]
        /\ phase = "running" \/ ~At(Updater, "done")
        /\ UNCHANGED <<phase, queue, starts>>
    BY <1>0, <1>7, TaskNames
    DEF UpdateReserves, WriteReserves, Becomes, Listening, At
  <2>. QED BY <1>0, <2>1, TaskNames DEF PhaseFits, At, Reading
<1>8. CASE Crash
  <2>1. (\A t \in Tasks : task'[t].pc = "done") /\ queue' = {} /\ phase' = "down"
    BY <1>0, <1>8 DEF Crash
  <2>. QED BY <2>1 DEF PhaseFits, At
<1>9. CASE UNCHANGED vars
  BY <1>9 DEF PhaseFits, vars, At
<1>. QED
  BY <1>1, <1>2, <1>3, <1>4, <1>5, <1>6, <1>7, <1>8, <1>9 DEF Next, Kinds

IndexerInv == TypeOK /\ TasksFit /\ PhaseFits /\ CreatedFirst

(* Rows, snapshots and tasks keep their types, the cursor and the counts   *)
(* of inserted rows stay natural numbers, and every task works on an event *)
(* of the log in the phase it belongs to (indexer.ts:369-394).             *)
THEOREM IndexerInvariant == Spec => []IndexerInv
<1>1. Init => IndexerInv
  BY InitTypeOK, InitFits DEF IndexerInv
<1>2. IndexerInv /\ [Next]_vars => IndexerInv'
  BY NextTypeOK, NextTasksFit, NextPhaseFits, NextCreatedFirst DEF IndexerInv
<1>. QED BY <1>1, <1>2, PTL DEF Spec

(* The type of the indexer's state.                                        *)
THEOREM IndexerTypes == Spec => []TypeOK
BY IndexerInvariant, PTL DEF IndexerInv

-----------------------------------------------------------------------------
(* RowsTrue: what a row shows, and what a task has read and not yet        *)
(* written, was once so on the chain.                                      *)

Shown(resolved, winner, reserve) == /\ resolved => OnChain.resolved
                                    /\ winner # Null => winner = ChainWinner
                                    /\ reserve <= OnChain.reserve
SeenTrue == \A t \in Tasks : LET seen == task[t].seen
                             IN  Shown(seen.resolved, seen.winner, seen.reserve)
RowShown == Shown(row.status = "resolved", row.winner, row.reserve)
RowInv == IndexerInv /\ SeenTrue /\ RowShown

LEMMA ReserveLater == ASSUME TypeOK' PROVE OnChain'.reserve \in Nat
<1>1. (EventsOf("Traded") \subseteq 1 .. Len(ledger))' /\ Len(ledger') \in Nat
  BY DEF EventsOf, TypeOK
<1>2. IsFiniteSet(1 .. Len(ledger'))
  BY <1>1, FS_Interval
<1>3. Cardinality(EventsOf("Traded")') \in Nat
  BY <1>1, <1>2, FS_Subset, FS_CardinalityType
<1>. QED BY <1>3 DEF OnChain

LEMMA ShownLater ==
  ASSUME TypeOK, TypeOK', NEW kind \in Kinds, Emit(kind),
         NEW resolved \in BOOLEAN, NEW winner \in Winners, NEW reserve \in Nat,
         Shown(resolved, winner, reserve)
  PROVE  Shown(resolved, winner, reserve)'
<1>1. OnChain.reserve \in Nat /\ OnChain'.reserve \in Nat
  BY OnChainType, ReserveLater DEF SeenType
<1>. QED BY <1>1, ChainGrows DEF Shown

LEMMA InitRowInv == Init => RowInv
<1>. SUFFICES ASSUME Init PROVE RowInv
  OBVIOUS
<1>1. IndexerInv
  BY InitTypeOK, InitFits DEF IndexerInv
<1>2. OnChain.reserve \in Nat
  BY <1>1, OnChainType DEF IndexerInv, SeenType
<1>3. Shown(FALSE, Null, 0)
  BY <1>2 DEF Shown
<1>4. SeenTrue
  BY <1>3 DEF SeenTrue, Init, Done, Unread
<1>5. RowShown
  BY <1>3 DEF RowShown, Init, NoRow, Shown
<1>. QED BY <1>1, <1>4, <1>5 DEF RowInv

LEMMA NextRowInv == RowInv /\ [Next]_vars => RowInv'
<1>. SUFFICES ASSUME RowInv, [Next]_vars PROVE RowInv'
  OBVIOUS
<1>0. IndexerInv /\ IndexerInv' /\ TypeOK /\ TypeOK' /\ TasksFit
  BY NextTypeOK, NextTasksFit, NextPhaseFits, NextCreatedFirst
  DEF RowInv, IndexerInv
<1>a. /\ task \in [Tasks -> TaskType] /\ Done.seen = Unread
      /\ \A t \in Tasks : task[t].seen \in SeenType
      /\ OnChain \in SeenType /\ OnChain.reserve \in Nat
      /\ OnChain.winner = ChainWinner
      /\ row.winner \in Winners /\ row.reserve \in Nat
  BY <1>0, OnChainType DEF TypeOK, Done, TaskType, SeenType, OnChain
<1>b. /\ Unread.reserve = 0 /\ Unread.winner = Null /\ Unread.resolved = FALSE
      /\ Shown(FALSE, Null, 0)
      /\ Shown(OnChain.resolved, OnChain.winner, OnChain.reserve)
      /\ Shown(OnChain.resolved, OnChain.winner, 0)
  BY <1>a DEF Unread, Shown
<1>c. Shown(Unread.resolved, Unread.winner, Unread.reserve)
  BY <1>b
<1>d. /\ \A t \in Tasks : task[t] \in TaskType
      /\ row \in [exists : BOOLEAN, status : {"active", "resolved"},
                  winner : Winners, reserve : Nat]
  BY <1>0 DEF TypeOK
<1>1. ASSUME NEW kind \in Kinds, Emit(kind) PROVE SeenTrue' /\ RowShown'
  <2>1. ASSUME NEW t \in Tasks
        PROVE  Shown(task[t].seen.resolved, task[t].seen.winner,
                     task[t].seen.reserve)'
    <3>1. /\ task[t].seen.resolved \in BOOLEAN /\ task[t].seen.winner \in Winners
          /\ task[t].seen.reserve \in Nat
      BY <1>a DEF SeenType
    <3>2. task'[t].seen = task[t].seen \/ task'[t].seen = Unread
      BY <1>1, <1>a DEF Emit, Done
    <3>3. CASE task'[t].seen = task[t].seen
      <4>1. Shown(task[t].seen.resolved, task[t].seen.winner, task[t].seen.reserve)
        BY DEF RowInv, SeenTrue
      <4>2. \A r \in BOOLEAN, w \in Winners, n \in Nat :
              Shown(r, w, n) => Shown(r, w, n)'
        BY <1>0, <1>1, ShownLater
      <4>. QED BY <3>1, <3>3, <4>1, <4>2 DEF Shown
    <3>4. CASE task'[t].seen = Unread
      <4>1. OnChain'.reserve \in Nat
        BY <1>0, ReserveLater
      <4>. QED BY <1>b, <3>4, <4>1 DEF Shown
    <3>. QED BY <3>2, <3>3, <3>4
  <2>2. row' = row
    BY <1>1 DEF Emit, dbVars
  <2>3. RowShown'
    <3>1. Shown(row.status = "resolved", row.winner, row.reserve)'
      <4>1. Shown(row.status = "resolved", row.winner, row.reserve)
        BY DEF RowInv, RowShown
      <4>2. \A r \in BOOLEAN, w \in Winners, n \in Nat :
              Shown(r, w, n) => Shown(r, w, n)'
        BY <1>0, <1>1, ShownLater
      <4>. QED BY <1>a, <2>2, <4>1, <4>2 DEF Shown
    <3>. QED BY <3>1 DEF RowShown
  <2>. QED BY <2>1, <2>3 DEF SeenTrue
<1>2. CASE UNCHANGED <<ledger, row>> /\
           \A t \in Tasks : task'[t].seen = task[t].seen \/ task'[t].seen = Unread
  <2>1. OnChain' = OnChain /\ ChainWinner' = ChainWinner /\ row' = row
    BY <1>2, ChainStands
  <2>2. RowShown'
    BY <2>1 DEF RowInv, RowShown, Shown
  <2>3. ASSUME NEW t \in Tasks
        PROVE  Shown(task[t].seen.resolved, task[t].seen.winner,
                     task[t].seen.reserve)'
    <3>1. Shown(task[t].seen.resolved, task[t].seen.winner, task[t].seen.reserve)
      BY DEF RowInv, SeenTrue
    <3>2. CASE task'[t].seen = task[t].seen
      BY <2>1, <3>1, <3>2 DEF Shown
    <3>3. CASE task'[t].seen = Unread
      BY <1>c, <2>1, <3>3 DEF Shown
    <3>. QED BY <1>2, <3>2, <3>3
  <2>. QED BY <1>0, <2>2, <2>3 DEF RowInv, SeenTrue
<1>3. CASE Start \/ ListSignatures \/ BackfillNext \/ startEventListener \/ Crash
  <2>1. ASSUME NEW t \in Tasks
        PROVE  task'[t].seen = task[t].seen \/ task'[t].seen = Unread
    BY <1>3, <1>a
    DEF Start, ListSignatures, BackfillNext, startEventListener, Crash, Becomes, Done
  <2>. QED
    BY <1>2, <1>3, <2>1
    DEF Start, ListSignatures, BackfillNext, startEventListener, Crash, dbVars
<1>4. ASSUME NEW t \in Tasks, TaskStep(t) PROVE SeenTrue' /\ RowShown'
  <2>0. OnChain' = OnChain /\ ChainWinner' = ChainWinner
    <3>1. ledger' = ledger
      BY <1>0, <1>4, TaskMoves
    <3>. QED BY <3>1, ChainStands
  <2>1. CASE handleEvent(t)
    <3>1. /\ row'.winner = row.winner /\ row'.reserve = row.reserve
          /\ row'.status = row.status \/ row'.status = "active"
      <4>1. CASE HandleMarketCreated(t)
        BY <1>d, <4>1 DEF HandleMarketCreated, upsertMarket
      <4>2. CASE HandleMarketResolved(t)
        BY <4>2 DEF HandleMarketResolved, upsertMarket, UpsertAccepted, NotNullColumns
      <4>3. CASE HandleTraded(t) \/ HandleOther(t)
        BY <4>3 DEF HandleTraded, HandleOther
      <4>. QED BY <2>1, <4>1, <4>2, <4>3 DEF handleEvent
    <3>2. ASSUME NEW u \in Tasks
          PROVE  task'[u].seen = task[u].seen \/ task'[u].seen = Unread
      <4>1. Becomes(t, Done) \/ \E pc : Goes(t, pc)
        BY <2>1 DEF handleEvent, HandleMarketCreated, HandleTraded,
                    HandleMarketResolved, HandleOther
      <4>. QED BY <1>a, <1>d, <4>1 DEF Becomes, Goes, TaskType
    <3>3. RowShown'
      BY <2>0, <3>1 DEF RowInv, RowShown, Shown
    <3>. QED BY <1>c, <2>0, <3>2, <3>3 DEF RowInv, SeenTrue, Shown
  <2>2. CASE SetState(t)
    <3>1. \A u \in Tasks : task'[u].seen = task[u].seen \/ task'[u].seen = Unread
      BY <1>a, <2>2 DEF SetState, Becomes
    <3>. QED BY <1>2, <2>2, <3>1 DEF RowInv, SetState
  <2>3. CASE FetchMarket(t)
    <3>. DEFINE new == [task[t] EXCEPT !.pc = "sides",
                                       !.seen = [OnChain EXCEPT !.reserve = 0]]
    <3>1. /\ new.seen.resolved = OnChain.resolved
          /\ new.seen.winner = OnChain.winner /\ new.seen.reserve = 0
      BY <1>a, <1>d DEF TaskType, SeenType
    <3>2. Becomes(t, new) \/ Becomes(t, AfterSync(t))
      BY <2>3 DEF FetchMarket
    <3>. HIDE DEF new
    <3>3. AfterSync(t).seen = Unread
      BY <1>a, <1>d DEF AfterSync, TaskType
    <3>4. SeenTrue'
      BY <1>a, <1>b, <1>c, <2>0, <3>1, <3>2, <3>3
      DEF RowInv, SeenTrue, Shown, Becomes
    <3>5. row' = row
      BY <2>3 DEF FetchMarket, dbVars
    <3>. QED BY <2>0, <3>4, <3>5 DEF RowInv, RowShown, Shown
  <2>4. CASE FetchSides(t)
    <3>. DEFINE read == IF OnChain.found THEN OnChain.reserve ELSE 0
                new == [task[t] EXCEPT !.pc = "write", !.seen.reserve = read]
    <3>1. /\ new.seen.resolved = task[t].seen.resolved
          /\ new.seen.winner = task[t].seen.winner /\ new.seen.reserve = read
      BY <1>a, <1>d DEF TaskType, SeenType
    <3>2. Becomes(t, new)
      BY <2>4 DEF FetchSides
    <3>3. read <= OnChain.reserve
      BY <1>a
    <3>. HIDE DEF new, read
    <3>4. SeenTrue'
      BY <1>a, <2>0, <3>1, <3>2, <3>3 DEF RowInv, SeenTrue, Shown, Becomes
    <3>5. row' = row
      BY <2>4 DEF FetchSides, dbVars
    <3>. QED BY <2>0, <3>4, <3>5 DEF RowInv, RowShown, Shown
  <2>5. CASE WriteSync(t)
    <3>. DEFINE seen == task[t].seen
    <3>1. /\ row'.status = getMarketStatus(seen) /\ row'.winner = seen.winner
          /\ row'.reserve = seen.reserve
      BY <1>d, <2>5
      DEF WriteSync, upsertMarket, UpsertAccepted, NotNullColumns, SyncedWinner
    <3>2. row'.status = "resolved" => seen.resolved
      BY <3>1 DEF getMarketStatus
    <3>3. Shown(seen.resolved, seen.winner, seen.reserve)
      BY DEF RowInv, SeenTrue
    <3>. HIDE DEF seen
    <3>4. RowShown'
      BY <2>0, <3>1, <3>2, <3>3 DEF RowShown, Shown
    <3>5. AfterSync(t).seen = Unread /\ Becomes(t, AfterSync(t))
      BY <1>a, <1>d, <2>5 DEF AfterSync, TaskType, WriteSync
    <3>6. SeenTrue'
      BY <1>a, <1>c, <2>0, <3>5 DEF RowInv, SeenTrue, Shown, Becomes
    <3>. QED BY <3>4, <3>6
  <2>. QED BY <1>4, <2>1, <2>2, <2>3, <2>4, <2>5 DEF TaskStep
<1>5. ASSUME NEW t \in Tasks, RequestFails(t) PROVE SeenTrue' /\ RowShown'
  <2>1. [task[t] EXCEPT !.pc = "write"].seen = task[t].seen
    BY <1>d DEF TaskType
  <2>2. AfterSync(t).seen = Unread
    BY <1>a, <1>d DEF AfterSync, TaskType
  <2>3. PICK new : Becomes(t, new) /\ new.seen \in {task[t].seen, Unread}
    BY <1>5, <1>a, <2>1, <2>2 DEF RequestFails
  <2>4. \A u \in Tasks : task'[u].seen = task[u].seen \/ task'[u].seen = Unread
    BY <1>a, <2>3 DEF Becomes
  <2>. QED BY <1>2, <1>5, <2>4 DEF RowInv, RequestFails, dbVars
<1>6. CASE UpdateReserves
  <2>1. [Done EXCEPT !.pc = "update", !.seen = OnChain].seen = OnChain
    BY DEF Done
  <2>2. PICK new : Becomes(Updater, new) /\ new.seen = OnChain
    BY <1>6, <2>1 DEF UpdateReserves
  <2>3. /\ row' = row /\ OnChain' = OnChain /\ ChainWinner' = ChainWinner
    BY <1>6, ChainStands DEF UpdateReserves, dbVars
  <2>4. SeenTrue'
    BY <1>a, <1>b, <2>2, <2>3, TaskNames DEF RowInv, SeenTrue, Shown, Becomes
  <2>5. RowShown'
    BY <2>3 DEF RowInv, RowShown, Shown
  <2>. QED BY <1>0, <2>4, <2>5 DEF RowInv
<1>7. CASE WriteReserves
  <2>1. row' = row /\ ledger' = ledger /\ Becomes(Updater, Done)
    BY <1>7 DEF WriteReserves, upsertMarket, UpsertAccepted, NotNullColumns
  <2>2. \A u \in Tasks : task'[u].seen = task[u].seen \/ task'[u].seen = Unread
    BY <1>a, <2>1 DEF Becomes
  <2>. QED BY <1>2, <2>1, <2>2
<1>8. CASE UNCHANGED vars
  BY <1>2, <1>8 DEF vars, dbVars
<1>. QED
  BY <1>0, <1>1, <1>3, <1>4, <1>5, <1>6, <1>7, <1>8 DEF RowInv, Next, Kinds

(* Stale synchronisations, handlers in any order, replays and failed       *)
(* requests never make a row show an outcome, a winner or a reserve the    *)
(* chain did not have (indexer.ts:182-199, db.ts:37-53).                   *)
THEOREM IndexerRowsTrue == Spec => []RowsTrue
<1>1. RowInv => RowsTrue
  BY DEF RowInv, RowShown, Shown, RowsTrue
<1>. QED BY <1>1, InitRowInv, NextRowInv, PTL DEF Spec

-----------------------------------------------------------------------------
(* AtMostOncePerStart: an event that this start has still to insert has    *)
(* been inserted at most once by each start before.                        *)

Due(e) == \/ phase = "sync"
          \/ e \in queue
          \/ phase # "down" /\ e > Len(ledger)
          \/ \E t \in Tasks : At(t, "handle") /\ task[t].event = e

Inserts ==
  /\ AtMostOncePerStart
  /\ \A e \in Events : Due(e) => inserted[e] < starts
  /\ \A e \in Events : e > Len(ledger) => inserted[e] = 0
  /\ \A t \in Tasks : At(t, "handle") => task[t].event \notin queue

OnceInv == IndexerInv /\ Inserts

LEMMA InitOnceInv == Init => OnceInv
<1>. SUFFICES ASSUME Init PROVE OnceInv
  OBVIOUS
<1>1. IndexerInv
  BY InitTypeOK, InitFits DEF IndexerInv
<1>2. /\ \A t \in Tasks : ~At(t, "handle")
      /\ queue = {} /\ phase = "down" /\ starts = 0
      /\ \A e \in Events : inserted[e] = 0
  BY DEF Init, Done, At
<1>. QED BY <1>1, <1>2 DEF OnceInv, Inserts, AtMostOncePerStart, Due

(* Two tasks never handle the same event.                                  *)
LEMMA HandledByOne ==
  ASSUME IndexerInv, NEW t \in Tasks, NEW u \in Tasks,
         At(t, "handle"), At(u, "handle"), task[t].event = task[u].event
  PROVE  t = u /\ phase \in {"backfill", "running"}
<1>1. phase \in {"backfill", "running"}
  BY DEF IndexerInv, PhaseFits, TypeOK, At, Reading
<1>2. CASE phase = "backfill"
  BY <1>1, <1>2 DEF IndexerInv, PhaseFits, At
<1>3. CASE phase = "running"
  BY <1>1, <1>3, TaskNames DEF IndexerInv, PhaseFits, TasksFit, At
<1>. QED BY <1>1, <1>2, <1>3

LEMMA NextInserts == OnceInv /\ [Next]_vars => Inserts'
<1>. SUFFICES ASSUME OnceInv, [Next]_vars PROVE Inserts'
  OBVIOUS
<1>0. IndexerInv /\ TypeOK /\ TasksFit /\ PhaseFits
  BY DEF OnceInv, IndexerInv
<1>a. /\ task \in [Tasks -> TaskType] /\ Done.pc = "done" /\ Done.event = 0
      /\ inserted \in [Events -> Nat] /\ starts \in Nat
      /\ DOMAIN ledger = 1 .. Len(ledger) /\ Len(ledger) \in Nat
      /\ Events = 1 .. MaxEvents /\ MaxEvents \in Nat
      /\ queue \subseteq DOMAIN ledger
  BY <1>0, LedgerEntries, TaskNames DEF TypeOK, TasksFit, Done, Events
<1>b. /\ AtMostOncePerStart
      /\ \A e \in Events : Due(e) => inserted[e] < starts
      /\ \A e \in Events : e > Len(ledger) => inserted[e] = 0
      /\ \A t \in Tasks : At(t, "handle") => task[t].event \notin queue
  BY DEF OnceInv, Inserts
<1>1. ASSUME NEW kind \in Kinds, Emit(kind) PROVE Inserts'
  <2>. DEFINE e == Len(ledger) + 1
  <2>1. /\ e \in Events /\ Len(ledger') = e
        /\ \A t \in Tasks \ {e} : task'[t] = task[t]
        /\ \/ task'[e] = task[e]
           \/ phase = "running" /\ task'[e].pc = "handle" /\ task'[e].event = e
    BY <1>0, <1>1, EmitTask, LedgerGrows
  <2>2. UNCHANGED <<inserted, queue, phase, starts>>
    BY <1>1 DEF Emit, dbVars
  <2>3. e \notin queue /\ e > Len(ledger)
    BY <1>a
  <2>. HIDE DEF e
  <2>4. ASSUME NEW d \in Events, Due(d)' PROVE Due(d)
    <3>1. CASE \E t \in Tasks : task'[t].pc = "handle" /\ task'[t].event = d
      <4>1. PICK t \in Tasks : task'[t].pc = "handle" /\ task'[t].event = d
        BY <3>1
      <4>2. task'[t] = task[t] \/ (phase = "running" /\ d > Len(ledger))
        <5>1. CASE t = e
          BY <2>1, <2>3, <4>1, <5>1
        <5>2. CASE t # e
          BY <2>1, <5>2
        <5>. QED BY <5>1, <5>2
      <4>. QED BY <4>1, <4>2 DEF Due, At
    <3>2. CASE phase' = "sync" \/ d \in queue'
      BY <2>2, <3>2 DEF Due
    <3>3. CASE phase' # "down" /\ d > Len(ledger')
      <4>1. d \in Int /\ Len(ledger') = Len(ledger) + 1
        BY <1>a, <2>1 DEF e
      <4>2. d > Len(ledger)
        BY <1>a, <3>3, <4>1
      <4>. QED BY <2>2, <3>3, <4>2 DEF Due
    <3>. QED BY <2>4, <3>1, <3>2, <3>3 DEF Due, At
  <2>5. AtMostOncePerStart'
    BY <1>b, <2>2 DEF Inserts, AtMostOncePerStart
  <2>6. \A t \in Tasks : At(t, "handle")' => task'[t].event \notin queue'
    BY <1>b, <2>1, <2>2, <2>3 DEF At
  <2>7. \A d \in Events : d > Len(ledger') => inserted'[d] = 0
    BY <1>a, <1>b, <2>1, <2>2, <2>3
  <2>. QED BY <1>b, <2>2, <2>4, <2>5, <2>6, <2>7 DEF Inserts
<1>2. CASE Start
  <2>1. /\ \A t \in Tasks : task'[t].pc # "handle"
        /\ starts' = starts + 1
        /\ UNCHANGED <<inserted, queue, ledger>> /\ queue = {}
    BY <1>0, <1>2, <1>a, TaskNames
    DEF Start, PhaseFits, Becomes, dbVars, At, Done
  <2>. QED BY <1>a, <1>b, <2>1 DEF Inserts, AtMostOncePerStart, Due, At
<1>3. CASE ListSignatures
  <2>1. /\ phase = "sync" /\ phase' = "backfill"
        /\ UNCHANGED <<inserted, task, ledger, starts>>
    BY <1>3 DEF ListSignatures, dbVars
  <2>2. \A t \in Tasks : ~At(t, "handle")
    BY <1>0, <1>3, TaskNames DEF ListSignatures, PhaseFits, At
  <2>. QED BY <1>b, <2>1, <2>2 DEF Inserts, AtMostOncePerStart, Due, At
<1>4. CASE BackfillNext
  <2>1. PICK e \in queue :
          /\ Becomes(Main, [Done EXCEPT !.pc = "handle", !.event = e])
          /\ queue' = queue \ {e}
    BY <1>4 DEF BackfillNext
  <2>2. /\ \A t \in Tasks \ {Main} : task'[t] = task[t]
        /\ task'[Main].pc = "handle" /\ task'[Main].event = e
        /\ UNCHANGED <<ledger, inserted, phase, starts>>
    BY <1>a, <1>4, <2>1, TaskNames DEF BackfillNext, Becomes, Done, dbVars
  <2>3. \A d \in Events : Due(d)' => Due(d)
    BY <1>a, <2>1, <2>2, TaskNames DEF Due, At
  <2>4. \A t \in Tasks : At(t, "handle")' => task'[t].event \notin queue'
    BY <1>b, <2>1, <2>2 DEF At
  <2>. QED BY <1>b, <2>2, <2>3, <2>4 DEF Inserts, AtMostOncePerStart
<1>5. CASE startEventListener
  BY <1>5, <1>b DEF startEventListener, dbVars, Inserts, AtMostOncePerStart, Due, At
<1>6. ASSUME NEW t \in Tasks, TaskStep(t) \/ RequestFails(t) PROVE Inserts'
  <2>1. /\ ~At(t, "done") /\ UNCHANGED <<ledger, phase, queue, starts>>
        /\ \A u \in Tasks \ {t} : task'[u] = task[u]
        /\ task'[t].pc # "handle"
    BY <1>0, <1>6, <1>a, TaskMoves DEF Becomes, Reading
  <2>2. ASSUME NEW d \in Events, Due(d)' PROVE Due(d)
    BY <2>1, <2>2 DEF Due, At
  <2>3. \A u \in Tasks : At(u, "handle")' => task'[u].event \notin queue'
    BY <1>b, <2>1 DEF At
  <2>4. CASE inserted' = inserted
    BY <1>b, <2>1, <2>2, <2>3, <2>4 DEF Inserts, AtMostOncePerStart
  <2>5. CASE inserted' # inserted
    <3>1. At(t, "handle") /\ HandleTraded(t)
      BY <1>6, <2>5
      DEF TaskStep, handleEvent, HandleMarketCreated, HandleMarketResolved,
          HandleOther, SetState, FetchMarket, FetchSides, WriteSync, RequestFails,
          dbVars
    <3>2. PICK e \in Events : e = task[t].event /\ e <= Len(ledger)
      BY <1>0, <1>a, <3>1 DEF TasksFit, TypeOK, At
    <3>3. inserted' = [inserted EXCEPT ![e] = @ + 1]
      BY <2>5, <3>1, <3>2 DEF HandleTraded
    <3>4. inserted[e] < starts
      BY <1>b, <3>1, <3>2 DEF Due
    <3>5. /\ phase # "sync" /\ e \notin queue
          /\ \A u \in Tasks : At(u, "handle") /\ task[u].event = e => u = t
      BY <1>0, <1>b, <3>1, <3>2, HandledByOne
    <3>6. ASSUME NEW d \in Events, Due(d)' PROVE d # e
      <4>1. phase' # "sync" /\ e \notin queue' /\ ~(e > Len(ledger'))
        BY <1>a, <2>1, <3>2, <3>5
      <4>2. ASSUME NEW u \in Tasks, task'[u].pc = "handle", task'[u].event = e
            PROVE  FALSE
        BY <2>1, <3>5, <4>2 DEF At
      <4>. QED BY <3>6, <4>1, <4>2 DEF Due, At
    <3>7. \A d \in Events : inserted'[d] = IF d = e THEN inserted[d] + 1 ELSE inserted[d]
      BY <1>a, <3>3
    <3>8. AtMostOncePerStart'
      BY <1>a, <1>b, <2>1, <3>4, <3>7 DEF Inserts, AtMostOncePerStart
    <3>9. \A d \in Events : Due(d)' => inserted'[d] < starts'
      <4>. SUFFICES ASSUME NEW d \in Events, Due(d)' PROVE inserted'[d] < starts'
        OBVIOUS
      <4>. QED BY <1>b, <2>1, <2>2, <3>6, <3>7
    <3>10. \A d \in Events : d > Len(ledger') => inserted'[d] = 0
      BY <1>a, <1>b, <2>1, <3>2, <3>7
    <3>. QED BY <2>3, <3>8, <3>9, <3>10 DEF Inserts
  <2>. QED BY <2>4, <2>5
<1>7. CASE UpdateReserves \/ WriteReserves
  <2>1. PICK new : Becomes(Updater, new) /\ new.pc \in {"done", "update"}
    <3>1. [Done EXCEPT !.pc = "update", !.seen = OnChain].pc = "update"
      BY DEF Done
    <3>. QED BY <1>a, <1>7, <3>1 DEF UpdateReserves, WriteReserves
  <2>2. UNCHANGED <<ledger, inserted, phase, queue, starts>>
    BY <1>7 DEF UpdateReserves, WriteReserves, dbVars
  <2>3. /\ \A u \in Tasks \ {Updater} : task'[u] = task[u]
        /\ task'[Updater].pc # "handle"
    BY <1>a, <2>1, TaskNames DEF Becomes
  <2>4. \A d \in Events : Due(d)' => Due(d)
    BY <2>2, <2>3 DEF Due, At
  <2>. QED BY <1>b, <2>2, <2>3, <2>4 DEF Inserts, AtMostOncePerStart, At
<1>8. CASE Crash
  <2>1. /\ \A t \in Tasks : task'[t].pc = "done"
        /\ queue' = {} /\ phase' = "down" /\ UNCHANGED <<ledger, inserted, starts>>
    BY <1>8, <1>a DEF Crash, dbVars
  <2>. QED BY <1>b, <2>1 DEF Inserts, AtMostOncePerStart, Due, At
<1>9. CASE UNCHANGED vars
  BY <1>9, <1>b DEF vars, dbVars, Inserts, AtMostOncePerStart, Due, At
<1>. QED
  BY <1>1, <1>2, <1>3, <1>4, <1>5, <1>6, <1>7, <1>8, <1>9 DEF Next, Kinds

LEMMA NextOnceInv == OnceInv /\ [Next]_vars => OnceInv'
BY NextInserts, NextTypeOK, NextTasksFit, NextPhaseFits, NextCreatedFirst
DEF OnceInv, IndexerInv

(* The backfill and the subscription of one start never handle the same    *)
(* event, so each start adds at most one row for it (indexer.ts:388-392).  *)
THEOREM IndexerAtMostOncePerStart == Spec => []AtMostOncePerStart
<1>1. OnceInv => AtMostOncePerStart
  BY DEF OnceInv, Inserts
<1>. QED BY <1>1, InitOnceInv, NextOnceInv, PTL DEF Spec
-----------------------------------------------------------------------------
(* StartupCatchesUp: while the requests of this start succeed, the row of  *)
(* a market resolved before it is right, or main() is synchronising it.    *)

Concerned == /\ phase # "down" /\ failures = 0
             /\ ResolvedBefore(known) /\ OnChain.found
RowRight == row.exists /\ row.status = "resolved" /\ row.winner = ChainWinner
Repairs ==
  Concerned =>
    /\ task[Main].pc \in Reading \/ RowRight
    /\ task[Main].pc \in {"sides", "write"} =>
         task[Main].seen.resolved /\ task[Main].seen.winner = ChainWinner

RepairInv == IndexerInv /\ Repairs

LEMMA ResolvedOnChain ==
  ASSUME TypeOK, ResolvedBefore(known)
  PROVE  OnChain.resolved /\ known >= 1
<1>1. PICK e \in 1 .. known :
        ledger[e].kind \in {"MarketResolved", "EmergencyResolved"}
  BY DEF ResolvedBefore
<1>2. e \in DOMAIN ledger /\ known >= 1
  BY LedgerEntries DEF TypeOK
<1>. QED BY <1>1, <1>2 DEF OnChain, Happened, EventsOf

(* What is resolved stays so, and a closed market is not created again.    *)
LEMMA ConcernedEarlier ==
  ASSUME TypeOK, TypeOK', NEW kind \in Kinds, Emit(kind), Concerned'
  PROVE  Concerned /\ ChainWinner' = ChainWinner
<1>1. UNCHANGED <<phase, failures, known>>
  BY DEF Emit
<1>2. /\ \A e \in 1 .. Len(ledger) : ledger'[e] = ledger[e]
      /\ known \in 0 .. Len(ledger) /\ Len(ledger) \in Nat
  BY LedgerGrows DEF TypeOK
<1>3. ResolvedBefore(known)
  BY <1>1, <1>2 DEF Concerned, ResolvedBefore
<1>4. OnChain.resolved /\ ledger # <<>>
  BY <1>2, <1>3, ResolvedOnChain
<1>. QED BY <1>1, <1>3, <1>4, ChainGrows DEF Concerned

LEMMA InitRepairInv == Init => RepairInv
<1>. SUFFICES ASSUME Init PROVE RepairInv
  OBVIOUS
<1>1. IndexerInv
  BY InitTypeOK, InitFits DEF IndexerInv
<1>2. phase = "down"
  BY DEF Init
<1>. QED BY <1>1, <1>2 DEF RepairInv, Repairs, Concerned

(* Of the steps of the tasks that go on to the next await, only a          *)
(* synchronisation and the handler of the creation write the row.          *)
LEMMA RowWriters ==
  ASSUME NEW t \in Tasks, TaskStep(t)
  PROVE  \/ row' = row
         \/ At(t, "handle") /\ HandleMarketCreated(t)
         \/ WriteSync(t)
BY DEF TaskStep, handleEvent, HandleTraded, HandleOther, HandleMarketResolved,
       upsertMarket, UpsertAccepted, NotNullColumns, SetState, FetchMarket,
       FetchSides, dbVars

LEMMA NextRepairs == RepairInv /\ [Next]_vars => Repairs'
<1>. SUFFICES ASSUME RepairInv, [Next]_vars, Concerned'
              PROVE  /\ task'[Main].pc \in Reading \/ RowRight'
                     /\ task'[Main].pc \in {"sides", "write"} =>
                          /\ task'[Main].seen.resolved
                          /\ task'[Main].seen.winner = ChainWinner'
  BY DEF Repairs
<1>. DEFINE Goal == /\ task'[Main].pc \in Reading \/ RowRight'
                    /\ task'[Main].pc \in {"sides", "write"} =>
                         /\ task'[Main].seen.resolved
                         /\ task'[Main].seen.winner = ChainWinner'
<1>0. /\ IndexerInv /\ TypeOK /\ TypeOK' /\ TasksFit /\ PhaseFits /\ CreatedFirst
      /\ Repairs
  BY NextTypeOK DEF RepairInv, IndexerInv
<1>a. /\ task \in [Tasks -> TaskType] /\ task[Main] \in TaskType
      /\ Done.pc = "done" /\ failures \in Nat
      /\ OnChain \in SeenType /\ OnChain.winner = ChainWinner
      /\ row \in [exists : BOOLEAN, status : {"active", "resolved"},
                  winner : Winners, reserve : Nat]
  BY <1>0, OnChainType, TaskNames DEF TypeOK, Done, OnChain
<1>b. ASSUME ledger' = ledger, failures' = failures, known' = known, phase # "down"
      PROVE  /\ Concerned /\ OnChain' = OnChain /\ ChainWinner' = ChainWinner
             /\ OnChain.resolved /\ OnChain.found
             /\ task[Main].pc \in Reading \/ RowRight
             /\ task[Main].pc \in {"sides", "write"} =>
                  task[Main].seen.resolved /\ task[Main].seen.winner = ChainWinner
  <2>1. OnChain' = OnChain /\ ChainWinner' = ChainWinner
    BY <1>b, ChainStands
  <2>2. Concerned
    BY <1>b, <2>1 DEF Concerned, ResolvedBefore
  <2>. QED BY <1>0, <2>1, <2>2, ResolvedOnChain DEF Concerned, Repairs
<1>1. ASSUME NEW kind \in Kinds, Emit(kind) PROVE Goal
  <2>1. Concerned /\ ChainWinner' = ChainWinner
    BY <1>0, <1>1, ConcernedEarlier
  <2>2. row' = row /\ task'[Main] = task[Main]
    BY <1>0, <1>1, EmitTask, TaskNames DEF Emit, dbVars
  <2>. QED BY <1>0, <2>1, <2>2 DEF Repairs, RowRight
<1>2. CASE Start
  <2>1. OnChain.found
    BY <1>2, ChainStands DEF Start, Concerned
  <2>2. task'[Main].pc = "fetch"
    BY <1>2, <1>a, <2>1, TaskNames DEF Start, Becomes, Done
  <2>. QED BY <2>2 DEF Reading
<1>3. CASE ListSignatures \/ startEventListener
  <2>1. /\ UNCHANGED <<ledger, failures, known, row, task>> /\ phase # "down"
    BY <1>3 DEF ListSignatures, startEventListener, dbVars
  <2>. QED BY <1>b, <2>1 DEF RowRight
<1>4. CASE BackfillNext
  <2>1. /\ UNCHANGED <<ledger, failures, known, row>>
        /\ phase # "down" /\ At(Main, "done")
    BY <1>4 DEF BackfillNext, dbVars
  <2>2. PICK e \in queue :
          Becomes(Main, [Done EXCEPT !.pc = "handle", !.event = e])
    BY <1>4 DEF BackfillNext
  <2>3. task'[Main].pc = "handle"
    BY <1>a, <2>2, TaskNames DEF Becomes, Done
  <2>4. RowRight
    BY <1>b, <2>1 DEF At, Reading
  <2>. QED BY <1>b, <2>1, <2>3, <2>4 DEF RowRight, Reading
<1>5. ASSUME NEW t \in Tasks, TaskStep(t) PROVE Goal
  <2>1. /\ UNCHANGED <<ledger, failures, known, phase>> /\ ~At(t, "done")
        /\ \A u \in Tasks \ {t} : task'[u] = task[u]
    <3>1. failures' = failures
      BY <1>5 DEF TaskStep, handleEvent, SetState, FetchMarket, FetchSides, WriteSync
    <3>. QED BY <1>0, <1>5, <1>a, <3>1, TaskMoves DEF Becomes
  <2>2. phase # "down"
    BY <1>0, <2>1 DEF PhaseFits
  <2>3. CASE t # Main
    <3>1. t \in Events
      <4>1. t # Updater
        BY <1>0, <1>5, <2>1
        DEF TasksFit, At, TaskStep, handleEvent, SetState, FetchMarket,
            FetchSides, WriteSync
      <4>. QED BY <2>3, <4>1, TaskNames
    <3>2. task[t].event = t /\ t > 1
      BY <1>0, <1>b, <2>1, <2>2, <3>1, ResolvedOnChain, IndexerAssumption
      DEF TasksFit, TypeOK, Concerned, Events, IndexerAssumption
    <3>3. ~(At(t, "handle") /\ Kind(t) = "MarketCreated") /\ ~At(t, "write")
      BY <1>0, <3>2 DEF TasksFit, CreatedFirst, At, Kind, Reading
    <3>4. row' = row
      BY <1>5, <3>3, RowWriters DEF HandleMarketCreated, WriteSync
    <3>. QED BY <1>b, <2>1, <2>2, <2>3, <3>4, TaskNames DEF RowRight
  <2>4. CASE t = Main
    <3>1. CASE handleEvent(Main)
      <4>1. task[Main].pc = "handle"
        BY <3>1 DEF handleEvent, At
      <4>2. RowRight
        BY <1>b, <2>1, <2>2, <4>1 DEF Reading
      <4>3. CASE HandleMarketCreated(Main)
        <5>1. task'[Main].pc = "fetch"
          BY <1>a, <4>3, TaskNames DEF HandleMarketCreated, Goes, Becomes, TaskType
        <5>. QED BY <5>1 DEF Reading
      <4>4. CASE ~HandleMarketCreated(Main)
        <5>1. row' = row
          BY <1>5, <2>4, <4>1, <4>4, RowWriters DEF At, WriteSync
        <5>2. task'[Main].pc \in {"setState", "done"}
          BY <1>a, <3>1, <4>4, TaskNames
          DEF handleEvent, HandleTraded, HandleOther, HandleMarketResolved,
              Goes, Becomes, TaskType
        <5>. QED BY <1>b, <2>1, <2>2, <4>2, <5>1, <5>2 DEF RowRight
      <4>. QED BY <4>3, <4>4
    <3>2. CASE SetState(Main)
      <4>1. row' = row /\ task[Main].pc = "setState" /\ task'[Main].pc = "done"
        BY <1>a, <3>2, TaskNames DEF SetState, At, Becomes
      <4>. QED BY <1>b, <2>1, <2>2, <4>1 DEF RowRight, Reading
    <3>3. CASE FetchMarket(Main)
      <4>1. OnChain.found /\ OnChain.resolved
        BY <1>b, <2>1, <2>2
      <4>2. Becomes(Main, [task[Main] EXCEPT !.pc = "sides",
                             !.seen = [OnChain EXCEPT !.reserve = 0]])
        BY <3>3, <4>1 DEF FetchMarket
      <4>3. /\ task'[Main].pc = "sides"
            /\ task'[Main].seen = [OnChain EXCEPT !.reserve = 0]
        BY <1>a, <4>2, TaskNames DEF Becomes, TaskType
      <4>4. /\ [OnChain EXCEPT !.reserve = 0].resolved = OnChain.resolved
            /\ [OnChain EXCEPT !.reserve = 0].winner = OnChain.winner
        BY <1>a DEF SeenType
      <4>. QED BY <1>a, <1>b, <2>1, <2>2, <4>1, <4>3, <4>4 DEF Reading
    <3>4. CASE FetchSides(Main)
      <4>1. /\ task'[Main].pc = "write" /\ task[Main].pc = "sides"
            /\ task'[Main].seen.resolved = task[Main].seen.resolved
            /\ task'[Main].seen.winner = task[Main].seen.winner
        BY <1>a, <3>4, TaskNames DEF FetchSides, Becomes, At, TaskType, SeenType
      <4>. QED BY <1>b, <2>1, <2>2, <4>1 DEF Reading
    <3>5. CASE WriteSync(Main)
      <4>1. /\ task[Main].seen.resolved
            /\ task[Main].seen.winner = ChainWinner
        BY <1>b, <2>1, <2>2, <3>5 DEF WriteSync, At
      <4>2. row'.exists /\ row'.status = "resolved" /\ row'.winner = ChainWinner
        BY <1>a, <3>5, <4>1
        DEF WriteSync, upsertMarket, UpsertAccepted, NotNullColumns,
            getMarketStatus, SyncedWinner
      <4>3. task'[Main].pc \in {"done", "setState"}
        BY <1>a, <3>5, TaskNames DEF WriteSync, Becomes, AfterSync, TaskType
      <4>. QED BY <1>b, <2>1, <2>2, <4>2, <4>3 DEF RowRight
    <3>. QED BY <1>5, <2>4, <3>1, <3>2, <3>3, <3>4, <3>5 DEF TaskStep
  <2>. QED BY <2>3, <2>4
<1>6. ASSUME NEW t \in Tasks, RequestFails(t) PROVE Goal
  BY <1>6, <1>a DEF RequestFails, Concerned
<1>7. CASE UpdateReserves \/ WriteReserves
  <2>1. /\ UNCHANGED <<ledger, failures, known, phase, row>>
        /\ task'[Main] = task[Main]
    BY <1>7, <1>a, TaskNames
    DEF UpdateReserves, WriteReserves, upsertMarket, UpsertAccepted,
        NotNullColumns, dbVars, Becomes
  <2>2. phase # "down"
    BY <2>1 DEF Concerned
  <2>. QED BY <1>b, <2>1, <2>2 DEF RowRight
<1>8. CASE Crash
  BY <1>8 DEF Crash, Concerned
<1>9. CASE UNCHANGED vars
  <2>1. UNCHANGED <<ledger, failures, known, phase, row, task>>
    BY <1>9 DEF vars, dbVars
  <2>2. phase # "down"
    BY <2>1 DEF Concerned
  <2>. QED BY <1>b, <2>1, <2>2 DEF RowRight
<1>. QED
  BY <1>1, <1>2, <1>3, <1>4, <1>5, <1>6, <1>7, <1>8, <1>9 DEF Next, Kinds

(* A start whose requests succeed leaves the row of a market resolved      *)
(* before it as the chain has it, although the backfill's older events     *)
(* set it back on the way (indexer.ts:65-78, 119-145, 388-392).            *)
THEOREM IndexerStartupCatchesUp == Spec => []StartupCatchesUp
<1>1. RepairInv => StartupCatchesUp
  BY DEF RepairInv, IndexerInv, PhaseFits, Repairs, Concerned, RowRight,
         StartupCatchesUp, At, Reading
<1>2. RepairInv /\ [Next]_vars => RepairInv'
  BY NextRepairs, NextTypeOK, NextTasksFit, NextPhaseFits, NextCreatedFirst
  DEF RepairInv, IndexerInv
<1>. QED BY <1>1, <1>2, InitRepairInv, PTL DEF Spec
=============================================================================
