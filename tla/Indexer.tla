------------------------------ MODULE Indexer ------------------------------
(***************************************************************************)
(* The production indexer (backend/src/indexer.ts, backend/src/db.ts): one *)
(* market's row, its trade and sample rows and the cursor, written by the  *)
(* start-up synchronisation, the backfill, the handlers of websocket       *)
(* events (started and not awaited) and the periodic reserve update, over  *)
(* the program's log of events.  Every await is a step of its own.  The    *)
(* process can be killed between any two steps; Services.tla models        *)
(* whether it comes up again, here it does.                                *)
(***************************************************************************)
EXTENDS Integers, Sequences, FiniteSets

CONSTANTS Null,
          backfillLimit,                     \* config.backfillLimit
          MaxEvents, MaxStarts, MaxFailures  \* bounds of the model

ASSUME IndexerAssumption ==
  /\ backfillLimit \in Nat \ {0} /\ MaxEvents \in Nat /\ MaxStarts \in Nat
  /\ MaxFailures \in Nat /\ Null \notin {0, 1}

Events == 1 .. MaxEvents
Main == 0                      \* the task of main(); a handler per event
Updater == MaxEvents + 1       \* the task of the reserve timer
Tasks == 0 .. MaxEvents + 1

VARIABLES ledger,    \* the program's events: kind, slot and winner
          row,       \* the market's row of table markets
          inserted,  \* inserted[e]: rows of trades or twap_samples for e
          cursor,    \* indexer_state.last_processed_slot
          phase,     \* how far main() has come
          queue,     \* the events the backfill has still to handle
          task,      \* task[t]: what the task awaits
          starts, failures,
          known      \* history: the length of the ledger at this start

dbVars == <<row, inserted, cursor>>
vars == <<ledger, dbVars, phase, queue, task, starts, failures, known>>

NoRow == [exists |-> FALSE, status |-> "active", winner |-> Null, reserve |-> 0]
Unread == [found |-> FALSE, resolved |-> FALSE, winner |-> Null, reserve |-> 0]
Done == [pc |-> "done", event |-> 0, seen |-> Unread]

Init == /\ ledger = <<>>
        /\ row = NoRow /\ inserted = [e \in Events |-> 0] /\ cursor = 0
        /\ phase = "down" /\ queue = {}
        /\ task = [t \in Tasks |-> Done]
        /\ starts = 0 /\ failures = 0 /\ known = 0

-----------------------------------------------------------------------------
(* The market's accounts as the program leaves them after its events.      *)
EventsOf(kind) == {e \in DOMAIN ledger : ledger[e].kind = kind}
Happened(kind) == EventsOf(kind) # {}
ChainWinner == IF Happened("MarketResolved")
               THEN ledger[CHOOSE e \in EventsOf("MarketResolved") : TRUE].winner
               ELSE Null
OnChain ==
  [found |-> Happened("MarketCreated") /\ ~Happened("MarketClosed"),
   resolved |-> Happened("MarketResolved") \/ Happened("EmergencyResolved"),
   winner |-> ChainWinner,
   reserve |-> Cardinality(EventsOf("Traded"))]

(* The next event of the market: trades and samples ("Traded") until it is *)
(* resolved, then perhaps the closing.                                     *)
Possible(kind) ==
  CASE kind = "MarketCreated" -> ledger = <<>>
    [] kind = "MarketClosed" -> OnChain.found /\ OnChain.resolved
    [] OTHER -> OnChain.found /\ ~OnChain.resolved

(* mutant: the subscription is opened before the backfill lists its events. *)
ListeningEarly == phase # "down"

Listening == phase = "running"

(* The program emits an event; a listening indexer starts a handler for    *)
(* it, unless the websocket drops the notification.                        *)
Emit(kind) ==
  /\ Len(ledger) < MaxEvents /\ Possible(kind)
  /\ \E s \in {0, 1}, w \in {0, 1} :
       ledger' = Append(ledger,
         [kind |-> kind,
          slot |-> IF ledger = <<>> THEN 1 ELSE ledger[Len(ledger)].slot + s,
          winner |-> IF kind = "MarketResolved" THEN w ELSE Null])
  /\ LET e == Len(ledger) + 1
     IN  \/ UNCHANGED task
         \/ /\ Listening
            /\ task' = [task EXCEPT ![e] = [Done EXCEPT !.pc = "handle",
                                                        !.event = e]]
  /\ UNCHANGED <<dbVars, phase, queue, starts, failures, known>>

-----------------------------------------------------------------------------
(* Postgres checks NOT NULL on the proposed row before it looks for the    *)
(* conflict: an upsert that leaves out a NOT NULL column without a default *)
(* fails, even when the row exists.                                        *)
NotNullColumns == {"pubkey", "authority", "deadline"}
UpsertAccepted(columns) == NotNullColumns \subseteq columns

upsertMarket(columns, new) == row' = IF UpsertAccepted(columns)
                                     THEN [new EXCEPT !.exists = TRUE] ELSE row

At(t, pc) == task[t].pc = pc
Becomes(t, new) == task' = [task EXCEPT ![t] = new]
Goes(t, pc) == Becomes(t, [task[t] EXCEPT !.pc = pc])
Kind(t) == ledger[task[t].event].kind

(* mutant: a created market is not synchronised after its first upsert. *)
HandleMarketCreatedOnly(t) ==
  /\ Kind(t) = "MarketCreated"
  /\ upsertMarket({"pubkey", "authority", "deadline", "market_id",
                   "quote_mint", "status"}, [row EXCEPT !.status = "active"])
  /\ Goes(t, "setState") /\ UNCHANGED inserted

(* The columns the event does not carry keep their values. *)
HandleMarketCreated(t) ==
  /\ Kind(t) = "MarketCreated"
  /\ upsertMarket({"pubkey", "authority", "deadline", "market_id",
                   "quote_mint", "status"}, [row EXCEPT !.status = "active"])
  /\ Goes(t, "fetch") /\ UNCHANGED inserted

(* TokensBought, TokensSold, TwapSampled: a row that references the        *)
(* market's; without one the insert fails and the handler gives up.        *)
HandleTraded(t) ==
  /\ Kind(t) = "Traded"
  /\ IF row.exists
     THEN /\ inserted' = [inserted EXCEPT ![task[t].event] = @ + 1]
          /\ Goes(t, "setState")
     ELSE Becomes(t, Done) /\ UNCHANGED inserted
  /\ UNCHANGED row

HandleMarketResolved(t) ==
  LET columns == {"pubkey", "status", "winner", "final_twap_a", "final_twap_b",
                  "loser_reserve_transferred", "dex_pool", "sol_seeded",
                  "tokens_seeded"}
  IN  /\ Kind(t) = "MarketResolved"
      /\ upsertMarket(columns, [row EXCEPT !.status = "resolved",
                                  !.winner = ledger[task[t].event].winner])
      /\ IF UpsertAccepted(columns) THEN Goes(t, "setState") ELSE Becomes(t, Done)
      /\ UNCHANGED inserted

(* No case of the switch: only the cursor moves. *)
HandleOther(t) == /\ Kind(t) \in {"EmergencyResolved", "MarketClosed"}
                  /\ Goes(t, "setState") /\ UNCHANGED <<row, inserted>>

handleEvent(t) ==
  /\ At(t, "handle")
  /\ \/ HandleMarketCreated(t) \/ HandleTraded(t)
     \/ HandleMarketResolved(t) \/ HandleOther(t)
  /\ UNCHANGED <<ledger, cursor, phase, queue, starts, failures, known>>

(* The cursor becomes this event's slot, whatever it was. *)
SetState(t) ==
  /\ At(t, "setState") /\ cursor' = ledger[task[t].event].slot
  /\ Becomes(t, Done)
  /\ UNCHANGED <<ledger, row, inserted, phase, queue, starts, failures, known>>

-----------------------------------------------------------------------------
(* syncSingleMarket: the market, then its sides and vaults, then one       *)
(* upsert of what was read.  A handler goes on to the cursor afterwards.   *)
AfterSync(t) == IF task[t].event = 0 THEN Done
                ELSE [task[t] EXCEPT !.pc = "setState", !.seen = Unread]

FetchMarket(t) ==
  /\ At(t, "fetch")
  /\ Becomes(t, IF OnChain.found
                THEN [task[t] EXCEPT !.pc = "sides",
                                     !.seen = [OnChain EXCEPT !.reserve = 0]]
                ELSE AfterSync(t))
  /\ UNCHANGED <<ledger, dbVars, phase, queue, starts, failures, known>>

FetchSides(t) ==
  /\ At(t, "sides")
  /\ Becomes(t, [task[t] EXCEPT !.pc = "write",
                   !.seen.reserve = IF OnChain.found THEN OnChain.reserve ELSE 0])
  /\ UNCHANGED <<ledger, dbVars, phase, queue, starts, failures, known>>

getMarketStatus(seen) == IF seen.resolved THEN "resolved" ELSE "active"

(* mutant: a missing winner is written as side 0. *)
SyncedWinnerDefault(seen) == IF seen.winner = Null THEN 0 ELSE seen.winner

SyncedWinner(seen) == seen.winner

WriteSync(t) ==
  LET seen == task[t].seen
  IN  /\ At(t, "write")
      /\ upsertMarket({"pubkey", "authority", "deadline", "twap_window",
                       "twap_interval", "status", "winner", "reserve_a",
                       "reserve_b"},
           [row EXCEPT !.status = getMarketStatus(seen),
                       !.winner = SyncedWinner(seen), !.reserve = seen.reserve])
      /\ Becomes(t, AfterSync(t))
      /\ UNCHANGED <<ledger, inserted, cursor, phase, queue, starts, failures,
                     known>>

(* updateReserves: rows not resolved, their sides, then an upsert of the   *)
(* reserves alone, whose failure is ignored.                               *)
UpdateReserves ==
  /\ Listening /\ At(Updater, "done") /\ row.exists /\ row.status # "resolved"
  /\ OnChain.found
  /\ Becomes(Updater, [Done EXCEPT !.pc = "update", !.seen = OnChain])
  /\ UNCHANGED <<ledger, dbVars, phase, queue, starts, failures, known>>

WriteReserves ==
  /\ At(Updater, "update")
  /\ upsertMarket({"pubkey", "reserve_a", "reserve_b", "circulating_a",
                   "circulating_b"},
                  [row EXCEPT !.reserve = task[Updater].seen.reserve])
  /\ Becomes(Updater, Done)
  /\ UNCHANGED <<ledger, inserted, cursor, phase, queue, starts, failures,
                 known>>

-----------------------------------------------------------------------------
(* main(): synchronise, backfill, subscribe. *)
Start == /\ phase = "down" /\ starts < MaxStarts /\ starts' = starts + 1
         /\ phase' = "sync"
         /\ Becomes(Main, IF OnChain.found THEN [Done EXCEPT !.pc = "fetch"]
                                           ELSE Done)
         /\ failures' = 0 /\ known' = Len(ledger)
         /\ UNCHANGED <<ledger, dbVars, queue>>

(* The newest backfillLimit signatures, newest first, above the cursor (a  *)
(* cursor of 0 filters nothing out).                                       *)
ListSignatures ==
  LET newest == {e \in DOMAIN ledger : e > Len(ledger) - backfillLimit}
  IN  /\ phase = "sync" /\ At(Main, "done")
      /\ phase' = "backfill"
      /\ queue' = {e \in newest : cursor > 0 => ledger[e].slot > cursor}
      /\ UNCHANGED <<ledger, dbVars, task, starts, failures, known>>

BackfillNext ==
  /\ phase = "backfill" /\ At(Main, "done")
  /\ \E e \in queue :
       /\ \A f \in queue : f <= e
       /\ Becomes(Main, [Done EXCEPT !.pc = "handle", !.event = e])
       /\ queue' = queue \ {e}
  /\ UNCHANGED <<ledger, dbVars, phase, starts, failures, known>>

startEventListener ==
  /\ phase = "backfill" /\ At(Main, "done") /\ queue = {}
  /\ phase' = "running"
  /\ UNCHANGED <<ledger, dbVars, queue, task, starts, failures, known>>

(* A request to the endpoint or to the database fails.  syncSingleMarket   *)
(* swallows it (without the sides it goes on with zero reserves), the      *)
(* handler gives its event up.                                             *)
RequestFails(t) ==
  /\ ~At(t, "done") /\ failures < MaxFailures /\ failures' = failures + 1
  /\ Becomes(t, CASE At(t, "sides") -> [task[t] EXCEPT !.pc = "write"]
                  [] task[t].pc \in {"fetch", "write"} -> AfterSync(t)
                  [] OTHER -> Done)
  /\ UNCHANGED <<ledger, dbVars, phase, queue, starts, known>>

(* The process is killed, or shut down: open handlers are not waited for.  *)
Crash == /\ phase # "down" /\ phase' = "down"
         /\ queue' = {} /\ task' = [t \in Tasks |-> Done]
         /\ UNCHANGED <<ledger, dbVars, starts, failures, known>>

TaskStep(t) == \/ handleEvent(t) \/ SetState(t)
               \/ FetchMarket(t) \/ FetchSides(t) \/ WriteSync(t)

Next == \/ \E kind \in {"MarketCreated", "Traded", "MarketResolved",
                        "EmergencyResolved", "MarketClosed"} : Emit(kind)
        \/ Start \/ ListSignatures \/ BackfillNext \/ startEventListener
        \/ \E t \in Tasks : TaskStep(t) \/ RequestFails(t)
        \/ UpdateReserves \/ WriteReserves
        \/ Crash

Spec == Init /\ [][Next]_vars

-----------------------------------------------------------------------------
Kinds == {"MarketCreated", "Traded", "MarketResolved", "EmergencyResolved",
          "MarketClosed"}
Winners == {0, 1, Null}

SeenType == [found : BOOLEAN, resolved : BOOLEAN, winner : Winners,
             reserve : Nat]
TaskType == [pc : {"done", "handle", "setState", "fetch", "sides", "write",
                   "update"},
             event : 0 .. MaxEvents, seen : SeenType]

TypeOK ==
  /\ ledger \in Seq([kind : Kinds, slot : Nat, winner : Winners])
  /\ Len(ledger) <= MaxEvents
  /\ row \in [exists : BOOLEAN, status : {"active", "resolved"},
              winner : Winners, reserve : Nat]
  /\ inserted \in [Events -> Nat] /\ cursor \in Nat
  /\ phase \in {"down", "sync", "backfill", "running"}
  /\ queue \subseteq Events
  /\ task \in [Tasks -> TaskType]
  /\ starts \in Nat /\ failures \in Nat /\ known \in 0 .. Len(ledger)

(* Stale synchronisations, handlers in any order and replays may leave the *)
(* row behind the chain, but it never shows an outcome, a winner or a      *)
(* reserve the chain did not have (indexer.ts:182-199).                    *)
RowsTrue ==
  /\ row.status = "resolved" => OnChain.resolved
  /\ row.winner # Null => row.winner = ChainWinner
  /\ row.reserve <= OnChain.reserve

(* Each start of the process adds at most one row for an event: the        *)
(* subscription opens only when the backfill is done (indexer.ts:388-392). *)
AtMostOncePerStart == \A e \in Events : inserted[e] <= starts

ResolvedBefore(n) ==
  \E e \in 1 .. n : ledger[e].kind \in {"MarketResolved", "EmergencyResolved"}

(* A start during which no request fails leaves the row resolved, with its *)
(* winner, if the market was resolved before and still exists: although    *)
(* the backfill replays MarketCreated after MarketResolved, the            *)
(* synchronisation in its handler repairs the row (indexer.ts:65-78).      *)
StartupCatchesUp ==
  phase = "running" /\ failures = 0 /\ ResolvedBefore(known) /\ OnChain.found =>
    row.exists /\ row.status = "resolved" /\ row.winner = ChainWinner
=============================================================================
