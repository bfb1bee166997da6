------------------------------ MODULE Services ------------------------------
(***************************************************************************)
(* The backend's deployment (backend/docker-compose.yml): server, indexer  *)
(* and cranker, which are restarted whenever they end, and the one-shot    *)
(* migrate command.  All of them run the migrations at every start         *)
(* (backend/src/db.ts), on one database that comes and goes.               *)
(***************************************************************************)

Processes == {"server", "indexer", "cranker", "migrate"}

VARIABLES schema,      \* which migrations the database has seen
          database,    \* whether it answers
          proc         \* how far each process has come

vars == <<schema, database, proc>>

(* A new database, or one from before the second migration was written,    *)
(* with that version's processes still running.                            *)
Init == /\ schema \in {"empty", "initial"} /\ database = TRUE
        /\ IF schema = "empty" THEN proc = [p \in Processes |-> "down"]
           ELSE proc \in [Processes -> {"down", "up"}] /\ proc["migrate"] = "down"

-----------------------------------------------------------------------------
Moves(p, to) == proc' = [proc EXCEPT ![p] = to]
Ended(p) == proc[p] \in {"down", "failed"}
Migrating(p) == proc[p] \in {"first", "second"}

(* Docker starts the process, again and again. *)
Start(p) == Ended(p) /\ Moves(p, "first") /\ UNCHANGED <<schema, database>>

(* 001_initial.sql creates only what does not exist yet. *)
RunFirst(p) ==
  /\ proc[p] = "first" /\ database
  /\ schema' = IF schema = "empty" THEN "initial" ELSE schema
  /\ Moves(p, "second") /\ UNCHANGED database

(* 002_refactor.sql renames trades.penalty_applied: where it has been      *)
(* renamed before, the statement fails and the process exits with it.      *)
RunSecond(p) ==
  /\ proc[p] = "second" /\ database /\ UNCHANGED database
  /\ \/ /\ schema = "initial" /\ schema' = "refactored"
        /\ Moves(p, IF p = "migrate" THEN "down" ELSE "up")
     \/ /\ schema = "refactored" /\ UNCHANGED schema
        /\ Moves(p, "failed")

Disturbed(p) == ~database \/ \E q \in Processes \ {p} : Migrating(q)

(* A query fails for want of a database, or in a race with another         *)
(* process that creates the same tables.                                   *)
MigrationFails(p) == /\ Migrating(p) /\ Disturbed(p) /\ Moves(p, "failed")
                     /\ UNCHANGED <<schema, database>>

(* SIGTERM, or a crash. *)
Stop(p) == ~Ended(p) /\ Moves(p, "down") /\ UNCHANGED <<schema, database>>

Outage == database' = ~database /\ UNCHANGED <<schema, proc>>

Next == \/ \E p \in Processes : \/ Start(p) \/ RunFirst(p) \/ RunSecond(p)
                                \/ MigrationFails(p) \/ Stop(p)
        \/ Outage

Spec == Init /\ [][Next]_vars

-----------------------------------------------------------------------------
(* What the callers of runMigrations say of it (index.ts:69,               *)
(* cranker.ts:450): running them again does nothing.  A process that fails *)
(* in them was without a database or raced another one.                    *)
MigrationsIdempotent ==
  [][\A p \in Processes :
       Migrating(p) /\ proc'[p] = "failed" => Disturbed(p)]_vars
=============================================================================
