----------------------------- MODULE MCIndexer -----------------------------
(* One market, four events, two starts of the process. *)
EXTENDS Indexer
=============================================================================
