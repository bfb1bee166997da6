----------------------------- MODULE MCCranker -----------------------------
(***************************************************************************)
(* One market whose window has room for two samples, the daemon and one    *)
(* tick of the script.                                                     *)
(***************************************************************************)
EXTENDS ScriptCranker

CONSTANTS m1, daemon, script

MCMarkets == {m1}
MCScriptTicks == {script}
MCTerms == [m \in MCMarkets |->
              [deadline |-> 2, twap_window |-> 1, twap_interval |-> 1]]
MCSkew == {1}
=============================================================================
