------------------------------ MODULE Lifecycle ------------------------------
(***************************************************************************)
(* What the status and the winner of a Market or of a CompareDuel promise, *)
(* without vaults, clocks or samples: an account is created Active, is     *)
(* observed, is resolved once, keeps its outcome for as long as it exists  *)
(* and is closed only after it was resolved.  A side can only win if it    *)
(* was observed; "no winner" is the draw.  Market and CompareDuel          *)
(* implement this specification.                                           *)
(***************************************************************************)
CONSTANTS NoWinner,     \* Option::None in the field winner
          Reusable      \* the address of a closed account can be created again

Side == {0, 1}
Statuses == {"Uninitialized", "Active", "TwapObservation", "Resolved", "Closed"}

VARIABLES status, winner

lifecycleVars == <<status, winner>>

Init == status = "Uninitialized" /\ winner = NoWinner

Create == /\ status = "Uninitialized"
          /\ status' = "Active"
          /\ winner' = NoWinner

Observe == /\ status = "Active"
           /\ status' = "TwapObservation"
           /\ UNCHANGED winner

Win == /\ status = "TwapObservation"
       /\ status' = "Resolved"
       /\ winner' \in Side

Draw == /\ status \in {"Active", "TwapObservation"}
        /\ status' = "Resolved"
        /\ winner' = NoWinner

Close == /\ status = "Resolved"
         /\ status' = IF Reusable THEN "Uninitialized" ELSE "Closed"
         /\ winner' = IF Reusable THEN NoWinner ELSE winner

Next == Create \/ Observe \/ Win \/ Draw \/ Close

Spec == Init /\ [][Next]_lifecycleVars
=============================================================================
