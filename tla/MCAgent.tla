------------------------------ MODULE MCAgent ------------------------------
(* Two containers; of the suggestions, the button whose call has no time-out *)
(* and the one that is never logged.  The alerts offer restarts besides.     *)
EXTENDS Agent
MCIntents == {[action |-> "ChaosKill", target |-> "c1"],
              [action |-> "TerraformApply", target |-> Unnamed]}
=============================================================================
