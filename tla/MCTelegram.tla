----------------------------- MODULE MCTelegram -----------------------------
(***************************************************************************)
(* The three parts that stand between Telegram and the rest of the bot:    *)
(* the gate that updates pass, the snoozes that one of its buttons sets,   *)
(* and the queue that alerts leave by.  They share no variable, and each   *)
(* property is about one of them; of the steps of the others it sees       *)
(* nothing but stuttering.  So it is enough to let one part move while the *)
(* others stand still, whichever it is.                                    *)
(***************************************************************************)
EXTENDS UpdateLoop, Snooze, Broadcaster

VARIABLE part    \* the one that moves

InitParts == /\ part \in {"gate", "snooze", "queue"}
             /\ InitGate /\ InitSnooze /\ Init

NextParts ==
  /\ UNCHANGED part
  /\ \/ part = "gate" /\ NextGate /\ UNCHANGED <<snoozeVars, vars>>
     \/ part = "snooze" /\ NextSnooze /\ UNCHANGED <<gateVars, vars>>
     \/ part = "queue" /\ Next /\ UNCHANGED <<gateVars, snoozeVars>>

\* The fairness of FairRunSpec.
SpecParts == /\ InitParts
             /\ [][NextParts]_<<part, gateVars, snoozeVars, vars>>
             /\ WF_vars(part = "queue" /\ Enqueue) /\ WF_vars(part = "queue" /\ Takes)
=============================================================================
