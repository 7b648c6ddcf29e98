---------------------------- MODULE TokenBucket -----------------------------
(***************************************************************************)
(* A token bucket per chat as one would describe it: full at first, filled *)
(* by Rate at every tick up to Burst, and a call is granted exactly when   *)
(* the Cost of one token is in the bucket, which it then takes.            *)
(***************************************************************************)
EXTENDS Integers

CONSTANTS Chats, Burst, Rate, Cost

VARIABLES
  level,    \* what is in each bucket
  verdict   \* the last call: its chat and what it was told

Init == level = [c \in Chats |-> Burst] /\ verdict = <<>>

Fill(l) == IF l + Rate > Burst THEN Burst ELSE l + Rate
Tick == level' = [c \in Chats |-> Fill(level[c])] /\ verdict' = <<>>

Grant(c) == /\ level[c] >= Cost
            /\ level' = [level EXCEPT ![c] = @ - Cost]
            /\ verdict' = <<c, "granted">>

Refuse(c) == level[c] < Cost /\ verdict' = <<c, "refused">> /\ UNCHANGED level

\* Something that is none of the bucket's business happens.
Elsewhere == verdict' = <<>> /\ UNCHANGED level

Next == Tick \/ Elsewhere \/ \E c \in Chats : Grant(c) \/ Refuse(c)

Spec == Init /\ [][Next]_<<level, verdict>>
=============================================================================
