---------------------------- MODULE Broadcaster -----------------------------
(***************************************************************************)
(* The alert queue (pkg/notify/broadcast.go): the monitor fans every alert *)
(* out to every operator through a bounded channel that one worker drains  *)
(* into Telegram.  A message is its chat and the number of its alert; what *)
(* becomes of one is recorded as its fate.                                 *)
(***************************************************************************)
EXTENDS Integers, Sequences

CONSTANTS
  Chats,     \* how many operators: chatIDs is 1 .. Chats
  BufSize,   \* capacity of the channel
  Alerts     \* bound: how many alerts are broadcast

ASSUME QueueAssumption == /\ Chats \in Nat \ {0}
                          /\ BufSize \in Nat \ {0}
                          /\ Alerts \in Nat

VARIABLES
  msgs,       \* the channel
  alert,      \* the alert the monitor last broadcast
  next,       \* the next chat of its fan-out; 0: the monitor is elsewhere
  worker,     \* "waits", "stopped", or "sends" with the message in its hand
  hand,
  cancelled,  \* the context is done
  shown,      \* history: what Telegram has shown each chat, in order
  fate        \* history: by chat and alert

vars == <<msgs, alert, next, worker, hand, cancelled, shown, fate>>

chatIDs   == 1 .. Chats
Message   == chatIDs \X (1 .. Alerts)
Nothing   == <<0, 0>>

Init == /\ msgs = <<>>
        /\ alert = 0 /\ next = 0
        /\ worker = "waits" /\ hand = Nothing
        /\ cancelled = FALSE
        /\ shown = [c \in chatIDs |-> <<>>]
        /\ fate = [m \in Message |-> "unsent"]

Becomes(m, what) == fate' = [fate EXCEPT ![m] = what]

----------------------------------------------------------------------------
(* Broadcast, executed by the monitor: it never waits. *)

Broadcast == /\ next = 0 /\ alert < Alerts
             /\ alert' = alert + 1
             /\ next' = 1
             /\ UNCHANGED <<msgs, worker, hand, cancelled, shown, fate>>

Following == IF next = Chats THEN 0 ELSE next + 1

\* Mutant: the monitor waits for the worker.
EnqueueWaits == /\ next # 0
                /\ Len(msgs) < BufSize
                /\ msgs' = Append(msgs, <<next, alert>>)
                /\ Becomes(<<next, alert>>, "queued")
                /\ next' = Following
                /\ UNCHANGED <<alert, worker, hand, cancelled, shown>>

\* Mutant: a full channel makes room by forgetting its oldest message.
EnqueueEvicts == /\ next # 0
                 /\ msgs' = Append(IF Len(msgs) < BufSize THEN msgs ELSE Tail(msgs),
                                   <<next, alert>>)
                 /\ Becomes(<<next, alert>>, "queued")
                 /\ next' = Following
                 /\ UNCHANGED <<alert, worker, hand, cancelled, shown>>

Enqueue == /\ next # 0
           /\ IF Len(msgs) < BufSize
              THEN /\ msgs' = Append(msgs, <<next, alert>>)
                   /\ Becomes(<<next, alert>>, "queued")
              ELSE /\ Becomes(<<next, alert>>, "dropped")
                   /\ UNCHANGED msgs
           /\ next' = Following
           /\ UNCHANGED <<alert, worker, hand, cancelled, shown>>

----------------------------------------------------------------------------
(* Run, the worker.  With the context done and messages waiting, either    *)
(* case of its select may be taken.                                        *)

Takes == /\ worker = "waits" /\ msgs # <<>>
         /\ hand' = Head(msgs) /\ msgs' = Tail(msgs)
         /\ worker' = "sends"
         /\ UNCHANGED <<alert, next, cancelled, shown, fate>>

Sent == /\ worker = "sends"
        /\ shown' = [shown EXCEPT ![hand[1]] = Append(@, hand[2])]
        /\ Becomes(hand, "shown")
        /\ worker' = "waits" /\ hand' = Nothing
        /\ UNCHANGED <<msgs, alert, next, cancelled>>

\* Mutants: a failed message is tried again after the others; a failure ends
\* the worker.
SendFailsRequeued == /\ worker = "sends"
                     /\ msgs' = Append(msgs, hand)
                     /\ Becomes(hand, "queued")
                     /\ worker' = "waits" /\ hand' = Nothing
                     /\ UNCHANGED <<alert, next, cancelled, shown>>
SendFailsFatally == /\ worker = "sends"
                    /\ Becomes(hand, "failed")
                    /\ worker' = "stopped" /\ hand' = Nothing
                    /\ UNCHANGED <<msgs, alert, next, cancelled, shown>>

\* A failure is logged; the message is not tried again.  When the answer is
\* lost Telegram may have shown the message all the same.
SendFails == /\ worker = "sends"
             /\ \/ UNCHANGED shown
                \/ shown' = [shown EXCEPT ![hand[1]] = Append(@, hand[2])]
             /\ Becomes(hand, "failed")
             /\ worker' = "waits" /\ hand' = Nothing
             /\ UNCHANGED <<msgs, alert, next, cancelled>>

Stops == /\ worker = "waits" /\ cancelled
         /\ worker' = "stopped"
         /\ UNCHANGED <<msgs, alert, next, hand, cancelled, shown, fate>>

Shutdown == /\ ~cancelled /\ cancelled' = TRUE
            /\ UNCHANGED <<msgs, alert, next, worker, hand, shown, fate>>

Send == Sent \/ SendFails
Run  == Takes \/ Send \/ Stops
Next == Broadcast \/ Enqueue \/ Run \/ Shutdown

Spec == Init /\ [][Next]_vars

\* The monitor goes on with a fan-out it has begun: it waits for nobody.  The
\* worker takes what there is.  Whether a send ever returns is not the program's
\* to say: the client that NewBotAPI makes (bootstrap.go:49) has no time-out, and
\* Send is given no context (broadcast.go:49).
FairSpec     == Spec /\ WF_vars(Enqueue)
FairRunSpec  == FairSpec /\ WF_vars(Takes)

----------------------------------------------------------------------------
\* Every variable holds a value of its type; the backlog is bounded.
TypeOK == /\ msgs \in Seq(Message) /\ Len(msgs) <= BufSize
          /\ alert \in 0 .. Alerts
          /\ next \in 0 .. Chats
          /\ worker \in {"waits", "sends", "stopped"}
          /\ hand \in Message \cup {Nothing}
          /\ cancelled \in BOOLEAN
          /\ shown \in [chatIDs -> Seq(1 .. Alerts)]
          /\ fate \in [Message -> {"unsent", "queued", "shown", "failed", "dropped"}]

\* An operator sees the alerts in the order they were raised, none twice.
ShownInOrder ==
  \A c \in chatIDs : \A i, j \in DOMAIN shown[c] : i < j => shown[c][i] < shown[c][j]

\* Nothing is lost without a line in the log: what was accepted is in the
\* channel or in the worker's hand until it is shown or its failure is logged.
NothingVanishes ==
  \A m \in Message :
    fate[m] = "queued" <=> (hand = m \/ \E i \in DOMAIN msgs : msgs[i] = m)

\* broadcast.go:2, "The monitor goroutine never blocks on Telegram API
\* latency": a fan-out ends whatever the worker does, or does not do.
MonitorNeverWaits == next # 0 ~> next = 0

\* A message that was accepted is sent, or fails, unless the bot is stopped or
\* the worker waits for ever for the answer to one send: the one thing that can
\* hold up the others for good.
AcceptedIsTried ==
  \A m \in Message :
    fate[m] = "queued"
      ~> (fate[m] \in {"shown", "failed"} \/ cancelled \/ [](worker = "sends"))
=============================================================================
