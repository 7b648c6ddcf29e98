------------------------------ MODULE Fallback ------------------------------
(***************************************************************************)
(* The AI agent's offline mode (pkg/ai/fallback.go): two atomics shared,   *)
(* without a lock, by the goroutines that ask the AI - the update loop and *)
(* the monitor's autopilot - or ask for its status.  One step per access   *)
(* to an atomic; the wrapped agent answers or fails as it likes.           *)
(*                                                                         *)
(* One unit of time is a minute.  A deadline is modelled by the minutes    *)
(* left until it; 0 is a deadline that has passed, Off the stored zero.    *)
(***************************************************************************)
EXTENDS Integers

CONSTANTS
  Threads,
  MaxFailures,   \* maxFailuresBeforeOffline
  Window         \* offlineDuration

ASSUME BreakerAssumption == MaxFailures \in Nat \ {0} /\ Window \in Nat \ {0}

VARIABLES
  failures,      \* f.failures
  offlineUntil,  \* f.offlineUntil
  pc,            \* where each thread is
  until,         \* the deadline each thread has loaded and not compared yet
  wants,         \* what each thread came for: an answer, or the status
  sinceOffline   \* history: minutes since offlineUntil was last set, up to Window

vars == <<failures, offlineUntil, pc, until, wants, sinceOffline>>

Off == -1
Deadlines == {Off} \cup 0 .. Window

Init == /\ failures = 0 /\ offlineUntil = Off
        /\ pc = [t \in Threads |-> "idle"]
        /\ until = [t \in Threads |-> Off]
        /\ wants = [t \in Threads |-> "answer"]
        /\ sinceOffline = Window

\* What a thread came for is forgotten when its call ends.
Goes(t, where) ==
  /\ pc' = [pc EXCEPT ![t] = where]
  /\ wants' = [wants EXCEPT ![t] = IF where = "idle" THEN "answer" ELSE @]
Admitted(t) == IF wants[t] = "answer" THEN "inner" ELSE "idle"

----------------------------------------------------------------------------
(* isOffline, and what its answer leads to. *)

Asks(t, what) ==
  /\ pc[t] = "idle"
  /\ wants' = [wants EXCEPT ![t] = what]
  /\ pc' = [pc EXCEPT ![t] = "load"]
  /\ UNCHANGED <<failures, offlineUntil, until, sinceOffline>>

Loads(t) ==
  /\ pc[t] = "load"
  /\ until' = [until EXCEPT ![t] = offlineUntil]
  /\ Goes(t, IF offlineUntil = Off THEN Admitted(t) ELSE "compare")
  /\ UNCHANGED <<failures, offlineUntil, sinceOffline>>

\* Mutants: the moment of the deadline is still offline; the deadline is not
\* looked at.
ServedLate(t)    == until[t] >= 0
ServedForever(t) == until[t] # Off

\* Before the deadline the caller is served without the AI.
Served(t) == until[t] > 0

Compares(t) ==
  /\ pc[t] = "compare"
  /\ Goes(t, IF Served(t) THEN "idle" ELSE "clear")
  /\ until' = [until EXCEPT ![t] = Off]
  /\ UNCHANGED <<failures, offlineUntil, sinceOffline>>

Clears(t) ==
  /\ pc[t] = "clear"
  /\ offlineUntil' = Off
  /\ Goes(t, "zero")
  /\ UNCHANGED <<failures, until, sinceOffline>>

Zeroes(t) ==
  /\ pc[t] = "zero"
  /\ failures' = 0
  /\ Goes(t, Admitted(t))
  /\ UNCHANGED <<offlineUntil, until, sinceOffline>>

----------------------------------------------------------------------------
(* The wrapped agent returns: markFailure and markSuccess. *)

AgentFails(t) ==
  /\ pc[t] = "inner"
  /\ failures' = failures + 1
  /\ Goes(t, IF failures' >= MaxFailures THEN "goOffline" ELSE "idle")
  /\ UNCHANGED <<offlineUntil, until, sinceOffline>>

\* The deadline is computed right before it is stored.
GoesOffline(t) ==
  /\ pc[t] = "goOffline"
  /\ offlineUntil' = Window
  /\ sinceOffline' = 0
  /\ Goes(t, "idle")
  /\ UNCHANGED <<failures, until>>

AgentAnswers(t) ==
  /\ pc[t] = "inner"
  /\ failures' = 0
  /\ Goes(t, "online")
  /\ UNCHANGED <<offlineUntil, until, sinceOffline>>

GoesOnline(t) ==
  /\ pc[t] = "online"
  /\ offlineUntil' = Off
  /\ Goes(t, "idle")
  /\ UNCHANGED <<failures, until, sinceOffline>>

----------------------------------------------------------------------------
Older(d) == IF d > 0 THEN d - 1 ELSE d

Clock == /\ offlineUntil' = Older(offlineUntil)
         /\ until' = [t \in Threads |-> Older(until[t])]
         /\ sinceOffline' = IF sinceOffline < Window THEN sinceOffline + 1 ELSE Window
         /\ UNCHANGED <<failures, pc, wants>>

Within(t) == \/ Loads(t) \/ Compares(t) \/ Clears(t) \/ Zeroes(t)
             \/ AgentFails(t) \/ GoesOffline(t) \/ AgentAnswers(t) \/ GoesOnline(t)
Come(t) == \E what \in {"answer", "status"} : Asks(t, what)
Next    == Clock \/ \E t \in Threads : Come(t) \/ Within(t)

Spec == Init /\ [][Next]_vars

\* A goroutine that has started a call goes on with it; the wrapped agent's
\* calls end because their contexts carry aiTimeout; and time passes.
FairSpec == Spec /\ WF_vars(Clock) /\ \A t \in Threads : WF_vars(Within(t))

----------------------------------------------------------------------------
\* Every variable holds a value of its type.  A failure is counted past
\* MaxFailures only by a call that began before the agent went offline.
TypeOK == /\ failures \in Nat
          /\ offlineUntil \in Deadlines
          /\ pc \in [Threads -> {"idle", "load", "compare", "clear", "zero",
                                 "inner", "goOffline", "online"}]
          /\ until \in [Threads -> Deadlines]
          /\ wants \in [Threads -> {"answer", "status"}]
          /\ sinceOffline \in 0 .. Window

\* fallback.go:15, "It exits offline mode automatically after a back-off
\* window": whatever the interleaving, nobody is turned away when the last
\* failure that sent the agent offline is Window minutes old.
OfflineAnswersAreRecent ==
  [][\A t \in Threads :
       pc[t] = "compare" /\ pc'[t] = "idle" => sinceOffline < Window]_vars

\* An agent that is asked again and again is given a chance again and again.
AgentIsTriedAgain ==
  ([]<><<\E t \in Threads : Asks(t, "answer")>>_vars)
    => []<>(\E t \in Threads : pc[t] = "inner")

\* With one goroutine the two atomics are a circuit breaker.  Between the two
\* accesses of a transition the breaker is already, or still, on one side.
At(where) == \E t \in Threads : pc[t] = where
Breaker == INSTANCE CircuitBreaker WITH
  failures <- IF At("goOffline") THEN failures - 1
              ELSE IF At("zero") THEN 0 ELSE failures,
  left     <- offlineUntil
IsACircuitBreaker == Breaker!Spec
=============================================================================
