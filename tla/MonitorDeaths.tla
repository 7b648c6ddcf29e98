---------------------------- MODULE MonitorDeaths ----------------------------
(***************************************************************************)
(* Monitor with two history variables that no action reads: which deaths   *)
(* of a container this monitor has reported, one by one or as a crash      *)
(* loop, by their age, and whether the handler in progress has reported    *)
(* the one it is about.                                                    *)
(***************************************************************************)
EXTENDS Monitor

VARIABLES
  telling,   \* handleContainerDown has reported the death that is in hand
  told       \* by container, the ages of the reported deaths in the window

deathVars == <<vars, telling, told>>

InitD == /\ Init
         /\ telling = FALSE
         /\ told = NoLoops

\* The step that is handleCrashLoop.  A death comes two ticks after the one
\* before, so an age names one death of a container.
Counts == mon = "loop" /\ mon' \in {"scan", "saveLoop"}

TellsOf == IF mon' = "saveLoop" THEN told[at] \cup crashLoop'[at]
           ELSE IF telling THEN told[at] \cup {0} ELSE told[at] \ {0}

RecordDeath ==
  /\ telling' = (mon' \in {"saveDown", "loop"} /\ (telling \/ out' # {}))
  /\ told' = IF mon' = "off" THEN NoLoops
             ELSE IF Counts THEN [told EXCEPT ![at] = TellsOf] ELSE told

AgeDeaths ==
  /\ told' = [c \in Containers |-> {a + 1 : a \in {b \in told[c] : b + 1 < LoopWindow}}]
  /\ UNCHANGED telling

NextD == (Step /\ RecordDeath) \/ (Clock /\ AgeDeaths)
SpecD == InitD /\ [][NextD]_deathVars
FairSpecD == SpecD /\ Fairness

----------------------------------------------------------------------------
\* monitor.go:122, "Container healthy again — resetting trackers": a death that
\* was reported is in the crash-loop history only while its report stands and
\* the container has not been seen running again.  So what handleCrashLoop adds
\* up from one run of a container to the next are deaths nobody was told of.
ToldDeathsAreForgotten ==
  mon = "idle" =>
    \A c \in Containers :
      crashLoop[c] \cap told[c] # {} => alerts[c] # "" /\ prev[c] # "running"

(***************************************************************************)
(* What the documentation says and the code does not do.                   *)
(***************************************************************************)

\* monitor.go:295, "tracks restart timestamps independent of autopilot counter
\* so crash-loop detection fires even when AUTOPILOT_ENABLED=false": after three
\* deaths within the window, each of them reported, a crash loop is on record.
CrashLoopsAreDetected ==
  [][Counts /\ Cardinality(told'[at]) >= 3 => alerts'[at] = "crashloop"]_deathVars
=============================================================================
