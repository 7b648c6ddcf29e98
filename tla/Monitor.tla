------------------------------ MODULE Monitor ------------------------------
(***************************************************************************)
(* The background monitor of Gopher-Ops (internal/runner/monitor.go): a    *)
(* goroutine that once a minute compares Docker's containers with the      *)
(* states it saw a minute ago, restarts or reports what went down, runs    *)
(* the resource checks, and keeps restarts/alerts/alertSentAt in memory    *)
(* and in state.json.  It runs beside the Telegram update loop, which sets *)
(* snoozes and executes /reset, and beside Docker, which changes under it. *)
(*                                                                         *)
(* Time is counted in minutes.  A time stamp is modelled by its age, which *)
(* the Clock step increments; ages stop at the first value at which no     *)
(* comparison of the code tells them apart, so that time itself is not     *)
(* bounded.                                                                *)
(***************************************************************************)
EXTENDS Integers, FiniteSets

CONSTANTS
  Containers,       \* container ids; the same id keys s.alerts and "ctr:"+id
  ResourceKeys,     \* keys of the checks that follow the container loop
  KindOf,           \* which check a resource key belongs to
  Cooldown,         \* cfg.AlertCooldown
  LoopWindow,       \* the 5 minutes of handleCrashLoop
  RcaFresh,         \* the 10 minutes a cached diagnosis is reused
  SnoozeDurations,  \* what the snooze buttons offer
  DiskFails         \* may AtomicWriteFile fail?

Kinds == {"http", "disk", "mem", "cpu", "log"}
Keys  == Containers \cup ResourceKeys

ASSUME ContainersAssumption == IsFiniteSet(Containers)
ASSUME KeysAssumption == /\ Containers \cap ResourceKeys = {}
                         /\ KindOf \in [ResourceKeys -> Kinds]
ASSUME ConfigAssumption == DiskFails \in BOOLEAN
ASSUME TimeAssumption == /\ Cooldown \in Nat
                         /\ LoopWindow \in Nat \ {0}
                         /\ RcaFresh \in Nat \ {0}
                         /\ SnoozeDurations \subseteq Nat \ {0}
                         /\ IsFiniteSet(SnoozeDurations)

VARIABLES
  docker,     \* what Docker would answer: the state of every container
  up,         \* the process is running
  autopilot,  \* cfg.AutopilotEnabled, as read when the process booted
  mon,        \* where the monitor goroutine is
  at,         \* the key the monitor is working on
  todo,       \* what is left of the loop the monitor is in
  prev, cur,  \* previousStates and currentStates
  restarts, alerts, sentAge, crashLoop,   \* the struct `state`
  rcaAge,     \* age of the cached diagnosis; RcaFresh: none to reuse
  file,       \* state.json
  snooze,     \* minutes every key stays snoozed
  tickDue,    \* ticker.C holds a tick
  resetCh,    \* d.ResetCh (capacity 1) is full
  updater,    \* where the update loop is
  out         \* what the last step handed to the broadcaster

memory == <<restarts, alerts, sentAge, crashLoop>>
loop   == <<mon, at, todo, prev, cur>>
vars   == <<docker, up, autopilot, loop, memory, rcaAge, file, snooze,
            tickDue, resetCh, updater, out>>

----------------------------------------------------------------------------
Never == -1                       \* the zero time.Time
NoKey == "none"

DockerStates == {"running", "down", "absent"}
Statuses  == {"", "autopilot_sent", "alert_sent", "crashloop",
              "high", "mem_pressure", "log_alert"}
SavePcs   == {"saveDown", "saveLoop", "saveUp", "saveMem"}
TickPcs   == {"scan", "restart", "loop", "checks"} \cup SavePcs
Pages     == {"autopilot", "down", "critical", "crashloop"} \cup Kinds
Ages      == 0 .. (Cooldown + 1)

\* state.json holds three of the four maps: crashLoop is not written.
SavedStates == [restarts : [Containers -> 0 .. 3],
                alerts   : [Keys -> Statuses],
                sentAge  : [Keys -> Ages \cup {Never}]]

NoRestarts == [c \in Containers |-> 0]
NoAlerts   == [k \in Keys |-> ""]
NeverSent  == [k \in Keys |-> Never]
NoLoops    == [c \in Containers |-> {}]
NoRca      == [c \in Containers |-> RcaFresh]
NoneSeen   == [c \in Containers |-> "absent"]

\* A missing or unreadable state.json loads as newState() does.
EmptyFile == [restarts |-> NoRestarts, alerts |-> NoAlerts, sentAge |-> NeverSent]

ClearMemory == /\ restarts'  = NoRestarts
               /\ alerts'    = NoAlerts
               /\ sentAge'   = NeverSent
               /\ crashLoop' = NoLoops

SnoozeActive(k) == snooze[k] > 0

\* Mutant: the cooldown ends a minute early.
ShouldAlertEarly(k) == /\ ~SnoozeActive(k)
                       /\ \/ alerts[k] = ""
                          \/ sentAge[k] = Never
                          \/ sentAge[k] >= Cooldown

ShouldAlert(k) == /\ ~SnoozeActive(k)
                  /\ \/ alerts[k] = ""
                     \/ sentAge[k] = Never
                     \/ sentAge[k] > Cooldown

\* The message for key k goes to the broadcaster and the alert is recorded.
PageAs(k, page, status) == /\ out'     = {<<k, page>>}
                           /\ alerts'  = [alerts EXCEPT ![k] = status]
                           /\ sentAge' = [sentAge EXCEPT ![k] = 0]

----------------------------------------------------------------------------
Init == /\ docker \in [Containers -> DockerStates]
        /\ up = TRUE /\ autopilot \in BOOLEAN
        /\ mon = "off" /\ at = NoKey /\ todo = {}
        /\ prev = NoneSeen /\ cur = NoneSeen
        /\ restarts = NoRestarts /\ alerts = NoAlerts
        /\ sentAge = NeverSent /\ crashLoop = NoLoops
        /\ rcaAge = NoRca
        /\ file = EmptyFile
        /\ snooze = [k \in Keys |-> 0]
        /\ tickDue = FALSE
        /\ resetCh = FALSE
        /\ updater = "ready"
        /\ out = {}

----------------------------------------------------------------------------
(***************************************************************************)
(* The monitor goroutine.                                                  *)
(***************************************************************************)

\* Monitor() up to its loop.  A Docker error leaves previousStates empty.
MonitorStart ==
  /\ up /\ mon = "off"
  /\ mon' = "idle" /\ at' = NoKey /\ todo' = {}
  /\ prev' \in {docker, NoneSeen}
  /\ cur' = NoneSeen
  /\ restarts' = file.restarts
  /\ alerts'   = file.alerts
  /\ sentAge'  = file.sentAge
  /\ crashLoop' = NoLoops
  /\ rcaAge' = NoRca
  /\ tickDue' = FALSE
  /\ out' = {}
  /\ UNCHANGED <<docker, up, autopilot, file, snooze, resetCh, updater>>

\* Mutant: the pending reset is looked at, not received.
PeekReset ==
  /\ mon = "idle" /\ resetCh
  /\ ClearMemory
  /\ rcaAge' = NoRca
  /\ out' = {}
  /\ UNCHANGED <<docker, up, autopilot, loop, file, snooze, tickDue, resetCh,
                 updater>>

\* The ResetCh case of the select: memory only, state.json is not rewritten.
ConsumeReset ==
  /\ mon = "idle" /\ resetCh
  /\ resetCh' = FALSE
  /\ ClearMemory
  /\ rcaAge' = NoRca
  /\ out' = {}
  /\ UNCHANGED <<docker, up, autopilot, loop, file, snooze, tickDue, updater>>

\* Mutant: a failed tick replaces previousStates by its empty result.
TickFailsForgetting ==
  /\ mon = "idle" /\ tickDue
  /\ tickDue' = FALSE
  /\ prev' = NoneSeen
  /\ out' = {}
  /\ UNCHANGED <<docker, up, autopilot, mon, at, todo, cur, memory, rcaAge,
                 file, snooze, resetCh, updater>>

\* GetContainerStates fails: the tick is over and previousStates stays.
TickFails ==
  /\ mon = "idle" /\ tickDue
  /\ tickDue' = FALSE
  /\ out' = {}
  /\ UNCHANGED <<docker, up, autopilot, loop, memory, rcaAge, file, snooze,
                 resetCh, updater>>

TickStarts ==
  /\ mon = "idle" /\ tickDue
  /\ tickDue' = FALSE
  /\ mon' = "scan"
  /\ cur' = docker
  /\ todo' = {c \in Containers : docker[c] # "absent"}
  /\ rcaAge' = [c \in Containers |-> IF docker[c] = "absent" THEN RcaFresh
                                                             ELSE rcaAge[c]]
  /\ out' = {}
  /\ UNCHANGED <<docker, up, autopilot, at, prev, memory, file, snooze,
                 resetCh, updater>>

WentDown(c) == prev[c] = "running" /\ cur[c] # "running"
AutopilotTakes(c) == autopilot /\ restarts[c] < 3
Unhealthy(c) == restarts[c] > 0 \/ alerts[c] # ""

\* The next container of the loop; Go's map order is any order.
Visit(c) == /\ mon = "scan" /\ c \in todo
            /\ todo' = todo \ {c}

\* First half of the autopilot: count the attempt, then diagnose, which may
\* take as long as the model takes to answer.
AutopilotDiagnose(c) ==
  /\ Visit(c) /\ WentDown(c) /\ AutopilotTakes(c)
  /\ restarts' = [restarts EXCEPT ![c] = @ + 1]
  /\ \/ rcaAge[c] < RcaFresh /\ UNCHANGED rcaAge          \* from the cache
     \/ rcaAge[c] = RcaFresh /\ UNCHANGED rcaAge          \* the model failed
     \/ rcaAge[c] = RcaFresh /\ rcaAge' = [rcaAge EXCEPT ![c] = 0]
  /\ mon' = "restart" /\ at' = c
  /\ out' = {}
  /\ UNCHANGED <<docker, up, autopilot, prev, cur, alerts, sentAge, crashLoop,
                 file, snooze, tickDue, resetCh, updater>>

\* Second half: the restart, whose failure is only logged, and the message.
AutopilotRestart ==
  /\ mon = "restart"
  /\ \/ docker[at] # "absent" /\ docker' = [docker EXCEPT ![at] = "running"]
     \/ UNCHANGED docker
  /\ PageAs(at, "autopilot", "autopilot_sent")
  /\ mon' = "saveDown"
  /\ UNCHANGED <<up, autopilot, at, todo, prev, cur, restarts, crashLoop,
                 rcaAge, file, snooze, tickDue, resetCh, updater>>

DownAlert(c) ==
  /\ Visit(c) /\ WentDown(c) /\ ~AutopilotTakes(c) /\ ShouldAlert(c)
  /\ PageAs(c, IF restarts[c] >= 3 THEN "critical" ELSE "down", "alert_sent")
  /\ mon' = "saveDown" /\ at' = c
  /\ UNCHANGED <<docker, up, autopilot, prev, cur, restarts, crashLoop, rcaAge,
                 file, snooze, tickDue, resetCh, updater>>

DownSuppressed(c) ==
  /\ Visit(c) /\ WentDown(c) /\ ~AutopilotTakes(c) /\ ~ShouldAlert(c)
  /\ mon' = "loop" /\ at' = c
  /\ out' = {}
  /\ UNCHANGED <<docker, up, autopilot, prev, cur, memory, rcaAge, file,
                 snooze, tickDue, resetCh, updater>>

\* handleCrashLoop, which follows every handleContainerDown.  Entries older
\* than the window leave the set in Clock.
HandleCrashLoop ==
  /\ mon = "loop"
  /\ crashLoop' = [crashLoop EXCEPT ![at] = @ \cup {0}]
  /\ IF Cardinality(crashLoop'[at]) >= 3 /\ alerts[at] # "crashloop"
     THEN PageAs(at, "crashloop", "crashloop") /\ mon' = "saveLoop"
     ELSE mon' = "scan" /\ out' = {} /\ UNCHANGED <<alerts, sentAge>>
  /\ UNCHANGED <<docker, up, autopilot, at, todo, prev, cur, restarts, rcaAge,
                 file, snooze, tickDue, resetCh, updater>>

\* Mutants: the recovery is not saved; it keeps the crash-loop history.
RecoverUnsaved(c) ==
  /\ Visit(c) /\ cur[c] = "running" /\ Unhealthy(c)
  /\ restarts'  = [restarts EXCEPT ![c] = 0]
  /\ alerts'    = [alerts EXCEPT ![c] = ""]
  /\ crashLoop' = [crashLoop EXCEPT ![c] = {}]
  /\ mon' = "scan" /\ at' = c
  /\ out' = {}
  /\ UNCHANGED <<docker, up, autopilot, prev, cur, sentAge, rcaAge, file,
                 snooze, tickDue, resetCh, updater>>
RecoverKeepsLoop(c) ==
  /\ Visit(c) /\ cur[c] = "running" /\ Unhealthy(c)
  /\ restarts'  = [restarts EXCEPT ![c] = 0]
  /\ alerts'    = [alerts EXCEPT ![c] = ""]
  /\ mon' = "saveUp" /\ at' = c
  /\ out' = {}
  /\ UNCHANGED <<docker, up, autopilot, prev, cur, sentAge, crashLoop, rcaAge,
                 file, snooze, tickDue, resetCh, updater>>

Recover(c) ==
  /\ Visit(c) /\ cur[c] = "running" /\ Unhealthy(c)
  /\ restarts'  = [restarts EXCEPT ![c] = 0]
  /\ alerts'    = [alerts EXCEPT ![c] = ""]
  /\ crashLoop' = [crashLoop EXCEPT ![c] = {}]
  /\ mon' = "saveUp" /\ at' = c
  /\ out' = {}
  /\ UNCHANGED <<docker, up, autopilot, prev, cur, sentAge, rcaAge, file,
                 snooze, tickDue, resetCh, updater>>

NothingToDo(c) ==
  /\ Visit(c) /\ ~WentDown(c) /\ ~(cur[c] = "running" /\ Unhealthy(c))
  /\ out' = {}
  /\ UNCHANGED <<docker, up, autopilot, mon, at, prev, cur, memory, rcaAge,
                 file, snooze, tickDue, resetCh, updater>>

\* s.save(), the last call of the handler the monitor is in.
AfterSave == [pc \in SavePcs |-> CASE pc = "saveDown" -> "loop"
                                   [] pc = "saveMem"  -> "checks"
                                   [] OTHER           -> "scan"]
Save ==
  /\ mon \in SavePcs
  /\ \/ file' = [restarts |-> restarts, alerts |-> alerts, sentAge |-> sentAge]
     \/ DiskFails /\ UNCHANGED file
  /\ mon' = AfterSave[mon]
  /\ out' = {}
  /\ UNCHANGED <<docker, up, autopilot, at, todo, prev, cur, memory, rcaAge,
                 snooze, tickDue, resetCh, updater>>

----------------------------------------------------------------------------
(***************************************************************************)
(* The checks that follow the container loop, in the order of the code.    *)
(* Which resources are over their threshold is up to the environment.      *)
(***************************************************************************)
Order == [kind \in Kinds |-> CASE kind = "http" -> 1 [] kind = "disk" -> 2
                               [] kind = "mem"  -> 3 [] kind = "cpu"  -> 4
                               [] OTHER -> 5]
StatusOf == [kind \in Kinds |-> CASE kind = "disk" -> "high"
                                  [] kind = "mem"  -> "mem_pressure"
                                  [] OTHER -> "log_alert"]

StartChecks ==
  /\ mon = "scan" /\ todo = {}
  /\ mon' = "checks"
  /\ todo' \in SUBSET ResourceKeys
  /\ out' = {}
  /\ UNCHANGED <<docker, up, autopilot, at, prev, cur, memory, rcaAge, file,
                 snooze, tickDue, resetCh, updater>>

VisitCheck(k) == /\ mon = "checks" /\ k \in todo
                 /\ \A j \in todo : Order[KindOf[k]] <= Order[KindOf[j]]
                 /\ todo' = todo \ {k}

\* alertDisk, alertMemPressure, scanLogs.  Only alertMemPressure saves.
GatedAlert(k) ==
  /\ VisitCheck(k) /\ KindOf[k] \in {"disk", "mem", "log"}
  /\ at' = k
  /\ IF ShouldAlert(k)
     THEN /\ PageAs(k, KindOf[k], StatusOf[KindOf[k]])
          /\ mon' = IF KindOf[k] = "mem" THEN "saveMem" ELSE "checks"
     ELSE out' = {} /\ UNCHANGED <<mon, alerts, sentAge>>
  /\ UNCHANGED <<docker, up, autopilot, prev, cur, restarts, crashLoop, rcaAge,
                 file, snooze, tickDue, resetCh, updater>>

\* probeHTTP asks nobody; alertSustainedCPU asks snooze only.
UngatedAlert(k) ==
  /\ VisitCheck(k) /\ KindOf[k] \in {"http", "cpu"}
  /\ out' = IF KindOf[k] = "cpu" /\ SnoozeActive(k) THEN {} ELSE {<<k, KindOf[k]>>}
  /\ UNCHANGED <<docker, up, autopilot, mon, at, prev, cur, memory, rcaAge,
                 file, snooze, tickDue, resetCh, updater>>

TickEnds ==
  /\ mon = "checks" /\ todo = {}
  /\ mon' = "idle" /\ at' = NoKey
  /\ prev' = cur /\ cur' = NoneSeen
  /\ out' = {}
  /\ UNCHANGED <<docker, up, autopilot, todo, memory, rcaAge, file, snooze,
                 tickDue, resetCh, updater>>

----------------------------------------------------------------------------
(***************************************************************************)
(* The end of the goroutine (a panic that SuperviseMonitor recovers) and   *)
(* of the process, which leave only the two files.                         *)
(***************************************************************************)
LoseMonitor == /\ mon' = "off" /\ at' = NoKey /\ todo' = {}
               /\ prev' = NoneSeen /\ cur' = NoneSeen
               /\ ClearMemory
               /\ rcaAge' = NoRca
               /\ tickDue' = FALSE
               /\ out' = {}

MonitorPanics == /\ mon # "off"
                 /\ LoseMonitor
                 /\ UNCHANGED <<docker, up, autopilot, file, snooze, resetCh,
                                updater>>

ProcessStops == /\ up /\ up' = FALSE
                /\ LoseMonitor
                /\ resetCh' = FALSE /\ updater' = "ready"
                /\ UNCHANGED <<docker, autopilot, file, snooze>>

\* The configuration is read anew: the autopilot may have been switched.
ProcessBoots == /\ ~up /\ up' = TRUE
                /\ autopilot' \in BOOLEAN
                /\ out' = {}
                /\ UNCHANGED <<docker, loop, memory, rcaAge, file, snooze,
                               tickDue, resetCh, updater>>

----------------------------------------------------------------------------
(***************************************************************************)
(* The update loop.  resetText removes state.json and then tells the       *)
(* monitor, without waiting for it.                                        *)
(***************************************************************************)
Snoozable == {k \in Keys : k \in Containers \/ KindOf[k] \in {"mem", "cpu", "log"}}

PressSnooze(k, d) ==
  /\ up /\ updater = "ready"
  /\ snooze' = [snooze EXCEPT ![k] = d]
  /\ out' = {}
  /\ UNCHANGED <<docker, up, autopilot, loop, memory, rcaAge, file, tickDue,
                 resetCh, updater>>

ResetRemovesFile ==
  /\ up /\ updater = "ready"
  /\ updater' = "resetting"
  /\ file' = EmptyFile
  /\ out' = {}
  /\ UNCHANGED <<docker, up, autopilot, loop, memory, rcaAge, snooze, tickDue,
                 resetCh>>

ResetSignals ==
  /\ up /\ updater = "resetting"
  /\ updater' = "ready"
  /\ resetCh' = TRUE
  /\ out' = {}
  /\ UNCHANGED <<docker, up, autopilot, loop, memory, rcaAge, file, snooze,
                 tickDue>>

----------------------------------------------------------------------------
(***************************************************************************)
(* Docker and the clock.                                                   *)
(***************************************************************************)
ContainerChanges(c, to) ==
  /\ docker[c] # to
  /\ docker' = [docker EXCEPT ![c] = to]
  /\ out' = {}
  /\ UNCHANGED <<up, autopilot, loop, memory, rcaAge, file, snooze, tickDue,
                 resetCh, updater>>

Older(age)     == IF age = Never \/ age > Cooldown THEN age ELSE age + 1
OlderMap(ages) == [k \in Keys |-> Older(ages[k])]

\* A minute passes.  The ticker of a running monitor drops a tick nobody took.
Clock ==
  /\ sentAge' = OlderMap(sentAge)
  /\ file' = [file EXCEPT !.sentAge = OlderMap(@)]
  /\ crashLoop' = [c \in Containers |->
                     {a + 1 : a \in {b \in crashLoop[c] : b + 1 < LoopWindow}}]
  /\ rcaAge' = [c \in Containers |-> IF rcaAge[c] < RcaFresh THEN rcaAge[c] + 1
                                                             ELSE RcaFresh]
  /\ snooze' = [k \in Keys |-> IF snooze[k] > 0 THEN snooze[k] - 1 ELSE 0]
  /\ tickDue' = (mon # "off")
  /\ out' = {}
  /\ UNCHANGED <<docker, up, autopilot, loop, restarts, alerts, resetCh,
                 updater>>

----------------------------------------------------------------------------
Scan(c) == \/ AutopilotDiagnose(c) \/ DownAlert(c) \/ DownSuppressed(c)
           \/ Recover(c) \/ NothingToDo(c)

\* What the goroutine does once a tick has begun.
WithinTick == \/ \E c \in Containers : Scan(c)
              \/ AutopilotRestart \/ HandleCrashLoop \/ Save
              \/ StartChecks
              \/ \E k \in ResourceKeys : GatedAlert(k) \/ UngatedAlert(k)
              \/ TickEnds

UpdateLoop == \/ \E k \in Snoozable, d \in SnoozeDurations : PressSnooze(k, d)
              \/ ResetRemovesFile \/ ResetSignals

Step == \/ MonitorStart \/ ConsumeReset \/ TickFails \/ TickStarts
        \/ WithinTick
        \/ MonitorPanics \/ ProcessStops \/ ProcessBoots
        \/ UpdateLoop
        \/ \E c \in Containers, to \in DockerStates : ContainerChanges(c, to)

Next == Step \/ Clock

Spec == Init /\ [][Next]_vars

(***************************************************************************)
(* Fairness.  The goroutines keep running; SuperviseMonitor restarts the   *)
(* monitor; time passes; select takes a case that is ready time and again, *)
(* and Docker answers time and again.  Nothing is assumed of the operator, *)
(* of the containers or of crashes.                                        *)
(***************************************************************************)
Fairness == /\ WF_vars(MonitorStart)
            /\ WF_vars(WithinTick)
            /\ WF_vars(ResetSignals)
            /\ WF_vars(Clock)
            /\ SF_vars(ConsumeReset)
            /\ SF_vars(TickStarts)

FairSpec == Spec /\ Fairness

----------------------------------------------------------------------------
(***************************************************************************)
(* Properties.                                                             *)
(***************************************************************************)

\* Every variable holds a value of its type; in particular no counter in
\* memory or in state.json passes the three attempts of the autopilot.
TypeOK ==
  /\ docker \in [Containers -> DockerStates]
  /\ up \in BOOLEAN
  /\ autopilot \in BOOLEAN
  /\ mon \in {"off", "idle"} \cup TickPcs
  /\ at \in Keys \cup {NoKey}
  /\ todo \in SUBSET Keys
  /\ prev \in [Containers -> DockerStates]
  /\ cur \in [Containers -> DockerStates]
  /\ restarts \in [Containers -> 0 .. 3]
  /\ alerts \in [Keys -> Statuses]
  /\ sentAge \in [Keys -> Ages \cup {Never}]
  /\ crashLoop \in [Containers -> SUBSET (0 .. LoopWindow - 1)]
  /\ rcaAge \in [Containers -> 0 .. RcaFresh]
  /\ file \in SavedStates
  /\ snooze \in [Keys -> Nat]
  /\ tickDue \in BOOLEAN
  /\ resetCh \in BOOLEAN
  /\ updater \in {"ready", "resetting"}
  /\ out \in SUBSET (Keys \X Pages)

\* Inside a container's handler, `at` is that container.
HandlerHasContainer ==
  mon \in {"restart", "saveDown", "loop", "saveLoop", "saveUp"} => at \in Containers

\* An alert on record always has the time it was sent, in memory and in
\* state.json: shouldAlert's "lastSent.IsZero()" never lets a recorded alert
\* through, and /alerts never shows year 1.
AlertHasTime ==
  \A k \in Keys : /\ alerts[k] # "" => sentAge[k] # Never
                  /\ file.alerts[k] # "" => file.sentAge[k] # Never

\* Keys whose handlers save: containers and memory pressure.
Saved == {k \in Keys : k \in Containers \/ KindOf[k] = "mem"}

Blank(k)    == /\ alerts[k] = "" /\ sentAge[k] = Never
               /\ k \in Containers => restarts[k] = 0
OnDisk(k)   == /\ alerts[k] = file.alerts[k] /\ sentAge[k] = file.sentAge[k]
               /\ k \in Containers => restarts[k] = file.restarts[k]
ResetPending == updater = "resetting" \/ resetCh

\* Between ticks, with no /reset under way and a disk that works, state.json
\* holds what memory holds about every container and every memory alert, so a
\* restart forgets none of it.  The one exception is a key memory has no
\* record of: a /reset that met a save in mid-tick leaves the old record.
SavedMatchesMemory ==
  mon = "idle" /\ ~ResetPending /\ ~DiskFails =>
    \A k \in Saved : OnDisk(k) \/ Blank(k)

Paged(c) == \E page \in Pages : <<c, page>> \in out
Excused(c) == docker[c] # "down" \/ SnoozeActive(c) \/ mon = "off"

\* A container without an alert on record that is down when it was last seen
\* running is reported, unless it comes back, is snoozed, or the monitor dies.
DownIsReported ==
  \A c \in Containers :
    (mon = "idle" /\ prev[c] = "running" /\ docker[c] = "down" /\ alerts[c] = "")
      ~> (Paged(c) \/ Excused(c))

\* A /reset that was signalled is carried out, or dies with the process,
\* however busy the ticker keeps the select.
ResetIsConsumed == resetCh ~> ~resetCh

----------------------------------------------------------------------------
(***************************************************************************)
(* What the documentation says and the code does not do.                   *)
(***************************************************************************)

\* README.md:108, "max 3 attempts before HITL handoff": a container the
\* autopilot could not bring back reaches the operator's buttons.
AutopilotHandsOver ==
  \A c \in Containers :
    (/\ autopilot /\ mon = "idle"
     /\ docker[c] = "down" /\ alerts[c] = "autopilot_sent")
      ~> (\/ <<c, "down">> \in out \/ <<c, "critical">> \in out
          \/ Excused(c) \/ alerts[c] = "")

=============================================================================
