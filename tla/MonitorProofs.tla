--------------------------- MODULE MonitorProofs ----------------------------
(***************************************************************************)
(* Machine-checked proofs about Monitor and its history variables, for     *)
(* every set of containers and resource keys and every configuration.      *)
(***************************************************************************)
EXTENDS MonitorHistory, MonitorDeaths, TLAPS

\* The ages a minute later are ages again.
LEMMA OlderType ==
  ASSUME NEW ages \in [Keys -> Ages \cup {Never}]
  PROVE  OlderMap(ages) \in [Keys -> Ages \cup {Never}]
<1>1. ASSUME NEW age \in Ages \cup {Never}
      PROVE  Older(age) \in Ages \cup {Never}
  BY <1>1, TimeAssumption, SMT DEF Older, Ages, Never
<1>. QED  BY <1>1 DEF OlderMap

\* A time stamp is never the zero time, now or a minute later.
LEMMA JustSent == 0 # Never
BY DEF Never

LEMMA OlderSent ==
  ASSUME NEW age \in Ages \cup {Never}, age # Never
  PROVE  Older(age) # Never
<1>1. age \in Nat
  BY TimeAssumption DEF Ages
<1>2. Older(age) \in Nat
  BY <1>1 DEF Older
<1>. QED  BY <1>2 DEF Never

\* The initial maps have the types of the maps.
LEMMA EmptyTypes ==
  /\ NoRestarts \in [Containers -> 0 .. 3]
  /\ NoAlerts \in [Keys -> Statuses]
  /\ NeverSent \in [Keys -> Ages \cup {Never}]
  /\ NoLoops \in [Containers -> SUBSET (0 .. LoopWindow - 1)]
  /\ NoRca \in [Containers -> 0 .. RcaFresh]
  /\ NoneSeen \in [Containers -> DockerStates]
  /\ EmptyFile \in SavedStates
<1>1. NoRca \in [Containers -> 0 .. RcaFresh]
  BY TimeAssumption DEF NoRca
<1>2. /\ NoRestarts \in [Containers -> 0 .. 3]
      /\ NoAlerts \in [Keys -> Statuses]
      /\ NeverSent \in [Keys -> Ages \cup {Never}]
  BY DEF NoRestarts, NoAlerts, Statuses, NeverSent
<1>3. /\ NoLoops \in [Containers -> SUBSET (0 .. LoopWindow - 1)]
      /\ NoneSeen \in [Containers -> DockerStates]
  BY DEF NoLoops, NoneSeen, DockerStates
<1>4. EmptyFile \in SavedStates
  BY <1>2 DEF EmptyFile, SavedStates
<1>. QED  BY <1>1, <1>2, <1>3, <1>4

\* Recording a page keeps the types of the three variables it writes.
LEMMA PageTypes ==
  ASSUME TypeOK, NEW k \in Keys, NEW page \in Pages, NEW status \in Statuses,
         PageAs(k, page, status)
  PROVE  /\ out' \in SUBSET (Keys \X Pages)
         /\ alerts' \in [Keys -> Statuses]
         /\ sentAge' \in [Keys -> Ages \cup {Never}]
<1>1. 0 \in Ages
  BY TimeAssumption DEF Ages
<1>. QED  BY <1>1 DEF PageAs, TypeOK

\* Every status and page the checks use is one of the named ones.
LEMMA KindTypes ==
  ASSUME NEW k \in ResourceKeys
  PROVE  k \in Keys /\ KindOf[k] \in Pages /\ StatusOf[KindOf[k]] \in Statuses
<1>1. KindOf[k] \in Kinds
  BY KeysAssumption
<1>2. StatusOf[KindOf[k]] \in Statuses
  BY <1>1 DEF StatusOf, Statuses
<1>. QED  BY <1>1, <1>2 DEF Keys, Pages

----------------------------------------------------------------------------
\* The types, and what `at` is inside a handler, hold together.
TypeInv == TypeOK /\ HandlerHasContainer

LEMMA TypeInvariance == Spec => []TypeInv
<1>1. Init => TypeInv
  <2>. SUFFICES ASSUME Init PROVE TypeInv
    OBVIOUS
  <2>1. HandlerHasContainer
    BY DEF Init, HandlerHasContainer
  <2>2. snooze \in [Keys -> Nat]
    BY DEF Init
  <2>. QED  BY <2>1, <2>2, EmptyTypes DEF Init, TypeInv, TypeOK
<1>2. TypeInv /\ [Next]_vars => TypeOK'
  <2>. SUFFICES ASSUME TypeOK, HandlerHasContainer, [Next]_vars PROVE TypeOK'
    BY DEF TypeInv
  <2>. USE DEF memory, loop, TickPcs, SavePcs
  <2>1. CASE MonitorStart
    BY <2>1, EmptyTypes DEF TypeOK, MonitorStart, SavedStates
  <2>2. CASE ConsumeReset
    BY <2>2, EmptyTypes DEF TypeOK, ConsumeReset, ClearMemory
  <2>3. CASE TickFails
    BY <2>3 DEF TypeOK, TickFails
  <2>4. CASE TickStarts
    <3>1. rcaAge' \in [Containers -> 0 .. RcaFresh]
      BY <2>4, TimeAssumption DEF TypeOK, TickStarts
    <3>2. todo' \in SUBSET Keys
      BY <2>4 DEF TickStarts, Keys
    <3>. QED  BY <2>4, <3>1, <3>2 DEF TypeOK, TickStarts
  <2>5. ASSUME NEW c \in Containers, AutopilotDiagnose(c) PROVE TypeOK'
    <3>1. restarts' \in [Containers -> 0 .. 3]
      BY <2>5 DEF TypeOK, AutopilotDiagnose, AutopilotTakes
    <3>2. rcaAge' \in [Containers -> 0 .. RcaFresh]
      BY <2>5, TimeAssumption DEF TypeOK, AutopilotDiagnose
    <3>. QED  BY <2>5, <3>1, <3>2 DEF TypeOK, AutopilotDiagnose, Visit, Keys
  <2>6. ASSUME NEW c \in Containers, DownAlert(c) PROVE TypeOK'
    <3>1. /\ out' \in SUBSET (Keys \X Pages)
          /\ alerts' \in [Keys -> Statuses]
          /\ sentAge' \in [Keys -> Ages \cup {Never}]
      BY <2>6, PageTypes DEF DownAlert, Keys, Pages, Statuses
    <3>. QED  BY <2>6, <3>1 DEF TypeOK, DownAlert, Visit, Keys
  <2>7. ASSUME NEW c \in Containers, DownSuppressed(c) PROVE TypeOK'
    BY <2>7 DEF TypeOK, DownSuppressed, Visit, Keys
  <2>8. ASSUME NEW c \in Containers, Recover(c) PROVE TypeOK'
    <3>1. restarts' \in [Containers -> 0 .. 3]
      <4>1. 0 \in 0 .. 3
        OBVIOUS
      <4>. QED  BY <2>8, <4>1 DEF TypeOK, Recover
    <3>2. alerts' \in [Keys -> Statuses]
      BY <2>8 DEF TypeOK, Recover, Statuses
    <3>3. crashLoop' \in [Containers -> SUBSET (0 .. LoopWindow - 1)]
      BY <2>8 DEF TypeOK, Recover
    <3>. QED  BY <2>8, <3>1, <3>2, <3>3 DEF TypeOK, Recover, Visit, Keys
  <2>9. ASSUME NEW c \in Containers, NothingToDo(c) PROVE TypeOK'
    BY <2>9 DEF TypeOK, NothingToDo, Visit
  <2>10. CASE AutopilotRestart
    <3>1. at \in Containers
      BY <2>10 DEF AutopilotRestart, HandlerHasContainer
    <3>2. docker' \in [Containers -> DockerStates]
      BY <2>10 DEF TypeOK, AutopilotRestart, DockerStates
    <3>3. /\ out' \in SUBSET (Keys \X Pages)
          /\ alerts' \in [Keys -> Statuses]
          /\ sentAge' \in [Keys -> Ages \cup {Never}]
      BY <2>10, <3>1, PageTypes DEF AutopilotRestart, Keys, Pages, Statuses
    <3>. QED  BY <2>10, <3>2, <3>3 DEF TypeOK, AutopilotRestart
  <2>11. CASE HandleCrashLoop
    <3>1. at \in Containers
      BY <2>11 DEF HandleCrashLoop, HandlerHasContainer
    <3>2. 0 \in 0 .. LoopWindow - 1
      BY TimeAssumption
    <3>3. crashLoop' \in [Containers -> SUBSET (0 .. LoopWindow - 1)]
      BY <2>11, <3>1, <3>2 DEF TypeOK, HandleCrashLoop
    <3>4. /\ out' \in SUBSET (Keys \X Pages)
          /\ alerts' \in [Keys -> Statuses]
          /\ sentAge' \in [Keys -> Ages \cup {Never}]
      <4>1. CASE PageAs(at, "crashloop", "crashloop")
        BY <3>1, <4>1, PageTypes DEF Keys, Pages, Statuses
      <4>2. CASE out' = {} /\ UNCHANGED <<alerts, sentAge>>
        BY <4>2 DEF TypeOK
      <4>. QED  BY <2>11, <4>1, <4>2 DEF HandleCrashLoop
    <3>. QED  BY <2>11, <3>3, <3>4 DEF TypeOK, HandleCrashLoop
  <2>12. CASE Save
    BY <2>12 DEF TypeOK, Save, SavedStates, AfterSave
  <2>13. CASE StartChecks
    BY <2>13 DEF TypeOK, StartChecks, Keys
  <2>14. ASSUME NEW k \in ResourceKeys, GatedAlert(k) PROVE TypeOK'
    <3>1. CASE ShouldAlert(k)
      <4>1. /\ out' \in SUBSET (Keys \X Pages)
            /\ alerts' \in [Keys -> Statuses]
            /\ sentAge' \in [Keys -> Ages \cup {Never}]
        BY <2>14, <3>1, PageTypes, KindTypes DEF GatedAlert
      <4>. QED  BY <2>14, <3>1, <4>1, KindTypes DEF TypeOK, GatedAlert, VisitCheck
    <3>2. CASE ~ShouldAlert(k)
      BY <2>14, <3>2, KindTypes DEF TypeOK, GatedAlert, VisitCheck
    <3>. QED  BY <3>1, <3>2
  <2>15. ASSUME NEW k \in ResourceKeys, UngatedAlert(k) PROVE TypeOK'
    BY <2>15, KindTypes DEF TypeOK, UngatedAlert, VisitCheck
  <2>16. CASE TickEnds
    BY <2>16, EmptyTypes DEF TypeOK, TickEnds
  <2>17. CASE MonitorPanics
    BY <2>17, EmptyTypes DEF TypeOK, MonitorPanics, LoseMonitor, ClearMemory
  <2>18. CASE ProcessStops
    BY <2>18, EmptyTypes DEF TypeOK, ProcessStops, LoseMonitor, ClearMemory
  <2>19. CASE ProcessBoots
    BY <2>19 DEF TypeOK, ProcessBoots
  <2>20. ASSUME NEW k \in Snoozable, NEW d \in SnoozeDurations, PressSnooze(k, d)
         PROVE  TypeOK'
    BY <2>20, TimeAssumption DEF TypeOK, PressSnooze
  <2>21. CASE ResetRemovesFile
    BY <2>21, EmptyTypes DEF TypeOK, ResetRemovesFile
  <2>22. CASE ResetSignals
    BY <2>22 DEF TypeOK, ResetSignals
  <2>23. ASSUME NEW c \in Containers, NEW to \in DockerStates, ContainerChanges(c, to)
         PROVE  TypeOK'
    BY <2>23 DEF TypeOK, ContainerChanges
  <2>24. CASE Clock
    <3>1. sentAge' \in [Keys -> Ages \cup {Never}]
      BY <2>24, OlderType DEF TypeOK, Clock
    <3>2. file' \in SavedStates
      BY <2>24, OlderType DEF TypeOK, Clock, SavedStates
    <3>3. crashLoop' \in [Containers -> SUBSET (0 .. LoopWindow - 1)]
      BY <2>24, TimeAssumption DEF TypeOK, Clock
    <3>4. rcaAge' \in [Containers -> 0 .. RcaFresh]
      BY <2>24, TimeAssumption DEF TypeOK, Clock
    <3>5. snooze' \in [Keys -> Nat]
      BY <2>24 DEF TypeOK, Clock
    <3>. QED  BY <2>24, <3>1, <3>2, <3>3, <3>4, <3>5 DEF TypeOK, Clock
  <2>25. CASE UNCHANGED vars
    BY <2>25 DEF TypeOK, vars
  <2>. QED
    BY <2>1, <2>2, <2>3, <2>4, <2>5, <2>6, <2>7, <2>8, <2>9, <2>10, <2>11,
       <2>12, <2>13, <2>14, <2>15, <2>16, <2>17, <2>18, <2>19, <2>20, <2>21,
       <2>22, <2>23, <2>24, <2>25
    DEF Next, Step, WithinTick, Scan, UpdateLoop
<1>3. TypeInv /\ [Next]_vars => HandlerHasContainer'
  <2>. SUFFICES ASSUME TypeInv, [Next]_vars PROVE HandlerHasContainer'
    OBVIOUS
  <2>. USE DEF HandlerHasContainer, TypeInv, memory, loop
  <2>1. CASE WithinTick
    <3>1. ASSUME NEW c \in Containers, Scan(c) PROVE HandlerHasContainer'
      BY <3>1 DEF Scan, Visit, AutopilotDiagnose, DownAlert, DownSuppressed, Recover, NothingToDo
    <3>2. CASE AutopilotRestart \/ HandleCrashLoop \/ StartChecks \/ TickEnds
      BY <3>2 DEF AutopilotRestart, HandleCrashLoop, StartChecks, TickEnds
    <3>3. CASE Save
      BY <3>3 DEF Save, AfterSave, SavePcs
    <3>4. ASSUME NEW k \in ResourceKeys, GatedAlert(k) \/ UngatedAlert(k)
          PROVE  HandlerHasContainer'
      BY <3>4 DEF GatedAlert, UngatedAlert, VisitCheck
    <3>. QED  BY <2>1, <3>1, <3>2, <3>3, <3>4 DEF WithinTick
  <2>2. CASE Step /\ ~WithinTick
    BY <2>2 DEF Step, MonitorStart, ConsumeReset, TickFails, TickStarts, MonitorPanics,
                ProcessStops, ProcessBoots, LoseMonitor, UpdateLoop, PressSnooze,
                ResetRemovesFile, ResetSignals, ContainerChanges
  <2>3. CASE Clock \/ UNCHANGED vars
    BY <2>3 DEF Clock, vars
  <2>. QED  BY <2>1, <2>2, <2>3 DEF Next
<1>. QED  BY <1>1, <1>2, <1>3, PTL DEF Spec, TypeInv

\* Monitor's variables keep their types: no interleaving of the monitor, the
\* update loop, Docker and the clock takes a counter past the autopilot's
\* three attempts, in memory or in state.json.
THEOREM TypeCorrect == Spec => []TypeOK
<1>1. TypeInv => TypeOK
  BY DEF TypeInv
<1>. QED  BY <1>1, TypeInvariance, PTL

----------------------------------------------------------------------------
(***************************************************************************)
(* The inductive strengthenings.                                           *)
(***************************************************************************)
InTick == mon \in TickPcs
DownHandler == mon \in {"restart", "saveDown", "loop", "saveLoop"}

\* Until its handler saves, the key in hand may differ from state.json.
SaveInv ==
  ~DiskFails /\ ~ResetPending /\ mon # "off" =>
    \A k \in Saved : \/ OnDisk(k) \/ Blank(k)
                     \/ k = at /\ mon \in {"restart"} \cup SavePcs

\* Where the monitor may be while it has not seen c running since it last died.
NotSeenUp(c) ==
  /\ mon = "idle" => prev[c] # "running"
  /\ InTick => IF c \in todo THEN prev[c] # "running" ELSE cur[c] # "running"

\* ToldDeathsAreForgotten at every moment of a tick: the report of a death that
\* is in the history stands, and the container in the down handler's hand is one
\* the tick has visited and found down.
ToldInv ==
  /\ told \in [Containers -> SUBSET (0 .. LoopWindow - 1)]
  /\ telling \in BOOLEAN
  /\ telling => mon \in {"saveDown", "loop"} /\ alerts[at] # ""
  /\ DownHandler => at \notin todo /\ cur[at] # "running"
  /\ \A c \in Containers :
       crashLoop[c] \cap told[c] # {} => alerts[c] # "" /\ NotSeenUp(c)

----------------------------------------------------------------------------
\* No step leaves an alert on record without the time it was sent, in memory
\* or in state.json.
THEOREM AlertsHaveTimes == Spec => []AlertHasTime
<1>1. Init => AlertHasTime
  <2>. SUFFICES ASSUME Init, NEW k \in Keys PROVE alerts[k] = "" /\ file.alerts[k] = ""
    BY DEF AlertHasTime
  <2>1. alerts = NoAlerts /\ file = EmptyFile
    BY DEF Init
  <2>2. file.alerts = NoAlerts
    BY <2>1 DEF EmptyFile
  <2>. QED  BY <2>1, <2>2 DEF NoAlerts
<1>2. TypeInv /\ AlertHasTime /\ [Next]_vars => AlertHasTime'
  <2>. SUFFICES ASSUME TypeInv, AlertHasTime, [Next]_vars PROVE AlertHasTime'
    OBVIOUS
  <2>. USE DEF AlertHasTime, memory
  <2>0. /\ alerts \in [Keys -> Statuses] /\ sentAge \in [Keys -> Ages \cup {Never}]
        /\ file \in SavedStates
    BY DEF TypeInv, TypeOK
  <2>1. ASSUME NEW k \in Keys, NEW page, NEW status, PageAs(k, page, status),
               UNCHANGED file
        PROVE  AlertHasTime'
    <3>1. /\ \A j \in Keys : j # k => alerts'[j] = alerts[j] /\ sentAge'[j] = sentAge[j]
          /\ sentAge'[k] = 0
      BY <2>1, <2>0 DEF PageAs
    <3>. QED  BY <2>1, <3>1, JustSent
  <2>2. CASE UNCHANGED <<alerts, sentAge, file>>
    BY <2>2
  <2>3. CASE MonitorStart
    BY <2>3 DEF MonitorStart
  <2>4. CASE ConsumeReset \/ MonitorPanics \/ ProcessStops
    BY <2>4 DEF ConsumeReset, MonitorPanics, ProcessStops, LoseMonitor, ClearMemory, NoAlerts
  <2>5. ASSUME NEW c \in Containers, Scan(c) PROVE AlertHasTime'
    <3>1. CASE DownAlert(c)
      BY <2>1, <3>1 DEF DownAlert, Keys
    <3>2. CASE Recover(c)
      BY <3>2 DEF Recover, TypeInv, TypeOK
    <3>3. CASE AutopilotDiagnose(c) \/ DownSuppressed(c) \/ NothingToDo(c)
      BY <2>2, <3>3 DEF AutopilotDiagnose, DownSuppressed, NothingToDo
    <3>. QED  BY <2>5, <3>1, <3>2, <3>3 DEF Scan
  <2>6. CASE AutopilotRestart
    BY <2>1, <2>6 DEF AutopilotRestart, TypeInv, HandlerHasContainer, Keys
  <2>7. CASE HandleCrashLoop
    <3>1. at \in Keys
      BY <2>7 DEF HandleCrashLoop, TypeInv, HandlerHasContainer, Keys
    <3>. QED  BY <2>1, <2>2, <2>7, <3>1 DEF HandleCrashLoop
  <2>8. CASE Save
    <3>1. CASE file' = [restarts |-> restarts, alerts |-> alerts, sentAge |-> sentAge]
      <4>1. file'.alerts = alerts /\ file'.sentAge = sentAge
        BY <3>1
      <4>. QED  BY <2>8, <4>1 DEF Save
    <3>2. CASE UNCHANGED file
      BY <2>2, <2>8, <3>2 DEF Save
    <3>. QED  BY <2>8, <3>1, <3>2 DEF Save
  <2>9. ASSUME NEW k \in ResourceKeys, GatedAlert(k) \/ UngatedAlert(k)
        PROVE  AlertHasTime'
    BY <2>1, <2>2, <2>9 DEF GatedAlert, UngatedAlert, Keys
  <2>10. CASE ResetRemovesFile
    BY <2>10 DEF ResetRemovesFile, EmptyFile, NoAlerts
  <2>11. CASE Clock
    <3>1. ASSUME NEW age \in Ages \cup {Never}, age # Never PROVE Older(age) # Never
      BY <3>1, OlderSent
    <3>2. /\ alerts' = alerts
          /\ sentAge' = OlderMap(sentAge)
      BY <2>11 DEF Clock
    <3>3. /\ file'.alerts = file.alerts
          /\ file'.sentAge = OlderMap(file.sentAge)
      BY <2>11 DEF Clock, TypeInv, TypeOK, SavedStates
    <3>. QED  BY <3>1, <3>2, <3>3 DEF OlderMap, TypeInv, TypeOK, SavedStates
  <2>12. CASE \/ TickFails \/ TickStarts \/ StartChecks \/ TickEnds
              \/ ProcessBoots \/ ResetSignals
    BY <2>2, <2>12 DEF TickFails, TickStarts, StartChecks, TickEnds, ProcessBoots, ResetSignals
  <2>13. ASSUME NEW k \in Snoozable, NEW d \in SnoozeDurations, PressSnooze(k, d)
         PROVE  AlertHasTime'
    BY <2>2, <2>13 DEF PressSnooze
  <2>14. ASSUME NEW c \in Containers, NEW to \in DockerStates, ContainerChanges(c, to)
         PROVE  AlertHasTime'
    BY <2>2, <2>14 DEF ContainerChanges
  <2>15. CASE UNCHANGED vars
    BY <2>2, <2>15 DEF vars
  <2>. QED
    BY <2>3, <2>4, <2>5, <2>6, <2>7, <2>8, <2>9, <2>10, <2>11, <2>12, <2>13,
       <2>14, <2>15 DEF Next, Step, WithinTick, UpdateLoop
<1>. QED  BY <1>1, <1>2, TypeInvariance, PTL DEF Spec

----------------------------------------------------------------------------
\* With a disk that works, whatever the monitor records about a container or
\* a memory alert is in state.json by the end of its handler; only a /reset
\* leaves the two apart, and then memory is the blank one.
THEOREM SavedStateIsCurrent == Spec => []SavedMatchesMemory
<1>1. Init => SaveInv
  BY DEF Init, SaveInv
<1>2. TypeInv /\ SaveInv /\ [Next]_vars => SaveInv'
  <2>. SUFFICES ASSUME TypeInv, SaveInv, [Next]_vars,
                       ~DiskFails, ~ResetPending', mon' # "off", NEW k \in Saved
                PROVE  (OnDisk(k) \/ Blank(k)
                          \/ (k = at /\ mon \in {"restart"} \cup SavePcs))'
    BY DEF SaveInv, Saved
  <2>. k \in Keys
    BY DEF Saved
  <2>. USE DEF memory, loop, SavePcs, OnDisk, Blank, ResetPending
  <2>1. CASE MonitorStart
    BY <2>1 DEF MonitorStart
  <2>2. CASE ConsumeReset
    BY <2>2 DEF ConsumeReset, ClearMemory, NoAlerts, NeverSent, NoRestarts
  <2>3. CASE Save
    <3>1. CASE file' = [restarts |-> restarts, alerts |-> alerts, sentAge |-> sentAge]
      <4>1. file'.alerts = alerts /\ file'.sentAge = sentAge /\ file'.restarts = restarts
        BY <3>1
      <4>2. UNCHANGED <<alerts, sentAge, restarts>>
        BY <2>3 DEF Save
      <4>. QED  BY <4>1, <4>2
    <3>. QED  BY <2>3, <3>1 DEF Save
  <2>4. CASE ResetRemovesFile \/ ResetSignals
    BY <2>4 DEF ResetRemovesFile, ResetSignals
  <2>5. CASE MonitorPanics \/ ProcessStops
    BY <2>5 DEF MonitorPanics, ProcessStops, LoseMonitor
  <2>6. CASE ProcessBoots
    BY <2>6 DEF ProcessBoots, SaveInv
  <2>10. ASSUME ~ResetPending, mon # "off"
         PROVE  OnDisk(k) \/ Blank(k) \/ (k = at /\ mon \in {"restart"} \cup SavePcs)
    BY <2>10 DEF SaveInv, Saved
  <2>11. ASSUME NEW c \in Containers, Scan(c)
         PROVE  (OnDisk(k) \/ Blank(k) \/ (k = at /\ mon \in {"restart"} \cup SavePcs))'
    <3>1. /\ mon = "scan" /\ UNCHANGED <<file, resetCh, updater>>
      BY <2>11 DEF Scan, Visit, AutopilotDiagnose, DownAlert, DownSuppressed, Recover, NothingToDo
    <3>2. OnDisk(k) \/ Blank(k)
      BY <2>10, <3>1
    <3>3. CASE AutopilotDiagnose(c) \/ DownAlert(c) \/ Recover(c)
      <4>1. /\ at' = c /\ mon' \in {"restart"} \cup SavePcs
            /\ \A j \in Keys \ {c} : alerts'[j] = alerts[j] /\ sentAge'[j] = sentAge[j]
            /\ \A j \in Containers \ {c} : restarts'[j] = restarts[j]
        BY <3>3 DEF AutopilotDiagnose, DownAlert, Recover, PageAs, TypeInv, TypeOK
      <4>. QED  BY <3>1, <3>2, <4>1
    <3>4. CASE DownSuppressed(c) \/ NothingToDo(c)
      BY <3>1, <3>2, <3>4 DEF DownSuppressed, NothingToDo
    <3>. QED  BY <2>11, <3>3, <3>4 DEF Scan
  <2>12. CASE AutopilotRestart
    <3>1. \A j \in Keys \ {at} : alerts'[j] = alerts[j] /\ sentAge'[j] = sentAge[j]
      BY <2>12 DEF AutopilotRestart, PageAs, TypeInv, TypeOK
    <3>. QED  BY <2>10, <2>12, <3>1 DEF AutopilotRestart
  <2>13. CASE HandleCrashLoop
    <3>1. CASE PageAs(at, "crashloop", "crashloop") /\ mon' = "saveLoop"
      <4>1. \A j \in Keys \ {at} : alerts'[j] = alerts[j] /\ sentAge'[j] = sentAge[j]
        BY <3>1 DEF PageAs, TypeInv, TypeOK
      <4>. QED  BY <2>10, <2>13, <3>1, <4>1 DEF HandleCrashLoop
    <3>2. CASE UNCHANGED <<alerts, sentAge>>
      BY <2>10, <2>13, <3>2 DEF HandleCrashLoop
    <3>. QED  BY <2>13, <3>1, <3>2 DEF HandleCrashLoop
  <2>14. ASSUME NEW r \in ResourceKeys, GatedAlert(r)
         PROVE  (OnDisk(k) \/ Blank(k) \/ (k = at /\ mon \in {"restart"} \cup SavePcs))'
    <3>1. /\ mon = "checks" /\ at' = r
          /\ UNCHANGED <<restarts, file, resetCh, updater>>
      BY <2>14 DEF GatedAlert, VisitCheck
    <3>2. OnDisk(k) \/ Blank(k)
      BY <2>10, <3>1
    <3>3. CASE ShouldAlert(r)
      <4>1. \A j \in Keys \ {r} : alerts'[j] = alerts[j] /\ sentAge'[j] = sentAge[j]
        BY <2>14, <3>3 DEF GatedAlert, PageAs, TypeInv, TypeOK
      <4>2. CASE k = r
        BY <2>14, <3>1, <3>3, <4>2, KeysAssumption DEF GatedAlert, Saved
      <4>3. CASE k # r
        BY <3>1, <3>2, <4>1, <4>3
      <4>. QED  BY <4>2, <4>3
    <3>4. CASE ~ShouldAlert(r)
      BY <2>14, <3>1, <3>2, <3>4 DEF GatedAlert
    <3>. QED  BY <3>3, <3>4
  <2>15. CASE Clock
    <3>1. /\ UNCHANGED <<alerts, restarts, mon, at, resetCh, updater>>
          /\ sentAge'[k] = Older(sentAge[k])
      BY <2>15 DEF Clock, OlderMap
    <3>2. /\ file'.alerts = file.alerts /\ file'.restarts = file.restarts
          /\ file'.sentAge[k] = Older(file.sentAge[k])
      BY <2>15 DEF Clock, TypeInv, TypeOK, SavedStates, OlderMap
    <3>3. Older(Never) = Never
      BY DEF Older
    <3>. QED  BY <2>10, <3>1, <3>2, <3>3
  <2>16. CASE /\ UNCHANGED <<memory, file, resetCh, updater, at>>
              /\ mon # "off" /\ (mon' = mon \/ mon \in {"idle", "scan"})
    BY <2>10, <2>16
  <2>17. CASE TickFails \/ TickStarts \/ StartChecks
    BY <2>16, <2>17 DEF TickFails, TickStarts, StartChecks
  <2>18. CASE TickEnds
    BY <2>10, <2>18 DEF TickEnds
  <2>19. ASSUME NEW r \in ResourceKeys, UngatedAlert(r)
         PROVE  (OnDisk(k) \/ Blank(k) \/ (k = at /\ mon \in {"restart"} \cup SavePcs))'
    BY <2>16, <2>19 DEF UngatedAlert, VisitCheck
  <2>20. ASSUME NEW s \in Snoozable, NEW d \in SnoozeDurations, PressSnooze(s, d)
         PROVE  (OnDisk(k) \/ Blank(k) \/ (k = at /\ mon \in {"restart"} \cup SavePcs))'
    BY <2>16, <2>20 DEF PressSnooze
  <2>21. ASSUME NEW c \in Containers, NEW to \in DockerStates, ContainerChanges(c, to)
         PROVE  (OnDisk(k) \/ Blank(k) \/ (k = at /\ mon \in {"restart"} \cup SavePcs))'
    BY <2>16, <2>21 DEF ContainerChanges
  <2>22. CASE UNCHANGED vars
    BY <2>16, <2>22 DEF vars
  <2>. QED
    BY <2>1, <2>2, <2>3, <2>4, <2>5, <2>6, <2>11, <2>12, <2>13, <2>14, <2>15,
       <2>17, <2>18, <2>19, <2>20, <2>21, <2>22
    DEF Next, Step, WithinTick, UpdateLoop
<1>3. SaveInv => SavedMatchesMemory
  BY DEF SaveInv, SavedMatchesMemory, SavePcs
<1>. QED  BY <1>1, <1>2, <1>3, TypeInvariance, PTL DEF Spec

----------------------------------------------------------------------------
\* What the checks leave alone of a container.
LEMMA ChecksLeaveContainers ==
  ASSUME TypeInv, NEW k \in ResourceKeys, GatedAlert(k) \/ UngatedAlert(k)
  PROVE  /\ \A c \in Containers : alerts'[c] = alerts[c] /\ (c \in todo' <=> c \in todo)
         /\ mon = "checks" /\ mon' \in {"checks", "saveMem"}
         /\ UNCHANGED <<prev, cur, restarts, crashLoop>>
<1>1. \A c \in Containers : c # k /\ c \in Keys
  BY KeysAssumption DEF Keys
<1>2. k \in Keys
  BY DEF Keys
<1>3. alerts \in [Keys -> Statuses]
  BY DEF TypeInv, TypeOK
<1>4. CASE GatedAlert(k)
  BY <1>1, <1>2, <1>3, <1>4 DEF GatedAlert, VisitCheck, PageAs
<1>5. CASE UngatedAlert(k)
  BY <1>1, <1>5 DEF UngatedAlert, VisitCheck, memory
<1>. QED  BY <1>4, <1>5

LEMMA DeathsAreMonitors == SpecD => Spec
<1>1. InitD => Init
  BY DEF InitD
<1>2. [NextD]_deathVars => [Next]_vars
  BY DEF NextD, Next, deathVars
<1>. QED  BY <1>1, <1>2, PTL DEF SpecD, Spec

\* The history variables keep their types.
LEMMA ToldTypes ==
  ASSUME TypeInv, ToldInv, [NextD]_deathVars
  PROVE  told' \in [Containers -> SUBSET (0 .. LoopWindow - 1)] /\ telling' \in BOOLEAN
<1>1. /\ told \in [Containers -> SUBSET (0 .. LoopWindow - 1)] /\ telling \in BOOLEAN
      /\ crashLoop \in [Containers -> SUBSET (0 .. LoopWindow - 1)]
      /\ NoLoops \in [Containers -> SUBSET (0 .. LoopWindow - 1)]
      /\ 0 \in 0 .. LoopWindow - 1
  <2>1. 0 \in 0 .. LoopWindow - 1
    BY TimeAssumption
  <2>. QED  BY <2>1, EmptyTypes DEF ToldInv, TypeInv, TypeOK
<1>2. CASE Step /\ RecordDeath
  <2>1. telling' \in BOOLEAN
    BY <1>2 DEF RecordDeath
  <2>2. CASE Counts
    <3>1. at \in Containers /\ mon' # "off"
      BY <2>2 DEF Counts, TypeInv, HandlerHasContainer
    <3>2. HandleCrashLoop
      BY <1>2, <2>2 DEF Counts, Step, MonitorStart, ConsumeReset, TickFails, TickStarts,
         WithinTick, Scan, AutopilotDiagnose, DownAlert, DownSuppressed, Recover, NothingToDo,
         Visit, AutopilotRestart, Save, SavePcs, StartChecks, GatedAlert, UngatedAlert,
         VisitCheck, TickEnds, MonitorPanics, ProcessStops, ProcessBoots, LoseMonitor,
         UpdateLoop, PressSnooze, ResetRemovesFile, ResetSignals, ContainerChanges, loop
    <3>3. crashLoop'[at] = crashLoop[at] \cup {0}
      BY <1>1, <3>1, <3>2 DEF HandleCrashLoop
    <3>4. TellsOf \in SUBSET (0 .. LoopWindow - 1)
      BY <1>1, <3>1, <3>3 DEF TellsOf
    <3>5. told' = [told EXCEPT ![at] = TellsOf]
      BY <1>2, <2>2, <3>1 DEF RecordDeath
    <3>. QED  BY <1>1, <2>1, <3>4, <3>5
  <2>3. CASE ~Counts
    BY <1>1, <1>2, <2>1, <2>3 DEF RecordDeath
  <2>. QED  BY <2>2, <2>3
<1>3. CASE Clock /\ AgeDeaths
  BY <1>1, <1>3, TimeAssumption DEF AgeDeaths
<1>4. CASE UNCHANGED deathVars
  BY <1>1, <1>4 DEF deathVars
<1>. QED  BY <1>2, <1>3, <1>4 DEF NextD

\* Outside the down handler nothing is being told.
LEMMA NotTelling ==
  ASSUME RecordDeath, mon' \notin {"saveDown", "loop"}
  PROVE  telling' = FALSE
BY DEF RecordDeath

\* handleCrashLoop adds to the history a death that was reported, and whose
\* report stands, or one that was not.
LEMMA CountingStep ==
  ASSUME TypeInv, ToldInv, RecordDeath, HandleCrashLoop
  PROVE  /\ telling' = FALSE
         /\ \A c \in Containers : crashLoop'[c] \cap told'[c] # {} => alerts'[c] # "" /\ NotSeenUp(c)'
<1>1. /\ mon = "loop" /\ mon' \in {"scan", "saveLoop"} /\ at \in Containers /\ at \in Keys
      /\ UNCHANGED <<at, todo, prev, cur>>
      /\ alerts \in [Keys -> Statuses] /\ told \in [Containers -> SUBSET (0 .. LoopWindow - 1)]
      /\ crashLoop \in [Containers -> SUBSET (0 .. LoopWindow - 1)]
  BY DEF HandleCrashLoop, PageAs, ToldInv, TypeInv, TypeOK, HandlerHasContainer, Keys
<1>2. at \notin todo /\ cur[at] # "running"
  BY <1>1 DEF ToldInv, DownHandler
<1>3. crashLoop' = [crashLoop EXCEPT ![at] = @ \cup {0}] /\ told' = [told EXCEPT ![at] = TellsOf]
  BY <1>1 DEF HandleCrashLoop, RecordDeath, Counts
<1>4. \A j \in Keys \ {at} : alerts'[j] = alerts[j]
  BY <1>1 DEF HandleCrashLoop, PageAs
<1>5. ASSUME NEW c \in Containers, c # at, crashLoop'[c] \cap told'[c] # {}
      PROVE  alerts'[c] # "" /\ NotSeenUp(c)'
  <2>1. crashLoop[c] \cap told[c] # {} /\ alerts'[c] = alerts[c]
    BY <1>1, <1>3, <1>4, <1>5 DEF Keys
  <2>. QED  BY <1>1, <2>1 DEF ToldInv, NotSeenUp, InTick, TickPcs, SavePcs
<1>6. NotSeenUp(at)'
  BY <1>1, <1>2 DEF NotSeenUp, InTick, TickPcs, SavePcs
<1>7. ASSUME crashLoop'[at] \cap told'[at] # {} PROVE alerts'[at] # ""
  <2>1. CASE mon' = "saveLoop"
    BY <1>1, <2>1 DEF HandleCrashLoop, PageAs
  <2>2. CASE mon' # "saveLoop"
    <3>1. alerts' = alerts
      BY <2>2 DEF HandleCrashLoop
    <3>2. CASE telling
      BY <3>1, <3>2 DEF ToldInv
    <3>3. CASE ~telling
      <4>1. crashLoop[at] \cap told[at] # {}
        BY <1>1, <1>3, <1>7, <2>2, <3>3 DEF TellsOf
      <4>. QED  BY <1>1, <3>1, <4>1 DEF ToldInv
    <3>. QED  BY <3>2, <3>3
  <2>. QED  BY <2>1, <2>2
<1>8. telling' = FALSE
  BY <1>1, NotTelling
<1>. QED  BY <1>1, <1>5, <1>6, <1>7, <1>8

\* Two sets of ages that meet a minute later meet now.
LEMMA OlderSets ==
  ASSUME NEW A \in SUBSET (0 .. LoopWindow - 1), NEW B \in SUBSET (0 .. LoopWindow - 1),
         {a + 1 : a \in {b \in A : b + 1 < LoopWindow}}
           \cap {a + 1 : a \in {b \in B : b + 1 < LoopWindow}} # {}
  PROVE  A \cap B # {}
<1>1. PICK a \in A, b \in B : a + 1 = b + 1
  OBVIOUS
<1>2. a \in 0 .. LoopWindow - 1 /\ b \in 0 .. LoopWindow - 1 /\ LoopWindow \in Nat
  BY TimeAssumption
<1>3. a = b
  BY <1>1, <1>2
<1>. QED  BY <1>3

\* A death that was reported leaves the crash-loop history when the container is
\* next seen running: what handleCrashLoop adds up are deaths nobody was told of.
THEOREM LoopsAreSilent == SpecD => []ToldDeathsAreForgotten
<1>1. InitD => ToldInv
  BY EmptyTypes DEF InitD, Init, ToldInv, NoLoops, DownHandler
<1>2. TypeInv /\ ToldInv /\ [NextD]_deathVars => ToldInv'
  <2>. SUFFICES ASSUME TypeInv, ToldInv, [NextD]_deathVars PROVE ToldInv'
    OBVIOUS
  <2>0. /\ alerts \in [Keys -> Statuses]
        /\ crashLoop \in [Containers -> SUBSET (0 .. LoopWindow - 1)]
        /\ told \in [Containers -> SUBSET (0 .. LoopWindow - 1)]
        /\ told' \in [Containers -> SUBSET (0 .. LoopWindow - 1)] /\ telling' \in BOOLEAN
        /\ \A c \in Containers : c \in Keys
    BY ToldTypes DEF TypeInv, TypeOK, Keys, ToldInv
  <2>. USE DEF ToldInv, DownHandler, InTick, TickPcs, SavePcs, NotSeenUp, memory, loop
  <2>1. CASE Step /\ RecordDeath
    <3>1. ASSUME mon' # "off", ~Counts PROVE UNCHANGED told
      BY <2>1, <3>1 DEF RecordDeath
    <3>2. CASE MonitorStart \/ ConsumeReset
      <4>1. crashLoop' = NoLoops /\ mon' = "idle"
        BY <3>2 DEF MonitorStart, ConsumeReset, ClearMemory
      <4>. QED  BY <2>0, <2>1, <4>1, NotTelling DEF NoLoops
    <3>3. CASE TickStarts
      <4>1. /\ mon = "idle" /\ mon' = "scan" /\ cur' = docker
            /\ todo' = {c \in Containers : docker[c] # "absent"}
            /\ UNCHANGED <<prev, alerts, crashLoop, told>>
        BY <3>1, <3>3 DEF TickStarts, Counts
      <4>. QED  BY <2>0, <2>1, <4>1, NotTelling
    <3>4. ASSUME NEW c \in Containers, Visit(c), WentDown(c), at' = c,
                 UNCHANGED <<prev, cur, crashLoop>>,
                 \A j \in Keys \ {c} : alerts'[j] = alerts[j],
                 mon' \in {"restart", "saveDown", "loop"},
                 telling' => mon' \in {"saveDown", "loop"} /\ alerts'[c] # ""
          PROVE  ToldInv'
      <4>1. UNCHANGED told
        BY <3>1, <3>4 DEF Visit, Counts
      <4>2. crashLoop[c] \cap told[c] = {}
        BY <3>4 DEF Visit, WentDown
      <4>. QED  BY <2>0, <3>4, <4>1, <4>2 DEF Visit, WentDown
    <3>5. ASSUME NEW c \in Containers, AutopilotDiagnose(c) PROVE ToldInv'
      <4>1. telling' = FALSE
        BY <2>1, <3>5, NotTelling DEF AutopilotDiagnose
      <4>. QED  BY <3>4, <3>5, <4>1 DEF AutopilotDiagnose
    <3>6. ASSUME NEW c \in Containers, DownAlert(c) PROVE ToldInv'
      <4>1. /\ \A j \in Keys \ {c} : alerts'[j] = alerts[j]
            /\ alerts'[c] = "alert_sent"
        BY <2>0, <3>6 DEF DownAlert, PageAs
      <4>. QED  BY <3>4, <3>6, <4>1 DEF DownAlert
    <3>7. ASSUME NEW c \in Containers, DownSuppressed(c) PROVE ToldInv'
      <4>1. telling' = FALSE
        BY <2>1, <3>7 DEF DownSuppressed, Visit, RecordDeath
      <4>. QED  BY <3>4, <3>7, <4>1 DEF DownSuppressed
    <3>8. ASSUME NEW c \in Containers, Recover(c) PROVE ToldInv'
      <4>1. /\ telling' = FALSE /\ UNCHANGED told
            /\ \A d \in Containers \ {c} : alerts'[d] = alerts[d] /\ crashLoop'[d] = crashLoop[d]
            /\ crashLoop'[c] = {}
            /\ mon = "scan" /\ mon' = "saveUp" /\ todo' = todo \ {c} /\ UNCHANGED <<prev, cur>>
        BY <2>0, <2>1, <3>1, <3>8, NotTelling DEF Recover, Visit, Counts
      <4>. QED  BY <2>0, <4>1
    <3>9. ASSUME NEW c \in Containers, NothingToDo(c) PROVE ToldInv'
      <4>1. cur[c] = "running" => alerts[c] = ""
        BY <3>9 DEF NothingToDo, Unhealthy
      <4>2. /\ mon = "scan" /\ telling' = FALSE /\ UNCHANGED told
            /\ todo' = todo \ {c} /\ UNCHANGED <<mon, prev, cur, alerts, crashLoop>>
        <5>1. mon' = mon /\ mon = "scan"
          BY <3>9 DEF NothingToDo, Visit
        <5>. QED  BY <2>1, <3>1, <3>9, <5>1, NotTelling DEF NothingToDo, Visit, Counts
      <4>. QED  BY <2>0, <4>1, <4>2
    <3>10. CASE AutopilotRestart
      <4>1. /\ \A j \in Keys \ {at} : alerts'[j] = alerts[j]
            /\ alerts'[at] = "autopilot_sent" /\ at \in Containers
        BY <2>0, <3>10 DEF AutopilotRestart, PageAs, TypeInv, HandlerHasContainer
      <4>2. /\ mon = "restart" /\ mon' = "saveDown"
            /\ UNCHANGED <<at, todo, prev, cur, crashLoop, told>>
        BY <3>1, <3>10 DEF AutopilotRestart, Counts
      <4>. QED  BY <2>0, <4>1, <4>2
    <3>11. CASE HandleCrashLoop
      <4>1. UNCHANGED <<at, todo, prev, cur>> /\ mon = "loop" /\ mon' \in {"scan", "saveLoop"}
        BY <3>11 DEF HandleCrashLoop
      <4>. QED  BY <2>0, <2>1, <3>11, <4>1, CountingStep
    <3>12. CASE Save
      <4>1. /\ UNCHANGED <<at, todo, prev, cur, alerts, crashLoop, told>> /\ out' = {}
            /\ mon \in SavePcs
            /\ mon' = IF mon = "saveDown" THEN "loop"
                      ELSE IF mon = "saveMem" THEN "checks" ELSE "scan"
        BY <3>1, <3>12 DEF Save, AfterSave, Counts
      <4>2. telling' => telling
        BY <2>1, <4>1 DEF RecordDeath
      <4>. QED  BY <2>0, <4>1, <4>2
    <3>13. CASE StartChecks
      <4>1. /\ mon = "scan" /\ mon' = "checks" /\ todo = {}
            /\ \A c \in Containers : c \notin todo'
            /\ UNCHANGED <<prev, cur, alerts, crashLoop, told>>
        BY <3>1, <3>13, KeysAssumption DEF StartChecks, Counts
      <4>. QED  BY <2>0, <2>1, <4>1, NotTelling
    <3>14. ASSUME NEW k \in ResourceKeys, GatedAlert(k) \/ UngatedAlert(k) PROVE ToldInv'
      <4>1. /\ \A c \in Containers : alerts'[c] = alerts[c] /\ (c \in todo' <=> c \in todo)
            /\ mon = "checks" /\ mon' \in {"checks", "saveMem"}
            /\ UNCHANGED <<prev, cur, crashLoop>>
        BY <3>14, ChecksLeaveContainers
      <4>2. UNCHANGED told
        BY <3>1, <4>1 DEF Counts
      <4>. QED  BY <2>0, <2>1, <4>1, <4>2, NotTelling
    <3>15. CASE TickEnds
      <4>1. /\ mon = "checks" /\ todo = {} /\ mon' = "idle" /\ prev' = cur
            /\ UNCHANGED <<alerts, crashLoop, told>>
        BY <3>1, <3>15 DEF TickEnds, Counts
      <4>. QED  BY <2>0, <2>1, <4>1, NotTelling
    <3>16. CASE MonitorPanics \/ ProcessStops
      <4>1. mon' = "off" /\ crashLoop' = NoLoops
        BY <3>16 DEF MonitorPanics, ProcessStops, LoseMonitor, ClearMemory
      <4>. QED  BY <2>0, <2>1, <4>1, NotTelling DEF NoLoops
    <3>17. CASE UNCHANGED <<mon, at, todo, prev, cur, alerts, crashLoop>> /\ out' = {}
      <4>1. UNCHANGED told \/ mon = "off"
        BY <3>1, <3>17 DEF Counts
      <4>2. telling' => telling
        BY <2>1, <3>17 DEF RecordDeath
      <4>3. mon = "off" => told' = NoLoops
        BY <2>1, <3>17 DEF RecordDeath
      <4>. QED  BY <2>0, <3>17, <4>1, <4>2, <4>3 DEF NoLoops
    <3>18. CASE TickFails \/ ProcessBoots \/ ResetRemovesFile \/ ResetSignals
      BY <3>17, <3>18 DEF TickFails, ProcessBoots, ResetRemovesFile, ResetSignals
    <3>19. ASSUME NEW k \in Snoozable, NEW d \in SnoozeDurations, PressSnooze(k, d)
           PROVE  ToldInv'
      BY <3>17, <3>19 DEF PressSnooze
    <3>20. ASSUME NEW c \in Containers, NEW to \in DockerStates, ContainerChanges(c, to)
           PROVE  ToldInv'
      BY <3>17, <3>20 DEF ContainerChanges
    <3>. QED
      BY <2>1, <3>2, <3>3, <3>5, <3>6, <3>7, <3>8, <3>9, <3>10, <3>11, <3>12,
         <3>13, <3>14, <3>15, <3>16, <3>18, <3>19, <3>20
      DEF Step, WithinTick, Scan, UpdateLoop
  <2>2. CASE Clock /\ AgeDeaths
    <3>1. UNCHANGED <<mon, at, todo, prev, cur, alerts, telling>>
      BY <2>2 DEF Clock, AgeDeaths
    <3>2. ASSUME NEW c \in Containers, crashLoop'[c] \cap told'[c] # {}
          PROVE  crashLoop[c] \cap told[c] # {}
      <4>1. /\ crashLoop[c] \in SUBSET (0 .. LoopWindow - 1)
            /\ told[c] \in SUBSET (0 .. LoopWindow - 1)
        BY <2>0
      <4>2. /\ crashLoop'[c] = {a + 1 : a \in {b \in crashLoop[c] : b + 1 < LoopWindow}}
            /\ told'[c] = {a + 1 : a \in {b \in told[c] : b + 1 < LoopWindow}}
        BY <2>2 DEF Clock, AgeDeaths
      <4>. QED  BY <3>2, <4>1, <4>2, OlderSets
    <3>. QED  BY <2>0, <3>1, <3>2
  <2>3. CASE UNCHANGED deathVars
    BY <2>3 DEF deathVars, vars
  <2>. QED  BY <2>1, <2>2, <2>3 DEF NextD
<1>3. ToldInv => ToldDeathsAreForgotten
  BY DEF ToldInv, ToldDeathsAreForgotten, NotSeenUp
<1>. QED  BY <1>1, <1>2, <1>3, DeathsAreMonitors, TypeInvariance, PTL DEF SpecD

----------------------------------------------------------------------------
(***************************************************************************)
(* The cooldown, in the specification with history variables.              *)
(***************************************************************************)
Gated == {k \in ResourceKeys : KindOf[k] \in {"disk", "mem", "log"}}

\* The last report of k is on record in memory, or in state.json.
OnRecord(status) == status # ""
Remembered(k) == OnRecord(alerts[k]) /\ sentAge[k] = shipped[k]
Filed(k)      == OnRecord(file.alerts[k]) /\ file.sentAge[k] = shipped[k]

\* What a restart would not forget.
Kept(k) == \/ mon = "off"
           \/ KindOf[k] = "mem" /\ ~unsaved /\ ~(mon \in SavePcs /\ at = k)

\* As long as the monitor runs, memory has every report that a restart has not
\* forgotten; state.json has those that a restart would not forget.
ReportsInv == \A k \in Gated \ forgotten :
                /\ mon # "off" => shipped[k] = Never \/ Remembered(k)
                /\ Kept(k) => shipped[k] = Never \/ Filed(k)

HistoryInv == ReportsInv /\ shipped \in [Keys -> Ages \cup {Never}]

LEMMA HistoryIsMonitor == SpecH => Spec
<1>1. InitH => Init
  BY DEF InitH
<1>2. [NextH]_histVars => [Next]_vars
  BY DEF NextH, Next, histVars
<1>. QED  BY <1>1, <1>2, PTL DEF SpecH, Spec

LEMMA GatedKeys == \A k \in Gated : k \in Keys /\ k \in ResourceKeys /\ k \notin Containers
  BY KeysAssumption DEF Gated, Keys

\* A step that reports no resource and leaves the trackers of the resources and
\* the file alone keeps the reports, if it stays in or out of a run of the
\* monitor and does not end a save.
LEMMA QuietStep ==
  ASSUME TypeInv, HistoryInv, Record,
         \A k \in Gated : /\ k \notin ReportedNow
                          /\ alerts'[k] = alerts[k] /\ sentAge'[k] = sentAge[k],
         mon = "off" <=> mon' = "off",
         mon \in SavePcs => mon' \in {mon, "off"} /\ at' = at,
         UNCHANGED file
  PROVE  ReportsInv'
<1>1. \A k \in Gated : shipped'[k] \in {shipped[k], Never} /\ (k \in forgotten => k \in forgotten')
  BY GatedKeys DEF Record
<1>2. UNCHANGED unsaved
  BY DEF Record
<1>3. ASSUME NEW k \in Gated, k \notin forgotten', Kept(k)' PROVE Kept(k)
  BY <1>2, <1>3 DEF Kept
<1>. QED
  BY <1>1, <1>3 DEF HistoryInv, ReportsInv, Remembered, Filed

LEMMA ShippedType == ASSUME HistoryInv, [NextH]_histVars PROVE shipped' \in [Keys -> Ages \cup {Never}]
<1>1. CASE Record
  <2>1. 0 \in Ages
    BY TimeAssumption DEF Ages
  <2>. QED  BY <1>1, <2>1 DEF Record, HistoryInv
<1>2. CASE Age
  BY <1>2, OlderType DEF Age, HistoryInv
<1>3. CASE UNCHANGED histVars
  BY <1>3 DEF histVars, HistoryInv
<1>. QED  BY <1>1, <1>2, <1>3 DEF NextH

LEMMA NoPage == out' = {} => \A k \in Keys : k \notin ReportedNow
BY DEF ReportedNow

LEMMA ContainerPage ==
  ASSUME NEW c \in Containers, NEW page \in Pages, out' \in {{}, {<<c, page>>}}
  PROVE  \A k \in Gated : k \notin ReportedNow
<1>1. ASSUME NEW k \in Gated, NEW p, <<k, p>> \in out' PROVE FALSE
  BY <1>1, GatedKeys
<1>. QED  BY <1>1 DEF ReportedNow

\* After a reset no report counts any more.
LEMMA ResetForgives ==
  ASSUME Record, ResetStep, \A k \in Gated : k \notin ReportedNow
  PROVE  ReportsInv'
<1>1. \A k \in Gated : shipped'[k] = Never
  BY GatedKeys DEF Record
<1>. QED  BY <1>1 DEF ReportsInv

\* The steps that QuietStep speaks of.
LEMMA QuietSteps ==
  ASSUME TypeInv, HistoryInv, Record,
         \/ TickFails \/ TickStarts \/ \E c \in Containers : Scan(c)
         \/ AutopilotRestart \/ HandleCrashLoop \/ StartChecks
         \/ \E k \in ResourceKeys : UngatedAlert(k)
         \/ TickEnds \/ ProcessBoots \/ ResetSignals
         \/ \E k \in Snoozable, d \in SnoozeDurations : PressSnooze(k, d)
         \/ \E c \in Containers, to \in DockerStates : ContainerChanges(c, to)
  PROVE  ReportsInv'
<1>. USE DEF memory, loop
<1>1. CASE UNCHANGED <<alerts, sentAge, file, mon, at>> /\ out' = {}
  BY <1>1, QuietStep, NoPage, GatedKeys
<1>2. CASE /\ UNCHANGED <<alerts, sentAge, file>> /\ out' = {}
           /\ mon \notin SavePcs /\ mon # "off" /\ mon' # "off"
  BY <1>2, QuietStep, NoPage, GatedKeys
<1>3. ASSUME NEW k \in ResourceKeys, UngatedAlert(k) PROVE ReportsInv'
  <2>1. KindOf[k] \notin {"disk", "mem", "log"} /\ out' \in {{}, {<<k, KindOf[k]>>}}
    BY <1>3 DEF UngatedAlert
  <2>2. \A j \in Gated : j \notin ReportedNow
    <3>1. ASSUME NEW j \in Gated, NEW p, <<j, p>> \in out' PROVE FALSE
      BY <2>1, <3>1 DEF Gated
    <3>. QED  BY <3>1 DEF ReportedNow
  <2>3. /\ UNCHANGED <<alerts, sentAge, file, mon>> /\ mon \notin SavePcs
    BY <1>3 DEF UngatedAlert, VisitCheck, SavePcs
  <2>. QED  BY <2>2, <2>3, QuietStep
<1>4. ASSUME NEW c \in Containers, NEW page \in Pages, NEW status,
             \/ PageAs(c, page, status)
             \/ /\ alerts' = [alerts EXCEPT ![c] = status]
                /\ out' = {} /\ UNCHANGED sentAge,
             UNCHANGED file, mon \notin SavePcs, mon # "off", mon' # "off"
      PROVE  ReportsInv'
  <2>1. alerts \in [Keys -> Statuses] /\ sentAge \in [Keys -> Ages \cup {Never}]
    BY DEF TypeInv, TypeOK
  <2>2. \A k \in Gated : alerts'[k] = alerts[k] /\ sentAge'[k] = sentAge[k]
    BY <1>4, <2>1, GatedKeys DEF PageAs
  <2>3. out' \in {{}, {<<c, page>>}}
    BY <1>4 DEF PageAs
  <2>. QED  BY <1>4, <2>2, <2>3, ContainerPage, QuietStep
<1>5. CASE TickFails \/ ProcessBoots \/ ResetSignals
  BY <1>1, <1>5 DEF TickFails, ProcessBoots, ResetSignals
<1>6. CASE \/ \E k \in Snoozable, d \in SnoozeDurations : PressSnooze(k, d)
           \/ \E c \in Containers, to \in DockerStates : ContainerChanges(c, to)
  BY <1>1, <1>6 DEF PressSnooze, ContainerChanges
<1>7. CASE TickStarts \/ StartChecks \/ TickEnds
  BY <1>2, <1>7 DEF TickStarts, StartChecks, TickEnds, SavePcs
<1>8. ASSUME NEW c \in Containers, Scan(c) PROVE ReportsInv'
  <2>1. CASE NothingToDo(c)
    BY <1>1, <2>1 DEF NothingToDo
  <2>2. CASE AutopilotDiagnose(c) \/ DownSuppressed(c)
    BY <1>2, <2>2 DEF AutopilotDiagnose, DownSuppressed, Visit, SavePcs
  <2>3. CASE Recover(c)
    <3>1. /\ mon \notin SavePcs /\ mon # "off" /\ mon' # "off" /\ UNCHANGED <<file, sentAge>>
          /\ out' = {} /\ "down" \in Pages
      BY <2>3 DEF Recover, Visit, SavePcs, Pages
    <3>2. \E status : alerts' = [alerts EXCEPT ![c] = status]
      BY <2>3, Zenon DEF Recover
    <3>. QED  BY <1>4, <3>1, <3>2
  <2>4. CASE DownAlert(c)
    <3>1. /\ mon \notin SavePcs /\ mon # "off" /\ mon' # "off" /\ UNCHANGED file
          /\ \E page \in Pages : PageAs(c, page, "alert_sent")
      BY <2>4 DEF DownAlert, Visit, SavePcs, Pages
    <3>. QED  BY <1>4, <3>1
  <2>. QED  BY <1>8, <2>1, <2>2, <2>3, <2>4 DEF Scan
<1>9. CASE AutopilotRestart
  <2>1. /\ at \in Containers /\ "autopilot" \in Pages
    BY <1>9 DEF AutopilotRestart, TypeInv, HandlerHasContainer, Pages
  <2>. QED  BY <1>4, <1>9, <2>1 DEF AutopilotRestart, SavePcs
<1>10. CASE HandleCrashLoop
  <2>1. /\ at \in Containers /\ "crashloop" \in Pages
    BY <1>10 DEF HandleCrashLoop, TypeInv, HandlerHasContainer, Pages
  <2>2. /\ UNCHANGED file /\ mon \notin SavePcs /\ mon # "off" /\ mon' # "off"
        /\ \/ PageAs(at, "crashloop", "crashloop")
           \/ out' = {} /\ UNCHANGED <<alerts, sentAge>>
    BY <1>10 DEF HandleCrashLoop, SavePcs
  <2>. QED  BY <1>2, <1>4, <2>1, <2>2
<1>. QED  BY <1>3, <1>5, <1>6, <1>7, <1>8, <1>9, <1>10


\* Resets forgive, whether they reach the file or the memory.
LEMMA ResetSteps ==
  ASSUME HistoryInv, Record, ConsumeReset \/ ResetRemovesFile
  PROVE  ReportsInv'
<1>1. out' = {} /\ ResetStep
  BY DEF ConsumeReset, ResetRemovesFile, ResetStep
<1>. QED  BY <1>1, NoPage, GatedKeys, ResetForgives

\* A monitor that starts has what the file has.
LEMMA StartStep ==
  ASSUME HistoryInv, Record, MonitorStart
  PROVE  ReportsInv'
<1>1. /\ mon = "off" /\ out' = {} /\ UNCHANGED <<file, resetCh, updater>>
      /\ alerts' = file.alerts /\ sentAge' = file.sentAge
  BY DEF MonitorStart
<1>2. \A k \in Gated : k \notin ReportedNow
  BY <1>1, NoPage, GatedKeys
<1>3. forgotten' = forgotten \ ReportedNow
  BY <1>1 DEF Record, MonitorLost
<1>4. \A k \in Gated : shipped'[k] \in {shipped[k], Never} /\ (k \in forgotten => k \in forgotten')
  BY <1>2, <1>3, GatedKeys DEF Record
<1>5. \A k \in Gated : k \notin forgotten' => shipped[k] = Never \/ Filed(k)
  BY <1>1, <1>4 DEF HistoryInv, ReportsInv, Kept
<1>. QED  BY <1>1, <1>4, <1>5 DEF ReportsInv, Remembered, Filed

\* A monitor that is lost forgets what is not in the file.
LEMMA LossStep ==
  ASSUME HistoryInv, Record, MonitorPanics \/ ProcessStops
  PROVE  ReportsInv'
<1>1. mon' = "off" /\ out' = {} /\ UNCHANGED file
  BY DEF MonitorPanics, ProcessStops, LoseMonitor
<1>2. \A k \in Gated : k \notin ReportedNow
  BY <1>1, NoPage, GatedKeys
<1>3. \A k \in Gated : shipped'[k] \in {shipped[k], Never} /\ (k \in forgotten => k \in forgotten')
  BY <1>2, GatedKeys DEF Record
<1>4. ASSUME NEW k \in Gated, k \notin forgotten' PROVE Kept(k)
  <2>1. CASE mon = "off"
    BY <2>1 DEF Kept
  <2>2. CASE mon # "off"
    <3>1. k \notin Unsaved
      BY <1>1, <1>2, <1>4, <2>2 DEF Record, MonitorLost
    <3>. QED  BY <3>1 DEF Unsaved, Gated, Kept
  <2>. QED  BY <2>1, <2>2
<1>. QED  BY <1>1, <1>3, <1>4 DEF HistoryInv, ReportsInv, Filed

\* A save that succeeds puts on file what memory has.
LEMMA SaveStep ==
  ASSUME TypeInv, HistoryInv, Record, Save
  PROVE  ReportsInv'
<1>1. /\ mon \in SavePcs /\ mon' \notin SavePcs /\ mon' # "off" /\ mon # "off"
      /\ out' = {} /\ UNCHANGED <<alerts, sentAge>>
  BY DEF Save, SavePcs, AfterSave, memory
<1>2. \A k \in Gated : k \notin ReportedNow
  BY <1>1, NoPage, GatedKeys
<1>3. \A k \in Gated : shipped'[k] \in {shipped[k], Never} /\ (k \in forgotten => k \in forgotten')
  BY <1>2, GatedKeys DEF Record
<1>4. ~unsaved' => file'.alerts = alerts /\ file'.sentAge = sentAge
  <2>1. unsaved' = (file' # [restarts |-> restarts, alerts |-> alerts, sentAge |-> sentAge])
    BY <1>1 DEF Record
  <2>2. ~unsaved' => file' = [restarts |-> restarts, alerts |-> alerts, sentAge |-> sentAge]
    BY <2>1, Zenon
  <2>. QED  BY <2>2
<1>5. \A k \in Gated : k \notin forgotten' => shipped[k] = Never \/ Remembered(k)
  BY <1>1, <1>3 DEF HistoryInv, ReportsInv
<1>. QED  BY <1>1, <1>3, <1>4, <1>5 DEF ReportsInv, Remembered, Filed, Kept

\* A gated check reports k, or does nothing.
LEMMA GatedStep ==
  ASSUME TypeInv, HistoryInv, Record, NEW k \in ResourceKeys, GatedAlert(k)
  PROVE  ReportsInv'
<1>1. /\ mon = "checks" /\ at' = k /\ k \in Gated
      /\ UNCHANGED file
  BY DEF GatedAlert, VisitCheck, Gated
<1>2. alerts \in [Keys -> Statuses] /\ sentAge \in [Keys -> Ages \cup {Never}]
  BY DEF TypeInv, TypeOK
<1>3. CASE ShouldAlert(k)
  <2>1. /\ PageAs(k, KindOf[k], StatusOf[KindOf[k]])
        /\ mon' = IF KindOf[k] = "mem" THEN "saveMem" ELSE "checks"
    BY <1>3 DEF GatedAlert
  <2>2. /\ out' = {<<k, KindOf[k]>>} /\ alerts'[k] = StatusOf[KindOf[k]] /\ sentAge'[k] = 0
        /\ \A j \in Gated : j # k => alerts'[j] = alerts[j] /\ sentAge'[j] = sentAge[j]
    BY <1>1, <1>2, <2>1, GatedKeys DEF PageAs
  <2>3. ReportedNow = {k}
    BY <1>1, <2>2, GatedKeys, KindTypes DEF ReportedNow
  <2>4. /\ shipped'[k] = 0 /\ k \notin forgotten'
        /\ \A j \in Gated : j # k => /\ shipped'[j] \in {shipped[j], Never}
                                     /\ j \in forgotten => j \in forgotten'
        /\ UNCHANGED unsaved
    BY <1>1, <2>3, GatedKeys DEF Record, SavePcs
  <2>5. OnRecord(alerts'[k])
    <3>1. StatusOf[KindOf[k]] \in {"high", "mem_pressure", "log_alert"}
      BY KeysAssumption DEF StatusOf
    <3>. QED  BY <2>2, <3>1, Zenon DEF OnRecord
  <2>6. Remembered(k)' /\ ~Kept(k)'
    BY <1>1, <2>1, <2>2, <2>4, <2>5 DEF Remembered, Kept, SavePcs
  <2>7. ASSUME NEW j \in Gated, j # k, j \notin forgotten'
        PROVE  /\ shipped'[j] = Never \/ Remembered(j)'
               /\ Kept(j)' => shipped'[j] = Never \/ Filed(j)'
    <3>1. Kept(j)' => Kept(j)
      BY <1>1, <2>1, <2>4 DEF Kept, SavePcs
    <3>2. mon # "off"
      BY <1>1
    <3>. QED  BY <1>1, <2>2, <2>4, <2>7, <3>1, <3>2 DEF HistoryInv, ReportsInv, Remembered, Filed
  <2>. QED  BY <2>6, <2>7 DEF ReportsInv
<1>4. CASE ~ShouldAlert(k)
  <2>1. UNCHANGED <<alerts, sentAge, mon>> /\ out' = {}
    BY <1>4 DEF GatedAlert
  <2>. QED  BY <1>1, <2>1, NoPage, GatedKeys, QuietStep DEF SavePcs
<1>. QED  BY <1>3, <1>4

\* A minute makes a report as much older in memory and on file as it is.
LEMMA MinuteStep ==
  ASSUME TypeInv, HistoryInv, Clock, Age
  PROVE  ReportsInv'
<1>1. /\ \A k \in Keys : /\ shipped'[k] = Older(shipped[k])
                         /\ sentAge'[k] = Older(sentAge[k])
                         /\ file'.sentAge[k] = Older(file.sentAge[k])
      /\ file'.alerts = file.alerts
      /\ UNCHANGED <<alerts, mon, at, forgotten, unsaved>>
  <2>1. file \in SavedStates
    BY DEF TypeInv, TypeOK
  <2>. QED  BY <2>1 DEF Clock, Age, OlderMap, loop, SavedStates
<1>2. Older(Never) = Never
  BY DEF Older
<1>. QED  BY <1>1, <1>2, GatedKeys DEF HistoryInv, ReportsInv, Remembered, Filed, Kept

LEMMA ReportsInvariance == ASSUME TypeInv, HistoryInv, [NextH]_histVars PROVE ReportsInv'
<1>1. CASE UNCHANGED histVars
  BY <1>1 DEF histVars, vars, loop, memory, HistoryInv, ReportsInv, Remembered, Filed, Kept
<1>2. CASE Clock /\ Age
  BY <1>2, MinuteStep
<1>3. CASE Step /\ Record
  <2>1. CASE WithinTick
    <3>1. ASSUME NEW k \in ResourceKeys, GatedAlert(k) PROVE ReportsInv'
      BY <1>3, <3>1, GatedStep
    <3>. QED  BY <1>3, <2>1, <3>1, SaveStep, QuietSteps DEF WithinTick
  <2>2. CASE UpdateLoop
    BY <1>3, <2>2, ResetSteps, QuietSteps DEF UpdateLoop
  <2>. QED
    BY <1>3, <2>1, <2>2, StartStep, ResetSteps, LossStep, QuietSteps DEF Step
<1>. QED  BY <1>1, <1>2, <1>3 DEF NextH

LEMMA HistoryInvariance == SpecH => [](TypeInv /\ HistoryInv)
<1>1. InitH => HistoryInv
  <2>. SUFFICES ASSUME InitH PROVE HistoryInv
    OBVIOUS
  <2>1. shipped = NeverSent
    BY DEF InitH
  <2>. QED  BY <2>1, EmptyTypes, GatedKeys DEF NeverSent, HistoryInv, ReportsInv
<1>2. TypeInv /\ HistoryInv /\ [NextH]_histVars => HistoryInv'
  BY ReportsInvariance, ShippedType DEF HistoryInv
<1>. QED  BY <1>1, <1>2, HistoryIsMonitor, TypeInvariance, PTL DEF SpecH

\* What ShouldAlert lets through is not on record, or has no time, or an old one.
LEMMA AlertIsDue ==
  ASSUME NEW k, ShouldAlert(k), OnRecord(alerts[k]), sentAge[k] = shipped[k]
  PROVE  Cooled(k)
<1>1. sentAge[k] = Never \/ sentAge[k] > Cooldown
  BY Zenon DEF ShouldAlert, OnRecord
<1>. QED  BY <1>1 DEF Cooled

\* Only a gated check that shouldAlert lets through reports a gated resource.
LEMMA OnlyGatedRepeat ==
  ASSUME TypeInv, HistoryInv, [NextH]_histVars, NEW k \in Gated, Repeats(k)
  PROVE  UNCHANGED histVars \/ (mon = "checks" /\ ShouldAlert(k))
<1>. SUFFICES ASSUME NextH PROVE mon = "checks" /\ ShouldAlert(k)
  OBVIOUS
<1>1. <<k, KindOf[k]>> \in out'
  BY DEF Repeats
<1>2. k \in ResourceKeys /\ k \notin Containers /\ KindOf[k] \in {"disk", "mem", "log"}
  BY GatedKeys DEF Gated
<1>3. ASSUME NEW c \in Containers, NEW page, out' = {<<c, page>>} PROVE FALSE
  BY <1>1, <1>2, <1>3
<1>4. CASE WithinTick
  <2>1. ASSUME NEW c \in Containers, Scan(c) PROVE FALSE
    <3>1. out' = {} \/ \E page : out' = {<<c, page>>}
      BY <2>1 DEF Scan, AutopilotDiagnose, DownAlert, DownSuppressed, Recover, NothingToDo, PageAs
    <3>. QED  BY <1>1, <1>3, <3>1
  <2>2. CASE AutopilotRestart \/ HandleCrashLoop
    <3>1. at \in Containers /\ (out' = {} \/ \E page : out' = {<<at, page>>})
      BY <2>2 DEF AutopilotRestart, HandleCrashLoop, PageAs, TypeInv, HandlerHasContainer
    <3>. QED  BY <1>1, <1>3, <3>1
  <2>3. ASSUME NEW j \in ResourceKeys, GatedAlert(j) PROVE mon = "checks" /\ ShouldAlert(k)
    <3>1. mon = "checks" /\ (out' = {} \/ (ShouldAlert(j) /\ out' = {<<j, KindOf[j]>>}))
      BY <2>3 DEF GatedAlert, VisitCheck, PageAs
    <3>2. j = k
      BY <1>1, <3>1
    <3>. QED  BY <1>1, <3>1, <3>2
  <2>4. ASSUME NEW j \in ResourceKeys, UngatedAlert(j) PROVE FALSE
    <3>1. KindOf[j] \notin {"disk", "mem", "log"} /\ out' \in {{}, {<<j, KindOf[j]>>}}
      BY <2>4 DEF UngatedAlert
    <3>. QED  BY <1>1, <1>2, <3>1
  <2>. QED
    BY <1>1, <1>4, <2>1, <2>2, <2>3, <2>4 DEF WithinTick, Save, StartChecks, TickEnds
<1>5. CASE ~WithinTick
  BY <1>1, <1>5 DEF NextH, Step, MonitorStart, ConsumeReset, TickFails, TickStarts, MonitorPanics,
     ProcessStops, ProcessBoots, LoseMonitor, UpdateLoop, PressSnooze, ResetRemovesFile,
     ResetSignals, ContainerChanges, Clock
<1>. QED  BY <1>4, <1>5

\* For any containers, resources and cooldown: a disk, memory or log alert that
\* the monitor can still know of is not repeated within the cooldown, whatever
\* ticks, resets, failed saves, panics and restarts come in between.
THEOREM CooldownIsKept == SpecH => CooldownHolds
<1>1. TypeInv /\ HistoryInv /\ [NextH]_histVars =>
        [\A k \in ResourceKeys :
           KindOf[k] \in {"disk", "mem", "log"} /\ Repeats(k)
             => Cooled(k) \/ k \in forgotten]_histVars
  <2>. SUFFICES ASSUME TypeInv, HistoryInv, [NextH]_histVars, ~UNCHANGED histVars,
                       NEW k \in Gated, Repeats(k), k \notin forgotten
                PROVE  Cooled(k)
    BY DEF Gated
  <2>1. mon = "checks" /\ ShouldAlert(k)
    BY OnlyGatedRepeat
  <2>2. shipped[k] = Never \/ Remembered(k)
    BY <2>1 DEF HistoryInv, ReportsInv
  <2>. QED  BY <2>1, <2>2, AlertIsDue DEF Remembered, Cooled
<1>. QED  BY <1>1, HistoryInvariance, PTL DEF SpecH, CooldownHolds
=============================================================================
