------------------------------- MODULE Vitals -------------------------------
(***************************************************************************)
(* What the bot knows of the load: the rolling window of host metrics      *)
(* (pkg/monitor/monitor.go) and the statistics of the containers           *)
(* (pkg/monitor/container_stats.go).  A point is pushed whenever somebody  *)
(* asks for the system's health, by the update loop; the statistics are    *)
(* collected by the monitor at the start of every tick, one goroutine per  *)
(* running container.  The tick's memory and CPU checks and the update     *)
(* loop's displays read them; what the checks alert of is in Monitor.      *)
(*                                                                         *)
(* Of a container's sample only its age is kept: the rounds that have      *)
(* begun to store samples since it was stored, up to 2.                    *)
(***************************************************************************)
EXTENDS Integers, FiniteSets, SequencesExt

CONSTANTS
  Containers,
  Loads,         \* what the host's CPU load may be, in percent
  Threshold,     \* cfg.CPUThreshold
  Duration,      \* cfg.CPUDurationMin
  MaxSize,       \* GlobalMetricStore.MaxSize
  MaxQuestions   \* bound: how many points are pushed

ASSUME LoadAssumption == /\ Loads \subseteq 0 .. 100
                         /\ Threshold \in 1 .. 100
                         /\ Duration \in Nat \ {0} /\ MaxSize \in Nat \ {0}
                         /\ MaxQuestions \in Nat

VARIABLES
  running,     \* what Docker runs
  points,      \* the window of host loads
  stats,       \* globalContainerStats: the age of every entry, or None
  mon,         \* where the monitor is in its tick
  fetch,       \* the goroutine of every container: its result, once it is there
  reader,      \* the update loop: "away", "wants" the read lock, "holds" it
  loads,       \* history: every load pushed since the bot started
  unreached    \* history: whom the last round did not list or got no sample of

vars == <<running, points, stats, mon, fetch, reader, loads, unreached>>

None    == -1
Results == {"sample", "failed"}

Init == /\ running \in SUBSET Containers
        /\ points = <<>> /\ loads = <<>>
        /\ stats = [c \in Containers |-> None]
        /\ mon = "idle"
        /\ fetch = [c \in Containers |-> "none"]
        /\ reader = "away"
        /\ unreached = Containers

----------------------------------------------------------------------------
(* The metric store. *)

\* Mutant: a full window drops what was just pushed.
PushedFirst(seq, load) ==
  LET all == Append(seq, load) IN IF Len(all) > MaxSize THEN Front(all) ELSE all

Pushed(seq, load) ==
  LET all == Append(seq, load) IN IF Len(all) > MaxSize THEN Tail(all) ELSE all

RecentLoads(seq) == SubSeq(seq, Len(seq) - Duration + 1, Len(seq))

CheckSustainedLoad(seq) ==
  /\ Len(seq) >= Duration
  /\ FoldSeq(+, 0, RecentLoads(seq)) > Threshold * Duration

\* Every /status, and every question the AI is asked or answers offline.
GetSystemHealth(load) ==
  /\ reader = "away"
  /\ Len(loads) < MaxQuestions
  /\ points' = Pushed(points, load)
  /\ loads'  = Append(loads, load)
  /\ UNCHANGED <<running, stats, mon, fetch, reader, unreached>>

----------------------------------------------------------------------------
(* CollectContainerStats: list, fetch in parallel, and gather the results   *)
(* behind the write lock.                                                   *)

CollectLists ==
  /\ mon = "idle"
  /\ mon' = "lock"
  /\ fetch' = [c \in Containers |-> IF c \in running THEN "pending" ELSE "none"]
  /\ unreached' = Containers \ running
  /\ UNCHANGED <<running, points, stats, reader, loads>>

\* Docker does not answer; the tick goes on without new statistics.
CollectFails ==
  /\ mon = "idle"
  /\ mon' = "memory"
  /\ unreached' = Containers
  /\ UNCHANGED <<running, points, stats, fetch, reader, loads>>

\* Mutant: without a deadline, the request to a container that has stopped since
\* does not end.
FetchOneStatUnbounded(c) ==
  /\ fetch[c] = "pending" /\ c \in running
  /\ \E r \in Results : fetch' = [fetch EXCEPT ![c] = r]
  /\ UNCHANGED <<running, points, stats, mon, reader, loads, unreached>>

\* A container that has stopped since may give a sample or an error.
FetchOneStat(c) ==
  /\ fetch[c] = "pending"
  /\ \E r \in Results : fetch' = [fetch EXCEPT ![c] = r]
  /\ UNCHANGED <<running, points, stats, mon, reader, loads, unreached>>

CollectLocks ==
  /\ mon = "lock" /\ reader # "holds"
  /\ mon' = "gather"
  /\ stats' = [c \in Containers |-> IF stats[c] \in 0 .. 1 THEN stats[c] + 1
                                                         ELSE stats[c]]
  /\ UNCHANGED <<running, points, fetch, reader, loads, unreached>>

\* Mutant: the first error ends the round.
GatherStops(c) ==
  /\ mon = "gather" /\ fetch[c] \in Results
  /\ IF fetch[c] = "failed"
     THEN /\ fetch' = [d \in Containers |-> "none"]
          /\ unreached' = unreached \cup {c}
          /\ UNCHANGED stats
     ELSE /\ fetch' = [fetch EXCEPT ![c] = "none"]
          /\ stats' = [stats EXCEPT ![c] = 0]
          /\ UNCHANGED unreached
  /\ UNCHANGED <<running, points, mon, reader, loads>>

Gather(c) ==
  /\ mon = "gather" /\ fetch[c] \in Results
  /\ fetch' = [fetch EXCEPT ![c] = "none"]
  /\ IF fetch[c] = "failed"
     THEN unreached' = unreached \cup {c} /\ UNCHANGED stats
     ELSE /\ stats' = [stats EXCEPT ![c] = 0]
          /\ UNCHANGED unreached
  /\ UNCHANGED <<running, points, mon, reader, loads>>

CollectUnlocks ==
  /\ mon = "gather" /\ \A c \in Containers : fetch[c] = "none"
  /\ mon' = "memory"
  /\ UNCHANGED <<running, points, stats, fetch, reader, loads, unreached>>

----------------------------------------------------------------------------
(* The checks of the tick: the first reads the table, the second asks for   *)
(* the verdict on the window.                                               *)

AlertMemPressure ==
  /\ mon = "memory"
  /\ mon' = "cpu"
  /\ UNCHANGED <<running, points, stats, fetch, reader, loads, unreached>>

AlertSustainedCPU ==
  /\ mon = "cpu"
  /\ mon' = "idle"
  /\ UNCHANGED <<running, points, stats, fetch, reader, loads, unreached>>

----------------------------------------------------------------------------
(* GetContainerStatSnapshot, called by the update loop to show the table.   *)

ReaderStays == UNCHANGED <<running, points, stats, mon, fetch, loads, unreached>>

ReaderComes  == reader = "away" /\ reader' = "wants" /\ ReaderStays

ReaderLocks  == reader = "wants" /\ mon # "gather" /\ reader' = "holds" /\ ReaderStays

ReaderLeaves == reader = "holds" /\ reader' = "away" /\ ReaderStays

DockerChanges(c) ==
  /\ running' = IF c \in running THEN running \ {c} ELSE running \cup {c}
  /\ UNCHANGED <<points, stats, mon, fetch, reader, loads, unreached>>

----------------------------------------------------------------------------
Gathering == CollectUnlocks \/ \E c \in Containers : Gather(c)
Checks    == AlertMemPressure \/ AlertSustainedCPU
Tick      == CollectLists \/ CollectFails
Reads     == ReaderLocks \/ ReaderLeaves

Next == \/ Tick \/ CollectLocks \/ Gathering \/ Checks
        \/ ReaderComes \/ Reads
        \/ \E c \in Containers : FetchOneStat(c) \/ DockerChanges(c)
        \/ \E load \in Loads : GetSystemHealth(load)

Spec == Init /\ [][Next]_vars

\* Goroutines keep running; a fetch ends because its context has a deadline of
\* five seconds; a RWMutex starves neither its writer nor its readers.
FairSpec == /\ Spec
            /\ WF_vars(Gathering) /\ WF_vars(ReaderLeaves) /\ WF_vars(Checks)
            /\ SF_vars(CollectLocks) /\ SF_vars(ReaderLocks)
            /\ \A c \in Containers : WF_vars(FetchOneStat(c))

----------------------------------------------------------------------------
\* Every variable holds a value of its type, and the window its size.
TypeOK == /\ running \subseteq Containers
          /\ points \in Seq(Loads) /\ Len(points) <= MaxSize
          /\ loads \in Seq(Loads)
          /\ stats \in [Containers -> {None} \cup 0 .. 2]
          /\ mon \in {"idle", "lock", "gather", "memory", "cpu"}
          /\ fetch \in [Containers -> Results \cup {"none", "pending"}]
          /\ reader \in {"away", "wants", "holds"}
          /\ unreached \subseteq Containers

\* monitor.go:72, "the average CPU over the last N points": the window's verdict
\* is that of all the points since the start, however much was pruned, and no
\* alert comes at all when the window is shorter than the duration.
VerdictIsOfAllPoints ==
  CheckSustainedLoad(points) <=> (MaxSize >= Duration /\ CheckSustainedLoad(loads))

\* container_stats.go:142, "fetches stats for all running containers": when the
\* checks of a tick read the table, an entry that is not of this tick belongs to
\* a container that Docker did not list as running or that gave no sample.
StaleOnlyIfUnreached ==
  mon \in {"memory", "cpu"} =>
    \A c \in Containers : stats[c] # 0 => c \in unreached

\* The write lock is held while containers are asked; still whoever wants to
\* read gets to read, however many of the requests fail or take their time.
ReadersAreServed == reader = "wants" ~> reader = "holds"
=============================================================================
