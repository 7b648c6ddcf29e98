----------------------------- MODULE VitalsProofs -----------------------------
(* Proofs about Vitals for any containers, loads, window and duration. *)
EXTENDS Vitals, SequenceTheorems, TLAPS

LEMMA PushedFacts ==
  ASSUME NEW seq \in Seq(Loads), NEW load \in Loads, Len(seq) <= MaxSize
  PROVE  /\ Pushed(seq, load) \in Seq(Loads)
         /\ Len(Pushed(seq, load)) = IF Len(seq) < MaxSize THEN Len(seq) + 1 ELSE MaxSize
         /\ LET shift == IF Len(seq) < MaxSize THEN 0 ELSE 1
            IN  \A i \in 1 .. Len(Pushed(seq, load)) :
                  Pushed(seq, load)[i] = Append(seq, load)[i + shift]
<1> DEFINE more == Append(seq, load)
<1>1. /\ more \in Seq(Loads) /\ more # <<>> /\ Len(more) = Len(seq) + 1
      /\ Len(seq) \in Nat /\ MaxSize \in Nat
  BY AppendProperties, LoadAssumption
<1> HIDE DEF more
<1>2. CASE Len(seq) < MaxSize
  <2>1. Pushed(seq, load) = more
    BY <1>1, <1>2 DEF Pushed, more
  <2> QED
    BY <1>1, <1>2, <2>1 DEF more
<1>3. CASE ~(Len(seq) < MaxSize)
  <2>1. Pushed(seq, load) = Tail(more)
    BY <1>1, <1>3 DEF Pushed, more
  <2>2. /\ Tail(more) \in Seq(Loads) /\ Len(Tail(more)) = Len(more) - 1
        /\ \A i \in 1 .. Len(Tail(more)) : Tail(more)[i] = more[i + 1]
    BY <1>1, HeadTailProperties
  <2>3. Len(seq) = MaxSize
    BY <1>1, <1>3
  <2> QED
    BY <1>1, <1>3, <2>1, <2>2, <2>3 DEF more
<1> QED
  BY <1>2, <1>3

LEMMA VitalsInvariance == ASSUME TypeOK, [Next]_vars PROVE TypeOK'
<1>1. CASE Tick
  BY <1>1 DEF Tick, CollectLists, CollectFails, TypeOK
<1>2. CASE CollectLocks
  <2>1. stats' \in [Containers -> {None} \cup 0 .. 2]
    BY <1>2 DEF CollectLocks, TypeOK, None
  <2> QED
    BY <1>2, <2>1 DEF CollectLocks, TypeOK
<1>3. ASSUME NEW c \in Containers, Gather(c) PROVE TypeOK'
  <2>1. stats' \in [Containers -> {None} \cup 0 .. 2]
    BY <1>3 DEF Gather, TypeOK, None
  <2>2. unreached' \subseteq Containers /\ fetch' \in [Containers -> Results \cup {"none", "pending"}]
    BY <1>3 DEF Gather, TypeOK
  <2> QED
    BY <1>3, <2>1, <2>2 DEF Gather, TypeOK
<1>4. CASE CollectUnlocks \/ Checks \/ ReaderComes \/ Reads
  BY <1>4 DEF CollectUnlocks, Checks, AlertMemPressure, AlertSustainedCPU, ReaderComes,
              Reads, ReaderLocks, ReaderLeaves, ReaderStays, TypeOK
<1>5. ASSUME NEW c \in Containers, FetchOneStat(c) \/ DockerChanges(c) PROVE TypeOK'
  BY <1>5 DEF FetchOneStat, DockerChanges, TypeOK
<1>6. ASSUME NEW load \in Loads, GetSystemHealth(load) PROVE TypeOK'
  <2>1. points' \in Seq(Loads) /\ Len(points') <= MaxSize /\ loads' \in Seq(Loads)
    <3>1. points' = Pushed(points, load) /\ loads' = Append(loads, load)
      BY <1>6 DEF GetSystemHealth
    <3>2. points \in Seq(Loads) /\ Len(points) <= MaxSize /\ loads \in Seq(Loads)
      BY DEF TypeOK
    <3>3. Len(points') <= MaxSize /\ points' \in Seq(Loads)
      BY <3>1, <3>2, PushedFacts, LoadAssumption
    <3> QED
      BY <3>1, <3>2, <3>3
  <2> QED
    BY <1>6, <2>1 DEF GetSystemHealth, TypeOK
<1>7. CASE UNCHANGED vars
  BY <1>7 DEF vars, TypeOK
<1> QED
  BY <1>1, <1>2, <1>3, <1>4, <1>5, <1>6, <1>7 DEF Next, Gathering

LEMMA InitVitals == Init => TypeOK
<1> SUFFICES ASSUME Init PROVE TypeOK
  OBVIOUS
<1>1. <<>> \in Seq(Loads) /\ Len(<<>>) <= MaxSize
  BY LoadAssumption
<1> QED
  BY <1>1 DEF Init, TypeOK, None

\* Every variable keeps to its type, and the window of host loads to its size.
THEOREM VitalsTypeCorrect == Spec => []TypeOK
  BY VitalsInvariance, InitVitals, PTL DEF Spec

----------------------------------------------------------------------------
(* Statistics.  While a round is under way, a container whose entry is not of *)
(* it is still being asked, or has been given up.                             *)

Asked(c)   == fetch[c] # "none" \/ c \in unreached
Rounds     == /\ mon = "lock" => \A c \in Containers : Asked(c)
              /\ mon = "gather" => \A c \in Containers : stats[c] # 0 => Asked(c)
RoundsInv  == TypeOK /\ Rounds /\ StaleOnlyIfUnreached

LEMMA RoundsInvariance == ASSUME RoundsInv, [Next]_vars PROVE RoundsInv'
<1>0. /\ TypeOK /\ TypeOK' /\ Rounds /\ StaleOnlyIfUnreached
      /\ fetch \in [Containers -> Results \cup {"none", "pending"}]
      /\ stats \in [Containers -> {None} \cup 0 .. 2]
  BY VitalsInvariance DEF RoundsInv, TypeOK
<1> SUFFICES Rounds' /\ StaleOnlyIfUnreached'
  BY <1>0 DEF RoundsInv
<1>1. CASE CollectLists
  BY <1>1 DEF CollectLists, Rounds, StaleOnlyIfUnreached, Asked
<1>2. CASE CollectFails
  BY <1>2 DEF CollectFails, Rounds, StaleOnlyIfUnreached
<1>3. CASE CollectLocks
  BY <1>0, <1>3 DEF CollectLocks, Rounds, StaleOnlyIfUnreached, Asked
<1>4. ASSUME NEW c \in Containers, Gather(c) PROVE Rounds' /\ StaleOnlyIfUnreached'
  <2>1. /\ mon = "gather" /\ mon' = "gather"
        /\ fetch' = [fetch EXCEPT ![c] = "none"]
    BY <1>4 DEF Gather
  <2>2. ASSUME NEW d \in Containers, stats'[d] # 0 PROVE Asked(d)'
    <3>1. CASE fetch[c] = "failed"
      BY <1>0, <1>4, <2>1, <2>2, <3>1 DEF Gather, Rounds, Asked
    <3>2. CASE fetch[c] # "failed"
      BY <1>0, <1>4, <2>1, <2>2, <3>2 DEF Gather, Rounds, Asked
    <3> QED
      BY <3>1, <3>2
  <2> QED
    BY <2>1, <2>2 DEF Rounds, StaleOnlyIfUnreached
<1>5. CASE CollectUnlocks
  BY <1>0, <1>5 DEF CollectUnlocks, Rounds, StaleOnlyIfUnreached, Asked
<1>6. CASE Checks
  BY <1>0, <1>6 DEF Checks, AlertMemPressure, AlertSustainedCPU, Rounds, StaleOnlyIfUnreached
<1>7. ASSUME NEW c \in Containers, FetchOneStat(c) PROVE Rounds' /\ StaleOnlyIfUnreached'
  <2>1. \A d \in Containers : fetch'[d] = "none" <=> fetch[d] = "none"
    BY <1>0, <1>7 DEF FetchOneStat, Results
  <2> QED
    BY <1>0, <1>7, <2>1 DEF FetchOneStat, Rounds, StaleOnlyIfUnreached, Asked
<1>8. CASE UNCHANGED <<mon, stats, fetch, unreached>>
  BY <1>0, <1>8 DEF Rounds, StaleOnlyIfUnreached, Asked
<1> QED
  BY <1>1, <1>2, <1>3, <1>4, <1>5, <1>6, <1>7, <1>8
     DEF Next, Tick, Gathering, Reads, ReaderComes, ReaderLocks, ReaderLeaves, ReaderStays,
         DockerChanges, GetSystemHealth, vars

\* When the checks of a tick read the statistics, an entry that is not of this
\* tick belongs to a container that was not listed or gave no sample, whatever
\* failed and however long the round took (CollectContainerStats, 144-185).
THEOREM OldEntriesAreUnreached == Spec => []StaleOnlyIfUnreached
<1>1. Init => RoundsInv
  BY InitVitals DEF Init, RoundsInv, Rounds, StaleOnlyIfUnreached
<1>2. RoundsInv => StaleOnlyIfUnreached
  BY DEF RoundsInv
<1>3. RoundsInv /\ [Next]_vars => RoundsInv'
  BY RoundsInvariance
<1> QED
  BY <1>1, <1>2, <1>3, PTL DEF Spec

----------------------------------------------------------------------------
(* The window: it is the end of all that was pushed, as long as it may be. *)

Suffix == \A i \in 1 .. Len(points) : points[i] = loads[i + (Len(loads) - Len(points))]
WindowInv == /\ TypeOK
             /\ Len(points) = IF Len(loads) < MaxSize THEN Len(loads) ELSE MaxSize
             /\ Suffix

LEMMA WindowInvariance == ASSUME WindowInv, [Next]_vars PROVE WindowInv'
<1>0. /\ TypeOK' /\ points \in Seq(Loads) /\ loads \in Seq(Loads)
      /\ Len(points) \in Nat /\ Len(loads) \in Nat /\ MaxSize \in Nat
      /\ Len(points) <= MaxSize /\ Len(points) <= Len(loads)
  BY VitalsInvariance, LoadAssumption DEF WindowInv, TypeOK
<1>1. ASSUME NEW load \in Loads, GetSystemHealth(load) PROVE WindowInv'
  <2>1. points' = Pushed(points, load) /\ loads' = Append(loads, load)
    BY <1>1 DEF GetSystemHealth
  <2>2. /\ Len(loads') = Len(loads) + 1
        /\ \A i \in 1 .. Len(loads) : loads'[i] = loads[i]
        /\ loads'[Len(loads) + 1] = load
    BY <1>0, <2>1, AppendProperties
  <2>3. Len(points') = IF Len(points) < MaxSize THEN Len(points) + 1 ELSE MaxSize
    BY <1>0, <2>1, PushedFacts
  <2>4. Len(points') = IF Len(loads') < MaxSize THEN Len(loads') ELSE MaxSize
    BY <1>0, <2>2, <2>3 DEF WindowInv
  <2>5. Suffix'
    <3> DEFINE shift == IF Len(points) < MaxSize THEN 0 ELSE 1
    <3>1. \A i \in 1 .. Len(points') : points'[i] = Append(points, load)[i + shift]
      BY <1>0, <2>1, PushedFacts
    <3>2. /\ \A i \in 1 .. Len(points) : Append(points, load)[i] = points[i]
          /\ Append(points, load)[Len(points) + 1] = load
      BY <1>0, AppendProperties
    <3>3. ASSUME NEW i \in 1 .. Len(points')
          PROVE  points'[i] = loads'[i + (Len(loads') - Len(points'))]
      <4>1. i + shift \in 1 .. Len(points) + 1 /\ Len(points') = Len(points) + 1 - shift
        BY <1>0, <2>3
      <4> DEFINE k == i + shift
      <4>2. i + (Len(loads') - Len(points')) = k + (Len(loads) - Len(points))
        <5>1. /\ i \in Int /\ shift \in Int /\ Len(points) \in Int /\ Len(loads) \in Int
              /\ Len(loads') = Len(loads) + 1 /\ Len(points') = Len(points) + 1 - shift
          BY <1>0, <2>2, <4>1
        <5> HIDE DEF shift
        <5> QED
          BY <5>1
      <4>3. points'[i] = Append(points, load)[k]
        BY <3>1
      <4> HIDE DEF k
      <4>4. k \in 1 .. Len(points) + 1
        BY <4>1 DEF k
      <4>5. CASE k = Len(points) + 1
        BY <1>0, <2>2, <3>2, <4>2, <4>3, <4>5
      <4>6. CASE k \in 1 .. Len(points)
        <5>1. points[k] = loads[k + (Len(loads) - Len(points))]
          BY <4>6 DEF WindowInv, Suffix
        <5>2. k + (Len(loads) - Len(points)) \in 1 .. Len(loads)
          BY <1>0, <4>6
        <5> QED
          BY <2>2, <3>2, <4>2, <4>3, <4>6, <5>1, <5>2
      <4> QED
        BY <1>0, <4>4, <4>5, <4>6
    <3> QED
      BY <3>3 DEF Suffix
  <2> QED
    BY <1>0, <2>4, <2>5 DEF WindowInv
<1>2. CASE UNCHANGED <<points, loads>>
  BY <1>0, <1>2 DEF WindowInv, Suffix
<1> QED
  BY <1>1, <1>2 DEF Next, Tick, CollectLists, CollectFails, CollectLocks, Gathering, Gather,
     CollectUnlocks, Checks, AlertMemPressure, AlertSustainedCPU, ReaderComes, Reads,
     ReaderLocks, ReaderLeaves, ReaderStays, FetchOneStat, DockerChanges, vars

\* Two sequences with the same end have the same verdict.
LEMMA SameVerdict == WindowInv => VerdictIsOfAllPoints
<1> SUFFICES ASSUME WindowInv PROVE VerdictIsOfAllPoints
  OBVIOUS
<1>0. /\ points \in Seq(Loads) /\ loads \in Seq(Loads)
      /\ Len(points) \in Nat /\ Len(loads) \in Nat
      /\ MaxSize \in Nat \ {0} /\ Duration \in Nat \ {0}
      /\ Len(points) = IF Len(loads) < MaxSize THEN Len(loads) ELSE MaxSize
  BY LoadAssumption DEF WindowInv, TypeOK
<1>1. CASE Len(points) < Duration
  <2>1. ~(MaxSize >= Duration /\ Len(loads) >= Duration)
    BY <1>0, <1>1
  <2>2. \A seq : CheckSustainedLoad(seq) => Len(seq) >= Duration
    BY Zenon DEF CheckSustainedLoad
  <2>3. ~(Len(points) >= Duration)
    BY <1>0, <1>1
  <2> QED
    BY <2>1, <2>2, <2>3 DEF VerdictIsOfAllPoints
<1>2. CASE Len(points) >= Duration
  <2>1. MaxSize >= Duration /\ Len(loads) >= Duration
    BY <1>0, <1>2
  <2> DEFINE first(seq) == Len(seq) - Duration + 1
  <2>2. ASSUME NEW seq \in Seq(Loads), Len(seq) >= Duration
        PROVE  /\ RecentLoads(seq) \in Seq(Loads) /\ Len(RecentLoads(seq)) = Duration
               /\ \A i \in 1 .. Duration : RecentLoads(seq)[i] = seq[Len(seq) - Duration + i]
    <3>1. first(seq) \in 1 .. Len(seq) /\ Len(seq) - first(seq) + 1 = Duration /\ Len(seq) \in Nat
      BY <1>0, <2>2
    <3>2. \A i \in first(seq) .. Len(seq) : seq[i] \in Loads
      BY <3>1
    <3>3. /\ RecentLoads(seq) \in Seq(Loads)
          /\ Len(RecentLoads(seq)) = Len(seq) - first(seq) + 1
          /\ \A i \in 1 .. Len(seq) - first(seq) + 1 : RecentLoads(seq)[i] = seq[first(seq) + i - 1]
      BY <3>1, <3>2, SubSeqProperties DEF RecentLoads
    <3>4. \A i \in 1 .. Duration : first(seq) + i - 1 = Len(seq) - Duration + i
      BY <1>0, <3>1
    <3> QED
      BY <3>1, <3>3, <3>4
  <2>3. \A i \in 1 .. Duration : RecentLoads(points)[i] = RecentLoads(loads)[i]
    <3> SUFFICES ASSUME NEW i \in 1 .. Duration
                 PROVE  RecentLoads(points)[i] = RecentLoads(loads)[i]
      OBVIOUS
    <3> DEFINE n == Len(points)
               m == Len(loads)
               k == n - Duration + i
    <3>0. n \in Nat /\ m \in Nat /\ n >= Duration /\ i \in Int /\ i >= 1 /\ i <= Duration
      BY <1>0, <1>2
    <3> HIDE DEF n, m
    <3>1. k \in 1 .. n /\ k + (m - n) = m - Duration + i
      BY <1>0, <3>0
    <3>2. points[n - Duration + i] = loads[m - Duration + i]
      BY <3>1 DEF WindowInv, Suffix, n, m
    <3> USE DEF n, m
    <3> QED
      BY <1>0, <1>2, <2>1, <2>2, <3>2
  <2>4. RecentLoads(points) = RecentLoads(loads)
    BY <1>0, <1>2, <2>1, <2>2, <2>3, SeqEqual
  <2> QED
    BY <1>0, <1>2, <2>1, <2>4 DEF VerdictIsOfAllPoints, CheckSustainedLoad
<1> QED
  BY <1>0, <1>1, <1>2

\* Pruning never changes the verdict on the last Duration points; a window that
\* is shorter than the duration gives none (pushMetrics, CheckSustainedLoad).
THEOREM PruningIsHarmless == Spec => []VerdictIsOfAllPoints
<1>1. Init => WindowInv
  BY InitVitals, LoadAssumption DEF Init, WindowInv, Suffix
<1>2. WindowInv /\ [Next]_vars => WindowInv'
  BY WindowInvariance
<1> QED
  BY <1>1, <1>2, SameVerdict, PTL DEF Spec
=============================================================================
