---------------------------- MODULE SnoozeProofs ----------------------------
(* Proofs about Snooze for any keys and durations. *)
EXTENDS Snooze, TLAPS

Minutes == {None} \cup 0 .. Longest

Setters == {Idle} \cup [pc : {"marshal"}, key : Keys]
                  \cup [pc : {"write"}, key : Keys, data : Map]
Readers == {Idle} \cup [pc : {"compare", "evict"}, key : Keys, deadline : Minutes]
Steps   == setter \in Setters /\ reader \in Readers

\* What the operator was granted is what f has, as far as either is still
\* running.
Granted(f, k) == (promise[k] > 0 \/ f[k] > 0) => f[k] = promise[k]

\* A key that the Set in progress has changed is not on disk yet.
Settled(k) == setter.pc = "idle" \/ setter.key # k

\* The map while the bot runs, the snapshot that is being written, and the file,
\* unless its last write failed or the bot is down, agree with what was granted.
Keeps == \A k \in Keys \ evicted :
           /\ up => Granted(until, k)
           /\ setter.pc = "write" => Granted(setter.data, k)
           /\ up /\ ~unsaved /\ Settled(k) => Granted(file, k)
           /\ ~up => Granted(file, k) /\ setter.pc = "idle"

SnoozeInv == SnoozeTypeOK /\ Steps /\ Keeps

LEMMA LongestIsADuration ==
  /\ Longest \in Nat \ {0}
  /\ \A d \in Durations : d \in 0 .. Longest /\ d > 0
  /\ None \in Minutes /\ 0 \in Minutes /\ ~(None > 0)
<1>1. \E d \in Durations : \A e \in Durations : e <= d
  BY DurationsAssumption
<1>2. Longest \in Durations /\ \A e \in Durations : e <= Longest
  BY <1>1 DEF Longest
<1> QED
  BY <1>2, DurationsAssumption DEF Minutes, None

LEMMA LessType ==
  /\ \A m \in Minutes : Less(m) \in Minutes
  /\ \A m \in 0 .. Longest : Less(m) \in 0 .. Longest
  /\ \A f \in Map : LessMap(f) \in Map /\ \A k \in Keys : LessMap(f)[k] = Less(f[k])
  BY LongestIsADuration DEF Less, LessMap, Minutes, Map, None

\* Time takes the same from what was granted and from what is kept.
LEMMA LessGranted ==
  ASSUME NEW p \in 0 .. Longest, NEW m \in Minutes, (p > 0 \/ m > 0) => m = p
  PROVE  (Less(p) > 0 \/ Less(m) > 0) => Less(m) = Less(p)
  BY LongestIsADuration DEF Less, Minutes, None

\* What a call that is under way carries.
LEMMA CallFacts ==
  ASSUME Steps
  PROVE  /\ setter.pc \in {"idle", "marshal", "write"} /\ reader.pc \in {"idle", "compare", "evict"}
         /\ setter.pc # "idle" => setter.key \in Keys
         /\ setter.pc = "write" => setter.data \in Map
         /\ setter.pc = "write" => setter \in [pc : {"write"}, key : Keys, data : Map]
         /\ reader.pc # "idle" => reader.key \in Keys /\ reader.deadline \in Minutes
         /\ reader.pc # "idle" =>
              reader \in [pc : {"compare", "evict"}, key : Keys, deadline : Minutes]
<1>1. setter \in Setters /\ reader \in Readers
  BY DEF Steps
<1>2. Idle.pc = "idle"
  BY DEF Idle
<1>3. /\ setter = Idle \/ (setter.pc = "marshal" /\ setter.key \in Keys)
         \/ (setter.pc = "write" /\ setter \in [pc : {"write"}, key : Keys, data : Map])
      /\ reader = Idle \/ (/\ reader.pc \in {"compare", "evict"}
                           /\ reader \in [pc : {"compare", "evict"}, key : Keys, deadline : Minutes])
  BY <1>1 DEF Setters, Readers
<1> QED
  BY <1>2, <1>3

LEMMA SnoozeStarts == InitSnooze => SnoozeInv
<1> SUFFICES ASSUME InitSnooze PROVE SnoozeInv
  OBVIOUS
<1>1. SnoozeTypeOK
  <2>1. until \in [Keys -> Minutes] /\ file \in [Keys -> Minutes] /\ promise \in [Keys -> 0 .. Longest]
    BY LongestIsADuration DEF InitSnooze, Nowhere
  <2> QED
    BY <2>1 DEF InitSnooze, SnoozeTypeOK, Map, Idle, Minutes
<1>2. Steps
  BY DEF InitSnooze, Steps, Setters, Readers
<1>3. Keeps
  <2>1. \A k \in Keys : until[k] = None /\ file[k] = None /\ promise[k] = 0
    BY DEF InitSnooze, Nowhere
  <2>2. \A k \in Keys : Granted(until, k) /\ Granted(file, k)
    <3> TAKE k \in Keys
    <3>1. ~(until[k] > 0) /\ ~(file[k] > 0)
      BY <2>1, LongestIsADuration
    <3>2. ~(promise[k] > 0)
      BY <2>1
    <3> QED
      BY <3>1, <3>2 DEF Granted
  <2>3. setter.pc = "idle"
    BY DEF InitSnooze, Idle
  <2> QED
    BY <2>2, <2>3 DEF Keeps
<1> QED
  BY <1>1, <1>2, <1>3 DEF SnoozeInv

LEMMA TypeInvariance == ASSUME SnoozeInv, [NextSnooze]_snoozeVars PROVE SnoozeTypeOK' /\ Steps'
<1> USE LongestIsADuration
<1>1. /\ SnoozeTypeOK /\ Steps /\ Map = [Keys -> Minutes]
      /\ until \in [Keys -> Minutes] /\ file \in [Keys -> Minutes]
      /\ promise \in [Keys -> 0 .. Longest]
  BY DEF SnoozeInv, SnoozeTypeOK, Map, Minutes
<1>2. ASSUME NEW k \in Keys, NEW d \in Durations, SetWrites(k, d) PROVE SnoozeTypeOK' /\ Steps'
  BY <1>1, <1>2 DEF SnoozeTypeOK, Steps, SetWrites, Setters, Minutes
<1>3. ASSUME NEW k \in Keys, ClearDeletes(k) PROVE SnoozeTypeOK' /\ Steps'
  BY <1>1, <1>3 DEF SnoozeTypeOK, Steps, ClearDeletes, Setters, Minutes
<1>4. CASE SetMarshals
  BY <1>1, <1>4 DEF SnoozeTypeOK, Steps, SetMarshals, Setters, Idle, history
<1>5. CASE SetStores
  BY <1>1, <1>5, CallFacts DEF SnoozeTypeOK, Steps, SetStores, Setters, Idle
<1>6. ASSUME NEW k \in Keys, ActiveReads(k) PROVE SnoozeTypeOK' /\ Steps'
  BY <1>1, <1>6 DEF SnoozeTypeOK, Steps, ActiveReads, Readers, Idle, Moment
<1>7. CASE ActiveCompares
  BY <1>1, <1>7 DEF SnoozeTypeOK, Steps, ActiveCompares, Readers, Idle, history
<1>8. CASE ActiveEvicts
  BY <1>1, <1>8 DEF SnoozeTypeOK, Steps, ActiveEvicts, Readers, Idle
<1>9. CASE Crash
  <2>1. Nowhere \in [Keys -> Minutes]
    BY DEF Nowhere
  <2>2. \A k \in Keys : Owed(k) \in 0 .. Longest
    BY <1>1 DEF Owed, Minutes, None
  <2>3. promise' \in [Keys -> 0 .. Longest]
    BY <1>9, <2>2 DEF Crash
  <2> QED
    BY <1>1, <1>9, <2>1, <2>3 DEF SnoozeTypeOK, Steps, Crash, Setters, Readers, Idle
<1>10. CASE Load
  BY <1>1, <1>10 DEF SnoozeTypeOK, Steps, Load, history
<1>11. CASE Elapse
  <2>1. until' \in Map /\ file' \in Map
    BY <1>1, <1>11, LessType DEF SnoozeTypeOK, Elapse
  <2>2. promise' \in [Keys -> 0 .. Longest]
    BY <1>1, <1>11, LessType DEF Elapse, LessMap
  <2>3. setter' \in Setters /\ setter'.pc = setter.pc
    <3>1. CASE setter.pc = "write"
      <4>1. setter' = [setter EXCEPT !.data = LessMap(setter.data)] /\ LessMap(setter.data) \in Map
        BY <1>1, <1>11, <3>1, LessType, CallFacts DEF Elapse
      <4>2. setter \in [pc : {"write"}, key : Keys, data : Map]
        BY <1>1, <3>1, CallFacts
      <4> QED
        BY <3>1, <4>1, <4>2 DEF Setters
    <3>2. CASE setter.pc # "write"
      BY <1>1, <1>11, <3>2 DEF Elapse, Steps
    <3> QED
      BY <3>1, <3>2
  <2>4. reader' \in Readers /\ reader'.pc = reader.pc
    <3>1. CASE reader.pc = "compare"
      <4>1. /\ reader' = [reader EXCEPT !.deadline = Less(reader.deadline)]
            /\ Less(reader.deadline) \in Minutes
        BY <1>1, <1>11, <3>1, LessType, CallFacts DEF Elapse
      <4>2. reader \in [pc : {"compare", "evict"}, key : Keys, deadline : Minutes]
        BY <1>1, <3>1, CallFacts
      <4> QED
        BY <3>1, <4>1, <4>2 DEF Readers
    <3>2. CASE reader.pc # "compare"
      BY <1>1, <1>11, <3>2 DEF Elapse, Steps
    <3> QED
      BY <3>1, <3>2
  <2> QED
    BY <1>1, <1>11, <2>1, <2>2, <2>3, <2>4 DEF SnoozeTypeOK, Steps, Elapse
<1>12. CASE UNCHANGED snoozeVars
  BY <1>1, <1>12 DEF SnoozeTypeOK, Steps, snoozeVars, memory, history
<1> QED
  BY <1>2, <1>3, <1>4, <1>5, <1>6, <1>7, <1>8, <1>9, <1>10, <1>11, <1>12 DEF NextSnooze

LEMMA KeepsInvariance == ASSUME SnoozeInv, [NextSnooze]_snoozeVars PROVE Keeps'
<1> USE LongestIsADuration
<1>1. /\ SnoozeTypeOK /\ Steps /\ Keeps
      /\ until \in [Keys -> Minutes] /\ file \in [Keys -> Minutes]
      /\ promise \in [Keys -> 0 .. Longest]
      /\ setter.pc \in {"idle", "marshal", "write"}
      /\ setter.pc # "idle" => setter.key \in Keys
      /\ setter.pc = "write" => setter.data \in [Keys -> Minutes]
  BY CallFacts DEF SnoozeInv, SnoozeTypeOK, Map, Minutes
<1>2. Idle.pc = "idle"
  BY DEF Idle
<1>3. ASSUME NEW k \in Keys, NEW d \in Nat,
             setter.pc = "idle", up, setter' = [pc |-> "marshal", key |-> k],
             \E m \in Minutes : until' = [until EXCEPT ![k] = m] /\ (d > 0 => m = d) /\ (m > 0 => m = d),
             promise' = [promise EXCEPT ![k] = d], evicted' = evicted \ {k},
             UNCHANGED <<up, file, unsaved>>
      PROVE  Keeps'
  <2>1. setter'.pc = "marshal" /\ setter'.key = k
    BY <1>3
  <2>2. ASSUME NEW u \in Keys \ evicted'
        PROVE  /\ (promise'[u] > 0 \/ until'[u] > 0) => until'[u] = promise'[u]
               /\ ~unsaved /\ u # k => Granted(file, u)'
    <3>1. CASE u = k
      BY <1>1, <1>3, <3>1
    <3>2. CASE u # k
      BY <1>1, <1>3, <2>2, <3>2 DEF Keeps, Granted, Settled
    <3> QED
      BY <3>1, <3>2
  <2> QED
    BY <1>3, <2>1, <2>2 DEF Keeps, Granted, Settled
<1>4. ASSUME NEW k \in Keys, NEW d \in Durations, SetWrites(k, d) PROVE Keeps'
  <2>1. d \in Nat /\ d \in Minutes
    BY DEF Minutes
  <2> QED
    BY <1>3, <1>4, <2>1 DEF SetWrites
<1>5. ASSUME NEW k \in Keys, ClearDeletes(k) PROVE Keeps'
  <2>1. /\ setter.pc = "idle" /\ up /\ setter' = [pc |-> "marshal", key |-> k]
        /\ until' = [until EXCEPT ![k] = None] /\ promise' = [promise EXCEPT ![k] = 0]
        /\ evicted' = evicted \ {k} /\ UNCHANGED <<up, file, unsaved>>
    BY <1>5 DEF ClearDeletes
  <2>2. \E m \in Minutes : until' = [until EXCEPT ![k] = m] /\ (0 > 0 => m = 0) /\ (m > 0 => m = 0)
    <3>1. None \in Minutes /\ ~(None > 0)
      OBVIOUS
    <3> WITNESS None \in Minutes
    <3> QED
      BY <2>1, <3>1
  <2> QED
    BY <1>3, <2>1, <2>2
<1>6. CASE SetMarshals
  <2>1. /\ setter'.pc = "write" /\ setter'.key = setter.key /\ setter'.data = until
        /\ setter.pc = "marshal" /\ up
        /\ UNCHANGED <<up, until, file, promise, evicted, unsaved>>
    BY <1>6 DEF SetMarshals, history
  <2> QED
    BY <1>1, <2>1 DEF Keeps, Granted, Settled
<1>7. CASE SetStores
  <2>1. /\ setter'.pc = "idle" /\ setter.pc = "write" /\ up
        /\ file' = setter.data \/ unsaved'
        /\ UNCHANGED <<up, until, promise, evicted>>
    BY <1>2, <1>7 DEF SetStores
  <2> QED
    BY <1>1, <2>1 DEF Keeps, Granted, Settled
<1>8. CASE ActiveEvicts
  <2>1. /\ until' = [until EXCEPT ![reader.key] = None] /\ up
        /\ evicted' = IF until[reader.key] > 0 THEN evicted \cup {reader.key} ELSE evicted
        /\ UNCHANGED <<up, setter, file, promise, unsaved>>
    BY <1>8 DEF ActiveEvicts
  <2>2. ASSUME NEW u \in Keys \ evicted' PROVE Granted(until, u)'
    <3>1. CASE u = reader.key
      BY <1>1, <2>1, <2>2, <3>1 DEF Keeps, Granted, None, Minutes
    <3>2. CASE u # reader.key
      BY <1>1, <2>1, <2>2, <3>2 DEF Keeps, Granted
    <3> QED
      BY <3>1, <3>2
  <2>3. ASSUME NEW u \in Keys \ evicted'
        PROVE  /\ setter.pc = "write" => Granted(setter.data, u)
               /\ ~unsaved /\ Settled(u) => Granted(file, u)
    BY <1>1, <2>1, <2>3 DEF Keeps
  <2> QED
    BY <2>1, <2>2, <2>3 DEF Keeps, Granted, Settled
<1>9. CASE Crash
  <2>1. /\ setter'.pc = "idle" /\ up /\ ~up' /\ promise' = [k \in Keys |-> Owed(k)]
        /\ UNCHANGED <<file, evicted>>
    BY <1>2, <1>9 DEF Crash
  <2>2. ASSUME NEW k \in Keys \ evicted
        PROVE  (Owed(k) > 0 \/ file[k] > 0) => file[k] = Owed(k)
    <3>1. CASE unsaved \/ (setter.pc # "idle" /\ setter.key = k)
      BY <1>1, <3>1 DEF Owed, Minutes, None
    <3>2. CASE ~(unsaved \/ (setter.pc # "idle" /\ setter.key = k))
      BY <1>1, <2>1, <3>2 DEF Owed, Keeps, Granted, Settled
    <3> QED
      BY <3>1, <3>2
  <2> QED
    BY <2>1, <2>2 DEF Keeps, Granted, Settled
<1>10. CASE Load
  <2>1. /\ ~up /\ up' /\ UNCHANGED <<setter, file, promise, evicted, unsaved>>
        /\ until' = [k \in Keys |-> IF file[k] > 0 THEN file[k] ELSE None]
    BY <1>10 DEF Load, history
  <2>2. ASSUME NEW k \in Keys \ evicted
        PROVE  Granted(file, k) /\ setter.pc = "idle" /\ Granted(until, k)'
    <3>1. Granted(file, k) /\ setter.pc = "idle"
      BY <1>1, <2>1 DEF Keeps
    <3> QED
      BY <1>1, <2>1, <3>1 DEF Granted, None, Minutes
  <2> QED
    BY <2>1, <2>2 DEF Keeps, Granted
<1>11. CASE Elapse
  <2>1. ASSUME NEW f \in [Keys -> Minutes], NEW k \in Keys, Granted(f, k)
        PROVE  (promise'[k] > 0 \/ LessMap(f)[k] > 0) => LessMap(f)[k] = promise'[k]
    <3>1. promise'[k] = Less(promise[k]) /\ LessMap(f)[k] = Less(f[k])
      BY <1>11, <2>1 DEF Elapse, LessMap
    <3>2. promise[k] \in 0 .. Longest /\ f[k] \in Minutes
      BY <1>1, <2>1
    <3> QED
      BY <2>1, <3>1, <3>2, LessGranted DEF Granted
  <2>2. /\ until' = LessMap(until) /\ file' = LessMap(file) /\ UNCHANGED <<up, evicted, unsaved>>
        /\ setter'.pc = setter.pc
        /\ setter.pc # "idle" => setter'.key = setter.key
        /\ setter.pc = "write" => setter'.data = LessMap(setter.data)
    <3>1. CASE setter.pc = "write"
      <4>1. setter' = [setter EXCEPT !.data = LessMap(setter.data)]
        BY <1>11, <3>1 DEF Elapse
      <4>2. setter \in [pc : {"write"}, key : Keys, data : Map]
        BY <1>1, <3>1, CallFacts
      <4> QED
        BY <1>11, <3>1, <4>1, <4>2 DEF Elapse
    <3>2. CASE setter.pc # "write"
      BY <1>11, <3>2 DEF Elapse
    <3> QED
      BY <3>1, <3>2
  <2> QED
    BY <1>1, <2>1, <2>2 DEF Keeps, Granted, Settled
<1>12. CASE ActiveCompares \/ (\E k \in Keys : ActiveReads(k)) \/ UNCHANGED snoozeVars
  <2>1. UNCHANGED <<up, until, setter, file, promise, evicted, unsaved>>
    BY <1>12 DEF ActiveCompares, ActiveReads, snoozeVars, memory, history
  <2> QED
    BY <1>1, <2>1 DEF Keeps, Granted, Settled
<1> QED
  BY <1>4, <1>5, <1>6, <1>7, <1>8, <1>9, <1>10, <1>11, <1>12 DEF NextSnooze

LEMMA SnoozeInvariance == SnoozeInv /\ [NextSnooze]_snoozeVars => SnoozeInv'
  BY TypeInvariance, KeepsInvariance DEF SnoozeInv

\* Every variable keeps to its type, and no snooze outlasts the longest button.
THEOREM SnoozeTypeCorrect == SpecSnooze => []SnoozeTypeOK
<1>1. SnoozeInv => SnoozeTypeOK
  BY DEF SnoozeInv
<1> QED
  BY <1>1, SnoozeStarts, SnoozeInvariance, PTL DEF SpecSnooze

\* snooze.go:39: a snooze is in force for as long as it was granted, over
\* interleaved calls, failed writes, crashes and restarts.
THEOREM SnoozesAreInForce == SpecSnooze => []GrantedIsInForce
<1>1. SnoozeInv => GrantedIsInForce
  BY DEF SnoozeInv, Keeps, Granted, GrantedIsInForce, Snoozed
<1> QED
  BY <1>1, SnoozeStarts, SnoozeInvariance, PTL DEF SpecSnooze

\* snooze.go:98: when no call is under way and the last write succeeded, the
\* file has every running snooze.
THEOREM SnoozesAreOnDisk == SpecSnooze => []GrantedIsOnDisk
<1>1. SnoozeInv => GrantedIsOnDisk
  BY DEF SnoozeInv, Keeps, Granted, GrantedIsOnDisk, Snoozed, Settled
<1> QED
  BY <1>1, SnoozeStarts, SnoozeInvariance, PTL DEF SpecSnooze

----------------------------------------------------------------------------
(* What Active answers. *)

\* A call that has read a running deadline has seen the key muted; one that is
\* going to answer "no" has seen it calm, or its eviction is about to remove a
\* snooze that was granted during the call.
SeenInv ==
  reader.pc # "idle" =>
    /\ up
    /\ reader.deadline > 0 => "muted" \in seen
    /\ reader.pc = "evict" => ~(reader.deadline > 0)
    /\ ~(reader.deadline > 0) =>
         "calm" \in seen \/ (reader.key \notin evicted /\ until[reader.key] > 0)
    /\ reader.key \in evicted => "calm" \in seen

LEMMA SeenInvariance == ASSUME SnoozeInv, SeenInv, [NextSnooze]_snoozeVars PROVE SeenInv'
<1> USE LongestIsADuration
<1>1. /\ SnoozeTypeOK /\ Keeps
      /\ until \in [Keys -> Minutes] /\ promise \in [Keys -> 0 .. Longest]
      /\ reader.pc \in {"idle", "compare", "evict"}
      /\ reader.pc # "idle" => reader.key \in Keys /\ reader.deadline \in Minutes
      /\ reader.pc # "idle" =>
           reader \in [pc : {"compare", "evict"}, key : Keys, deadline : Minutes]
  BY CallFacts DEF SnoozeInv, SnoozeTypeOK, Map, Minutes
<1>2. Idle.pc = "idle"
  BY DEF Idle
<1>3. ASSUME NEW k \in Keys, NEW d \in Durations, SetWrites(k, d) PROVE SeenInv'
  <2>1. /\ UNCHANGED <<up, reader>> /\ evicted' = evicted \ {k} /\ seen \subseteq seen'
        /\ until' = [until EXCEPT ![k] = d] /\ d > 0
    BY <1>3 DEF SetWrites
  <2>2. reader.pc # "idle" => until'[reader.key] > 0 \/ until'[reader.key] = until[reader.key]
    BY <1>1, <2>1
  <2>3. reader.pc # "idle" =>
          \/ until'[reader.key] > 0 /\ reader.key \notin evicted'
          \/ until'[reader.key] = until[reader.key] /\ (reader.key \in evicted' <=> reader.key \in evicted)
    BY <1>1, <2>1
  <2> QED
    BY <2>1, <2>3 DEF SeenInv
<1>4. ASSUME NEW k \in Keys, ClearDeletes(k) PROVE SeenInv'
  <2>1. /\ UNCHANGED <<up, reader>> /\ evicted' = evicted \ {k} /\ seen \subseteq seen'
        /\ until' = [until EXCEPT ![k] = None]
        /\ reader.pc # "idle" /\ reader.key = k => "calm" \in seen'
    BY <1>4 DEF ClearDeletes
  <2>2. reader.pc # "idle" /\ reader.key # k =>
          /\ until'[reader.key] = until[reader.key]
          /\ reader.key \in evicted' <=> reader.key \in evicted
    BY <1>1, <2>1
  <2> QED
    BY <2>1, <2>2 DEF SeenInv
<1>5. CASE SetMarshals \/ SetStores \/ UNCHANGED snoozeVars
  <2>1. UNCHANGED <<up, reader, seen, until, evicted>>
    BY <1>5 DEF SetMarshals, SetStores, snoozeVars, memory, history
  <2> QED
    BY <2>1 DEF SeenInv
<1>6. ASSUME NEW k \in Keys, ActiveReads(k) PROVE SeenInv'
  <2>1. up /\ UNCHANGED <<up, until, evicted, promise>> /\ seen' = Moment(k)
    BY <1>6 DEF ActiveReads
  <2>2. CASE until[k] = None
    BY <1>2, <1>6, <2>2 DEF ActiveReads, SeenInv
  <2>3. CASE until[k] # None
    <3>1. reader' = [pc |-> "compare", key |-> k, deadline |-> until[k]]
      BY <1>6, <2>3 DEF ActiveReads
    <3>2. reader'.pc = "compare" /\ reader'.key = k /\ reader'.deadline = until[k]
      BY <3>1
    <3>3. k \in evicted \/ (until[k] > 0 <=> promise[k] > 0)
      BY <1>1, <2>1 DEF Keeps, Granted
    <3>4. /\ until[k] > 0 => "muted" \in Moment(k)
          /\ ~(until[k] > 0) => "calm" \in Moment(k)
          /\ k \in evicted => "calm" \in Moment(k)
      BY <3>3 DEF Moment, Snoozed
    <3> QED
      BY <2>1, <3>2, <3>4 DEF SeenInv
  <2> QED
    BY <2>2, <2>3
<1>7. CASE ActiveCompares
  <2>1. reader.pc = "compare" /\ UNCHANGED <<up, until, evicted, seen>>
    BY <1>7 DEF ActiveCompares, history
  <2>2. CASE reader.deadline > 0
    BY <1>2, <1>7, <2>2 DEF ActiveCompares, SeenInv
  <2>3. CASE ~(reader.deadline > 0)
    <3>1. reader' = [reader EXCEPT !.pc = "evict"]
      BY <1>7, <2>3 DEF ActiveCompares
    <3>2. reader'.pc = "evict" /\ reader'.key = reader.key /\ reader'.deadline = reader.deadline
      BY <1>1, <2>1, <3>1
    <3> QED
      BY <2>1, <2>3, <3>2 DEF SeenInv
  <2> QED
    BY <2>2, <2>3
<1>8. CASE ActiveEvicts \/ Crash
  BY <1>2, <1>8 DEF ActiveEvicts, Crash, SeenInv
<1>9. CASE Load
  BY <1>9 DEF Load, history, SeenInv
<1>10. CASE Elapse
  <2>1. UNCHANGED <<up, evicted>> /\ seen \subseteq seen' /\ reader'.pc = reader.pc
    <3>1. CASE reader.pc = "compare"
      <4>1. reader' = [reader EXCEPT !.deadline = Less(reader.deadline)]
        BY <1>10, <3>1 DEF Elapse
      <4> QED
        BY <1>1, <1>10, <3>1, <4>1 DEF Elapse
    <3>2. CASE reader.pc # "compare"
      BY <1>10, <3>2 DEF Elapse
    <3> QED
      BY <3>1, <3>2
  <2> SUFFICES ASSUME reader.pc # "idle" PROVE SeenInv'
    BY <2>1 DEF SeenInv
  <2> DEFINE k == reader.key
  <2>2. /\ k \in Keys /\ reader'.key = k /\ reader.deadline \in Minutes
        /\ reader'.deadline > 0 => reader.deadline > 0
        /\ reader.pc = "evict" => ~(reader'.deadline > 0)
    <3>1. CASE reader.pc = "compare"
      <4>1. reader' = [reader EXCEPT !.deadline = Less(reader.deadline)]
        BY <1>10, <3>1 DEF Elapse
      <4>2. reader'.key = k /\ reader'.deadline = Less(reader.deadline) /\ reader.deadline \in Minutes
        BY <1>1, <3>1, <4>1
      <4>3. Less(reader.deadline) > 0 => reader.deadline > 0
        BY <4>2 DEF Less
      <4> QED
        BY <1>1, <3>1, <4>2, <4>3
    <3>2. CASE reader.pc # "compare"
      BY <1>1, <1>10, <3>2 DEF Elapse, SeenInv
    <3> QED
      BY <3>1, <3>2
  <2>3. /\ promise'[k] = Less(promise[k]) /\ until'[k] = Less(until[k])
        /\ promise'[k] = 0 => "calm" \in seen'
        /\ promise[k] \in 0 .. Longest /\ until[k] \in Minutes
    BY <1>1, <1>10, <2>2 DEF Elapse, LessMap
  <2>4. k \notin evicted => (until'[k] > 0 \/ "calm" \in seen')
    <3>1. CASE promise[k] > 0
      <4>1. k \notin evicted => until[k] = promise[k]
        BY <1>1, <2>2, <3>1 DEF Keeps, Granted, SeenInv
      <4>2. Less(promise[k]) = 0 \/ Less(promise[k]) > 0
        BY <2>3 DEF Less
      <4> QED
        BY <2>3, <4>1, <4>2
    <3>2. CASE ~(promise[k] > 0)
      <4>1. Less(promise[k]) = 0
        BY <2>3, <3>2 DEF Less
      <4> QED
        BY <2>3, <4>1
    <3> QED
      BY <3>1, <3>2
  <2> QED
    BY <2>1, <2>2, <2>4 DEF SeenInv
<1> QED
  BY <1>3, <1>4, <1>5, <1>6, <1>7, <1>8, <1>9, <1>10 DEF NextSnooze

\* snooze.go:54: what the monitor is told was true at some moment of its call,
\* unless the call takes back a snooze that was granted meanwhile.
THEOREM AnswersWereTrue == SpecSnooze => AnswersAreHonest
<1>1. InitSnooze => SeenInv
  BY DEF InitSnooze, SeenInv, Idle
<1>2. ASSUME SnoozeInv, SeenInv, [NextSnooze]_snoozeVars
      PROVE  [/\ answer' = "no"  => "calm" \in seen' \/ evicted' # evicted
              /\ answer' = "yes" => "muted" \in seen']_snoozeVars
  <2>1. ASSUME NEW k \in Keys, ActiveReads(k)
        PROVE  answer' # "yes" /\ (answer' = "no" => "calm" \in seen')
    <3>1. seen' = Moment(k) /\ up /\ answer' # "yes" /\ (answer' = "no" => until[k] = None)
      BY <2>1 DEF ActiveReads
    <3>2. ASSUME until[k] = None, k \notin evicted PROVE ~(promise[k] > 0)
      BY <1>2, <3>1, <3>2, LongestIsADuration DEF SnoozeInv, Keeps, Granted
    <3> QED
      BY <3>1, <3>2 DEF Moment, Snoozed
  <2>2. ActiveCompares => answer' # "no" /\ (answer' = "yes" => "muted" \in seen')
    BY <1>2 DEF ActiveCompares, SeenInv, history
  <2>3. ActiveEvicts => answer' # "yes" /\ ("calm" \in seen' \/ evicted' # evicted)
    BY <1>2 DEF ActiveEvicts, SeenInv
  <2>4. ASSUME NEW k \in Keys, NEW d \in Durations, SetWrites(k, d) PROVE answer' = "none"
    BY <2>4 DEF SetWrites
  <2>5. ASSUME NEW k \in Keys, ClearDeletes(k) PROVE answer' = "none"
    BY <2>5 DEF ClearDeletes
  <2>6. SetMarshals \/ SetStores \/ Crash \/ Load \/ Elapse => answer' = "none"
    BY DEF SetMarshals, SetStores, Crash, Load, Elapse
  <2> QED
    BY <1>2, <2>1, <2>2, <2>3, <2>4, <2>5, <2>6 DEF NextSnooze
<1>3. SnoozeInv /\ SeenInv /\ [NextSnooze]_snoozeVars => SeenInv'
  BY SeenInvariance
<1> QED
  BY <1>1, <1>2, <1>3, SnoozeStarts, SnoozeInvariance, PTL DEF SpecSnooze, AnswersAreHonest
=============================================================================
