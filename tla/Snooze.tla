------------------------------- MODULE Snooze -------------------------------
(***************************************************************************)
(* Alert snoozes (internal/snooze/snooze.go) between their two users: the  *)
(* update loop, which executes Set when an operator presses a button, and  *)
(* the monitor, which calls Active before it alerts.  The map is guarded   *)
(* by a lock that each of them takes anew for every access, so the two     *)
(* calls interleave between their accesses.  A deadline is modelled by the *)
(* minutes left; 0 is a deadline that has passed.                          *)
(***************************************************************************)
EXTENDS Integers

CONSTANTS Keys, Durations

ASSUME DurationsAssumption == /\ Durations \subseteq Nat \ {0}
                              /\ \E d \in Durations : \A e \in Durations : e <= d

VARIABLES
  up,
  until,      \* the map; None: no entry
  file,       \* snooze.json
  setter,     \* the Set in progress: its step, key and marshalled snapshot
  reader,     \* the Active in progress: its step, key and the deadline it read
  answer,     \* what the last step returned from Active
  promise,    \* history: minutes left of what the operator was last granted
  evicted,    \* history: keys whose running snooze Active removed
  unsaved,    \* history: the last write of snooze.json failed
  seen        \* history: whether the key of the call was muted, or calm, during it

None    == -1
Longest == CHOOSE d \in Durations : \A e \in Durations : e <= d
Map     == [Keys -> {None} \cup 0 .. Longest]
Nowhere == [k \in Keys |-> None]

memory     == <<until, setter, reader>>
history    == <<promise, evicted, unsaved, seen>>
snoozeVars == <<up, memory, file, answer, history>>

Idle == [pc |-> "idle"]
Snoozed(k) == promise[k] > 0
Moment(k)  == IF k \in evicted THEN {"muted", "calm"}
              ELSE IF Snoozed(k) THEN {"muted"} ELSE {"calm"}

InitSnooze == /\ up = TRUE
              /\ until = Nowhere /\ file = Nowhere
              /\ setter = Idle /\ reader = Idle
              /\ answer = "none"
              /\ promise = [k \in Keys |-> 0]
              /\ evicted = {} /\ unsaved = FALSE /\ seen = {}

----------------------------------------------------------------------------
(* Set: the entry under the lock, then save(): marshal, then write+rename. *)

\* Mutant: the press is not saved.
SetUnsaved(k, d) ==
  /\ up /\ setter.pc = "idle"
  /\ until' = [until EXCEPT ![k] = d]
  /\ promise' = [promise EXCEPT ![k] = d]
  /\ evicted' = evicted \ {k}
  /\ answer' = "none"
  /\ UNCHANGED <<up, setter, reader, file, unsaved, seen>>

SetWrites(k, d) ==
  /\ up /\ setter.pc = "idle"
  /\ until' = [until EXCEPT ![k] = d]
  /\ setter' = [pc |-> "marshal", key |-> k]
  /\ promise' = [promise EXCEPT ![k] = d]
  /\ evicted' = evicted \ {k}
  /\ answer' = "none"
  /\ seen' = IF reader.pc # "idle" /\ reader.key = k THEN seen \cup {"muted"} ELSE seen
  /\ UNCHANGED <<up, reader, file, unsaved>>

\* Clear, which is Set's counterpart and saves likewise.
ClearDeletes(k) ==
  /\ up /\ setter.pc = "idle"
  /\ until' = [until EXCEPT ![k] = None]
  /\ setter' = [pc |-> "marshal", key |-> k]
  /\ promise' = [promise EXCEPT ![k] = 0]
  /\ evicted' = evicted \ {k}
  /\ answer' = "none"
  /\ seen' = IF reader.pc # "idle" /\ reader.key = k THEN seen \cup {"calm"} ELSE seen
  /\ UNCHANGED <<up, reader, file, unsaved>>

SetMarshals ==
  /\ up /\ setter.pc = "marshal"
  /\ setter' = [pc |-> "write", key |-> setter.key, data |-> until]
  /\ answer' = "none"
  /\ UNCHANGED <<up, until, reader, file, history>>

\* The write of the temporary file or the rename fails: only logged.
SetStores ==
  /\ up /\ setter.pc = "write"
  /\ \/ file' = setter.data /\ unsaved' = FALSE
     \/ UNCHANGED file /\ unsaved' = TRUE
  /\ setter' = Idle
  /\ answer' = "none"
  /\ UNCHANGED <<up, until, reader, promise, evicted, seen>>

----------------------------------------------------------------------------
(* Active: read under the lock, compare without it, remove under it again. *)

ActiveReads(k) ==
  /\ up /\ reader.pc = "idle"
  /\ IF until[k] = None
     THEN reader' = Idle /\ answer' = "no"
     ELSE reader' = [pc |-> "compare", key |-> k, deadline |-> until[k]] /\ answer' = "none"
  /\ seen' = Moment(k)
  /\ UNCHANGED <<up, until, setter, file, promise, evicted, unsaved>>

\* Mutant: a deadline that has just passed still counts.
ActiveComparesLate ==
  /\ up /\ reader.pc = "compare"
  /\ IF reader.deadline >= 0
     THEN reader' = Idle /\ answer' = "yes"
     ELSE reader' = [reader EXCEPT !.pc = "evict"] /\ answer' = "none"
  /\ UNCHANGED <<up, until, setter, file, history>>

ActiveCompares ==
  /\ up /\ reader.pc = "compare"
  /\ IF reader.deadline > 0
     THEN reader' = Idle /\ answer' = "yes"
     ELSE reader' = [reader EXCEPT !.pc = "evict"] /\ answer' = "none"
  /\ UNCHANGED <<up, until, setter, file, history>>

\* The delete does not look at the entry again, and is not saved.
ActiveEvicts ==
  /\ up /\ reader.pc = "evict"
  /\ until' = [until EXCEPT ![reader.key] = None]
  /\ evicted' = IF until[reader.key] > 0 THEN evicted \cup {reader.key} ELSE evicted
  /\ reader' = Idle /\ answer' = "no"
  /\ UNCHANGED <<up, setter, file, promise, unsaved, seen>>

----------------------------------------------------------------------------
(* Restart and time.  Load skips what has expired. *)

\* The operator is owed what state the disk was left in only if his press was
\* answered and stored; otherwise he is owed what the disk has.
Owed(k) == IF unsaved \/ (setter.pc # "idle" /\ setter.key = k)
           THEN IF file[k] > 0 THEN file[k] ELSE 0
           ELSE promise[k]

Crash == /\ up /\ up' = FALSE
         /\ until' = Nowhere
         /\ setter' = Idle /\ reader' = Idle
         /\ promise' = [k \in Keys |-> Owed(k)]
         /\ unsaved' = FALSE
         /\ answer' = "none"
         /\ UNCHANGED <<file, evicted, seen>>

\* Mutant: Load leaves the map as it is.
LoadNothing == /\ ~up /\ up' = TRUE
               /\ until' = Nowhere
               /\ answer' = "none"
               /\ UNCHANGED <<setter, reader, file, history>>

Load == /\ ~up /\ up' = TRUE
        /\ until' = [k \in Keys |-> IF file[k] > 0 THEN file[k] ELSE None]
        /\ answer' = "none"
        /\ UNCHANGED <<setter, reader, file, history>>

Less(m)    == IF m > 0 THEN m - 1 ELSE m
LessMap(f) == [k \in Keys |-> Less(f[k])]

Elapse ==
  /\ until' = LessMap(until)
  /\ file' = LessMap(file)
  /\ promise' = LessMap(promise)
  /\ setter' = IF setter.pc = "write" THEN [setter EXCEPT !.data = LessMap(@)] ELSE setter
  /\ reader' = IF reader.pc = "compare" THEN [reader EXCEPT !.deadline = Less(@)] ELSE reader
  /\ seen' = IF reader.pc # "idle" /\ promise'[reader.key] = 0 THEN seen \cup {"calm"} ELSE seen
  /\ answer' = "none"
  /\ UNCHANGED <<up, evicted, unsaved>>

----------------------------------------------------------------------------
NextSnooze == \/ \E k \in Keys, d \in Durations : SetWrites(k, d)
              \/ \E k \in Keys : ClearDeletes(k)
              \/ SetMarshals \/ SetStores
              \/ \E k \in Keys : ActiveReads(k)
              \/ ActiveCompares \/ ActiveEvicts
              \/ Crash \/ Load \/ Elapse

SpecSnooze == InitSnooze /\ [][NextSnooze]_snoozeVars

----------------------------------------------------------------------------
\* Every variable holds a value of its type; no key stays snoozed for longer
\* than the longest button, however often it is pressed.
SnoozeTypeOK == /\ up \in BOOLEAN
                /\ until \in Map /\ file \in Map
                /\ setter.pc \in {"idle", "marshal", "write"}
                /\ reader.pc \in {"idle", "compare", "evict"}
                /\ answer \in {"none", "yes", "no"}
                /\ promise \in [Keys -> 0 .. Longest]
                /\ evicted \subseteq Keys
                /\ unsaved \in BOOLEAN
                /\ seen \subseteq {"muted", "calm"}

\* A snooze that was granted stays in force for as long as it was granted,
\* through interleaved calls, saves of other keys, crashes and restarts, and
\* none lasts longer: the only thing that takes one back is the eviction that
\* overtook it.
GrantedIsInForce ==
  up => \A k \in Keys \ evicted :
          (Snoozed(k) \/ until[k] > 0) => until[k] = promise[k]

\* Once the button's reply is out the snooze is on disk, unless writing failed.
GrantedIsOnDisk ==
  up /\ setter.pc = "idle" /\ ~unsaved =>
    \A k \in Keys \ evicted : Snoozed(k) => file[k] = promise[k]

\* Whatever Set and the clock do between Active's accesses, what it answers
\* was true of the key at some moment of the call, unless the call ends in the
\* eviction of a running snooze.
AnswersAreHonest ==
  [][/\ answer' = "no"  => "calm" \in seen' \/ evicted' # evicted
     /\ answer' = "yes" => "muted" \in seen']_snoozeVars
=============================================================================
