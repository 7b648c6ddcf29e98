--------------------------- MODULE MonitorHistory ---------------------------
(***************************************************************************)
(* Monitor with three history variables that no action reads: how long ago *)
(* every key was last reported, which of these reports the monitor cannot  *)
(* know of any more, and whether the last save failed.                     *)
(***************************************************************************)
EXTENDS Monitor

VARIABLES
  shipped,    \* age of the last report of a key; Never after a /reset
  forgotten,  \* keys whose last report was not in state.json at a restart
  unsaved     \* the last save left state.json as it was

histVars == <<vars, shipped, forgotten, unsaved>>

InitH == /\ Init
         /\ shipped = NeverSent
         /\ forgotten = {}
         /\ unsaved = FALSE

ReportedNow == {k \in Keys : \E page \in Pages : <<k, page>> \in out'}
MonitorLost == mon # "off" /\ mon' = "off"
ResetStep   == updater' = "resetting" \/ (resetCh /\ ~resetCh')

\* What a restart may forget: the checks that do not save, and what was not
\* saved yet or could not be.
Unsaved == {k \in ResourceKeys : unsaved \/ KindOf[k] \in {"disk", "log"}}
             \cup (IF mon \in SavePcs THEN {at} ELSE {})

Record ==
  /\ shipped' = [k \in Keys |-> IF k \in ReportedNow THEN 0
                                ELSE IF ResetStep THEN Never ELSE shipped[k]]
  /\ forgotten' = (forgotten \cup (IF MonitorLost THEN Unsaved ELSE {})) \ ReportedNow
  /\ unsaved' = IF mon \in SavePcs /\ mon' \notin {mon, "off"}
                THEN file' # [restarts |-> restarts, alerts |-> alerts,
                              sentAge |-> sentAge]
                ELSE unsaved

Age ==
  /\ shipped' = OlderMap(shipped)
  /\ UNCHANGED <<forgotten, unsaved>>

NextH == (Step /\ Record) \/ (Clock /\ Age)
SpecH == InitH /\ [][NextH]_histVars

----------------------------------------------------------------------------
Cooled(k) == shipped[k] = Never \/ shipped[k] > Cooldown
Repeats(k) == <<k, KindOf[k]>> \in out'

\* A disk, memory or log alert that can still be known of is not repeated
\* within the cooldown: not by the same monitor, whatever container handlers
\* and resets ran in between, and, for the memory alert, which is saved, not
\* across a panic or a restart of the process either.
CooldownHolds ==
  [][\A k \in ResourceKeys :
       KindOf[k] \in {"disk", "mem", "log"} /\ Repeats(k)
         => Cooled(k) \/ k \in forgotten]_histVars
=============================================================================
