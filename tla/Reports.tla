------------------------------- MODULE Reports ------------------------------
(***************************************************************************)
(* The incident reports (pkg/report/report.go): one file for each, named   *)
(* after the local time of its generation, to the second.  The list of     *)
(* recent reports is the sorted directory; the report that the repository  *)
(* ships is called INCIDENT_..., which sorts above every INC-... .         *)
(***************************************************************************)
EXTENDS Integers, FiniteSets

CONSTANTS
  Seconds,   \* bound: how many seconds the model lasts
  Texts,
  Cut,       \* a text that was cut short
  Limit      \* how many reports ListRecent lists

VARIABLES
  up,
  now,
  files,     \* the texts of m.dir, by name
  made       \* history: what Generate reported as saved, with its second, less
             \* what a later call in the same second has replaced

vars == <<up, now, files, made>>

Shipped == Seconds + 1
None    == "none"

Init == /\ up = FALSE /\ now = 0
        /\ files = [id \in {Shipped} |-> None]
        /\ made = {}

\* Mutant: a name that leaves out the seconds.
IncidentIDByMinute(t) == t \div 60

IncidentID(t) == t

Stored(text) == [id \in DOMAIN files \cup {IncidentID(now)} |->
                   IF id = IncidentID(now) THEN text ELSE files[id]]
Earlier == {m \in made : m.at # now}

Generate(text) ==
  /\ up
  /\ files' = Stored(text)
  /\ made' = Earlier \cup {[at |-> now, text |-> text]}
  /\ UNCHANGED <<up, now>>

GenerateFails ==
  /\ up
  /\ \/ UNCHANGED <<files, made>>
     \/ files' = Stored(Cut) /\ made' = Earlier
  /\ UNCHANGED <<up, now>>

\* The sorted directory, cut to the limit.
ListRecent ==
  {id \in DOMAIN files : Cardinality({i \in DOMAIN files : i > id}) < Limit}

NextSecond == /\ now < Seconds /\ now' = now + 1
              /\ UNCHANGED <<up, files, made>>

Boot  == ~up /\ up' = TRUE /\ UNCHANGED <<now, files, made>>
Crash == up /\ up' = FALSE /\ UNCHANGED <<now, files, made>>
CrashGenerating(text) ==
  /\ up /\ up' = FALSE
  /\ files' \in {Stored(Cut), Stored(text)}
  /\ made' = Earlier
  /\ UNCHANGED now

Call == GenerateFails \/ \E text \in Texts : Generate(text)
CrashInCall == \E text \in Texts : CrashGenerating(text)

Next == Boot \/ Call \/ NextSecond \/ Crash \/ CrashInCall

Spec == Init /\ [][Next]_vars

----------------------------------------------------------------------------
\* Every variable holds a value of its type.
TypeOK == /\ up \in BOOLEAN /\ now \in 0 .. Seconds
          /\ \A id \in DOMAIN files \ {Shipped} :
               id \in 0 .. Seconds /\ files[id] \in Texts \cup {Cut}
          /\ made \subseteq [at : 0 .. Seconds, text : Texts]

\* gemini.go:402, "Successfully generated and saved": such a report is in its
\* file until another is written in the same second.
ReportsAreKept ==
  \A m \in made : /\ IncidentID(m.at) \in DOMAIN files
                  /\ files[IncidentID(m.at)] = m.text

\* "the most recent post-mortem reports": the list leaves out a report only for
\* Limit - 1 later ones, the shipped report having a place of its own.
NewestAreListed ==
  \A m \in made :
    \/ IncidentID(m.at) \in ListRecent
    \/ Cardinality({id \in DOMAIN files \ {Shipped} : id > IncidentID(m.at)}) >= Limit - 1
=============================================================================
