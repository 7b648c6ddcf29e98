------------------------------- MODULE Skills -------------------------------
(***************************************************************************)
(* The procedural skills (pkg/skills/skills.go): one markdown file for     *)
(* each in a directory, and the manager's map from names to skills, filled *)
(* from the directory at boot and kept beside it afterwards.  A skill's    *)
(* name is what its file's front matter says, and without one the file's   *)
(* own; a file that SaveSkill writes is named after its skill.             *)
(*                                                                         *)
(* A file is the name and the text that parseSkillFile finds in it, the    *)
(* description being part of the text.  The manager's lock is held         *)
(* throughout a call.                                                      *)
(***************************************************************************)
EXTENDS Integers, SequencesExt

CONSTANTS
  Names,    \* the names that calls carry and files claim
  Clean,    \* a name with dashes for its spaces
  Stems,    \* the names of files, as ReadDir sorts them
  Texts,
  Cut,      \* a text that was cut short, or is empty
  Stub      \* the name in a front matter that was cut inside its name

VARIABLES
  up,
  cache,    \* m.skills
  dir,      \* the files of m.skillsDir
  saved,    \* history: what SaveSkill last reported as saved, less what a
            \* failed write, a crash or a deletion has cost
  lag       \* history: since boot, a file has borne another skill's name or
            \* a failed write has changed a file behind the map

vars == <<up, cache, dir, saved, lag>>

Empty == <<>>
Without(f, keys) == Restrict(f, DOMAIN f \ keys)
With(f, key, value) ==
  [k \in DOMAIN f \cup {key} |-> IF k = key THEN value ELSE f[k]]

Foreign(files) == \E s \in DOMAIN files : files[s].name # s
Claims(name, files) ==
  {i \in DOMAIN Stems : Stems[i] \in DOMAIN files /\ files[Stems[i]].name = name}

\* The shipped and hand-written files; these may claim any name.  Bound: one.
Init == /\ up = FALSE
        /\ cache = Empty
        /\ dir \in UNION {[files -> [name : Names, text : Texts]] :
                            files \in {F \in SUBSET Range(Stems) : Cardinality(F) <= 1}}
        /\ saved = Empty /\ lag = FALSE

----------------------------------------------------------------------------
\* Mutant: the first file that claims a name has it.
ReloadedFirst(files) ==
  [name \in {files[s].name : s \in DOMAIN files} |->
     LET s == Stems[Min(Claims(name, files))] IN [file |-> s, text |-> files[s].text]]

\* Reload: the last file that claims a name has it.
Reloaded(files) ==
  [name \in {files[s].name : s \in DOMAIN files} |->
     LET s == Stems[Max(Claims(name, files))] IN [file |-> s, text |-> files[s].text]]

Reload == /\ ~up /\ up' = TRUE
          /\ cache' = Reloaded(dir)
          /\ lag' = Foreign(dir)
          /\ UNCHANGED <<dir, saved>>

\* Mutant: the map is keyed by the name as it was given.
SaveSkillAsGiven(name, text) ==
  /\ up
  /\ LET s == Clean[name] IN
       /\ dir'   = With(dir, s, [name |-> s, text |-> text])
       /\ cache' = With(cache, name, [file |-> s, text |-> text])
       /\ saved' = With(saved, s, text)
  /\ UNCHANGED <<up, lag>>

SaveSkill(name, text) ==
  /\ up
  /\ LET s == Clean[name] IN
       /\ dir'   = With(dir, s, [name |-> s, text |-> text])
       /\ cache' = With(cache, s, [file |-> s, text |-> text])
       /\ saved' = With(saved, s, text)
  /\ UNCHANGED <<up, lag>>

\* What a write to the truncated file that is cut short leaves of it.
Torn(s) == {With(dir, s, [name |-> n, text |-> Cut]) : n \in {s, Stub}}

\* WriteFile cannot open the file, or cannot write all of it: the map stays.
SaveFails(name) ==
  /\ up
  /\ LET s == Clean[name] IN
       \/ UNCHANGED <<dir, saved, lag>>
       \/ dir' \in Torn(s) /\ saved' = Without(saved, {s}) /\ lag' = TRUE
  /\ UNCHANGED <<up, cache>>

\* DeleteSkill removes the file the skill was read from or written to, which
\* may by now hold another one.
DeleteSkill(name) ==
  /\ up /\ name \in DOMAIN cache
  /\ LET s == cache[name].file IN
       /\ dir'   = Without(dir, {s})
       /\ saved' = Without(saved, {s, name})
  /\ cache' = Without(cache, {name})
  /\ UNCHANGED <<up, lag>>

Crash == /\ up /\ up' = FALSE
         /\ cache' = Empty
         /\ UNCHANGED <<dir, saved, lag>>

CrashSaving(name, text) ==
  /\ up /\ up' = FALSE
  /\ cache' = Empty
  /\ LET s == Clean[name] IN
       /\ dir' \in Torn(s) \cup {With(dir, s, [name |-> s, text |-> text])}
       /\ saved' = Without(saved, {s})
  /\ UNCHANGED lag

Call == \E name \in Names :
          \/ SaveFails(name) \/ DeleteSkill(name)
          \/ \E text \in Texts : SaveSkill(name, text)
CrashInCall == \E name \in Names, text \in Texts : CrashSaving(name, text)

Next == Reload \/ Call \/ Crash \/ CrashInCall

Spec == Init /\ [][Next]_vars

----------------------------------------------------------------------------
\* Every variable holds a value of its type.
TypeOK == /\ up \in BOOLEAN /\ lag \in BOOLEAN
          /\ DOMAIN cache \subseteq Names
          /\ \A n \in DOMAIN cache :
               cache[n] \in [file : Range(Stems), text : Texts \cup {Cut}]
          /\ DOMAIN dir \subseteq Range(Stems)
          /\ \A s \in DOMAIN dir : dir[s] \in [name : Names, text : Texts \cup {Cut}]
          /\ DOMAIN saved \subseteq Range(Stems) /\ Range(saved) \subseteq Texts

\* skills.go:159, "creates or updates a skill file on disk and updates the
\* in-memory cache": over saves and deletions, under names with and without
\* spaces, the map is what a reload would make of the directory, so that
\* /skills, which builds a manager of its own, shows what the agent has.
SkillsAgree == up /\ ~lag => cache = Reloaded(dir)

\* A skill that was reported as saved is what its name stands for, over
\* restarts, torn writes of others and deletions, unless the map has it from a
\* file further down the directory, which claimed the name when it was read.
After(file, s) == \E i \in DOMAIN Stems :
                    Stems[i] = file /\ ~\E j \in i .. Len(Stems) : Stems[j] = s
SavedSkillsSurvive ==
  up => \A s \in DOMAIN saved :
          /\ s \in DOMAIN cache
          /\ cache[s].text = saved[s] \/ After(cache[s].file, s)
=============================================================================
