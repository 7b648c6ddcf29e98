---------------------------- MODULE MemoryStore -----------------------------
(***************************************************************************)
(* The AI's persistent memory (pkg/memory/memory.go): a list of facts, and *)
(* a markdown file that is rewritten as a whole for every new fact and     *)
(* read when the bot starts.  The store's lock is held throughout a call.  *)
(*                                                                         *)
(* A text is a sequence of lines; a line is a word, which stands for its   *)
(* whole content up to upper and lower case and without the time stamp,    *)
(* and whether it starts with "- "; the first line's word includes its     *)
(* own.  The file's header has no line that starts with "- ".              *)
(***************************************************************************)
EXTENDS Integers, SequencesExt

CONSTANTS
  Words,
  Cut,       \* what is left of a line that was cut short, if it is not a word
  Remains,   \* what a cut may leave of a word: Cut, or a shorter word
  Texts      \* what SaveFact is given

VARIABLES
  up,
  facts,     \* the store
  file,      \* the lines of SRE_FACTS.md after its header
  saving,    \* the text whose SaveFact is between the list and the file
  saved,     \* history: the texts SaveFact reported as saved, less those that a
             \* failed write has cost
  stale,     \* history: the last write of the file did not succeed
  strays     \* history: the words that the file may have had more than once, as
             \* what a cut left of a line, or as a line of a text of several

vars == <<up, facts, file, saving, saved, stale, strays>>

Nothing == <<>>

Lines == [bullet : BOOLEAN, word : Words]
ASSUME TextsAssumption == /\ Cut \notin Words
                          /\ \A text \in Texts : text \in Seq(Lines) /\ text # Nothing
                          /\ \A text \in Texts : ~text[1].bullet
                          /\ Remains \in [Words \cup {Cut} -> SUBSET (Words \cup {Cut})]

Bullet(word) == [bullet |-> TRUE, word |-> word]
Plain(word)  == [bullet |-> FALSE, word |-> word]

\* A fact is written behind a "- ", and a line that has one is read as a fact.
Written(text) == <<Bullet(text[1].word)>> \o Tail(text)
Rendered(list) == FlattenSeq([i \in DOMAIN list |-> Written(list[i])])
IsBullet(line) == line.bullet
Read(list, line) == IF IsBullet(line) THEN Append(list, <<Plain(line.word)>>) ELSE list
Loaded(lines) ==
  LET read[n \in 0 .. Len(lines)] == IF n = 0 THEN <<>> ELSE Read(read[n - 1], lines[n])
  IN  read[Len(lines)]

\* The words that the lines of a text give to facts of their own, and the list
\* that `list` is after it was written and read: a text of one line is itself.
FactWords(text) == {line.word : line \in {l \in Range(Written(text)) : IsBullet(l)}}
AsRead(list) == FlattenSeq([i \in DOMAIN list |-> Loaded(Written(list[i]))])

Init == /\ up = FALSE
        /\ facts = <<>> /\ file = <<>>
        /\ saving = Nothing
        /\ saved = {} /\ stale = FALSE /\ strays = {}

----------------------------------------------------------------------------
\* NewStore and Load.
Load == /\ ~up /\ up' = TRUE
        /\ facts' = Loaded(file)
        /\ saved' = IF stale THEN saved \cap Range(facts') ELSE saved
        /\ UNCHANGED <<file, saving, stale, strays>>

\* Mutant: only the last fact is compared.
AlreadySavedLast(text) == facts # <<>> /\ facts[Len(facts)] = text

\* SaveFact.  A text that is in the list was saved already.
AlreadySaved(text) == \E i \in DOMAIN facts : facts[i] = text

SaveAgain(text) ==
  /\ up /\ saving = Nothing
  /\ AlreadySaved(text)
  /\ saved' = saved \cup {text}
  /\ UNCHANGED <<up, facts, file, saving, stale, strays>>

SaveAppends(text) ==
  /\ up /\ saving = Nothing
  /\ ~AlreadySaved(text)
  /\ facts' = Append(facts, text)
  /\ saving' = text
  /\ strays' = IF Len(text) = 1 THEN strays ELSE strays \cup FactWords(text)
  /\ UNCHANGED <<up, file, saved, stale>>

\* Mutant: the new fact is appended to a file that was not brought up to date.
SaveStoresOnlyNew ==
  /\ saving # Nothing /\ saving' = Nothing
  /\ file' = file \o Written(saving)
  /\ saved' = saved \cup {saving}
  /\ stale' = FALSE
  /\ UNCHANGED <<up, facts, strays>>

\* Mutant: the file gets the list as it was before the new fact.
SaveStoresEarly ==
  /\ saving # Nothing /\ saving' = Nothing
  /\ file' = Rendered(Front(facts))
  /\ saved' = saved \cup {saving}
  /\ stale' = FALSE
  /\ UNCHANGED <<up, facts, strays>>

SaveStores ==
  /\ saving # Nothing /\ saving' = Nothing
  /\ file' = Rendered(facts)
  /\ saved' = saved \cup {saving}
  /\ stale' = FALSE
  /\ UNCHANGED <<up, facts, strays>>

\* A write that is cut short leaves a part of the lines in the truncated file,
\* and perhaps the beginning of the next; if that does not start with "- ", it
\* is the same as no line.
Tears(lines) ==
  \E n \in 0 .. Len(lines) :
    \/ file' = SubSeq(lines, 1, n) /\ UNCHANGED strays
    \/ /\ n < Len(lines) /\ IsBullet(lines[n + 1])
       /\ \E left \in Remains[lines[n + 1].word] :
            /\ file' = SubSeq(lines, 1, n) \o <<Bullet(left)>>
            /\ strays' = strays \cup {left}

\* WriteFile cannot open the file, or cannot write all of it.  The error is
\* returned; the fact stays in the list.
SaveFails ==
  /\ saving # Nothing /\ saving' = Nothing
  /\ UNCHANGED <<file, strays>> \/ Tears(Rendered(facts))
  /\ stale' = TRUE
  /\ UNCHANGED <<up, facts, saved>>

Clear ==
  /\ up /\ saving = Nothing
  /\ facts' = <<>>
  /\ \/ file' = <<>> /\ stale' = FALSE /\ strays' = {}
     \/ UNCHANGED <<file, strays>> /\ stale' = TRUE
  /\ saved' = {}
  /\ UNCHANGED <<up, saving>>

Crash ==
  /\ up /\ up' = FALSE
  /\ facts' = <<>> /\ saving' = Nothing
  /\ \/ UNCHANGED <<file, stale, strays>>
     \/ saving # Nothing /\ Tears(Rendered(facts)) /\ stale' = TRUE
     \/ saving # Nothing /\ file' = Rendered(facts) /\ stale' = FALSE /\ UNCHANGED strays
  /\ UNCHANGED saved

Next == \/ Load \/ SaveStores \/ SaveFails \/ Clear \/ Crash
        \/ \E text \in Texts : SaveAgain(text) \/ SaveAppends(text)

Spec == Init /\ [][Next]_vars

----------------------------------------------------------------------------
\* Every variable holds a value of its type.
TypeOK == /\ up \in BOOLEAN
          /\ facts \in Seq(Seq([bullet : BOOLEAN, word : Words \cup {Cut}]))
          /\ file \in Seq([bullet : BOOLEAN, word : Words \cup {Cut}])
          /\ saving \in Texts \cup {Nothing}
          /\ saved \subseteq Texts
          /\ stale \in BOOLEAN
          /\ strays \subseteq Words \cup {Cut}

\* memory.go:93, "Avoid duplicates": over restarts and failed writes, no text is
\* in the list twice.  A text of several lines is compared as a whole and read
\* back line by line, and what is left of a cut line is a fact as well: the words
\* they bring into the file are excepted.
NoDuplicates ==
  \A i, j \in DOMAIN facts :
    facts[i] = facts[j] /\ facts[i][1].word \notin strays => i = j

\* memory.go:20, "loads existing facts": once a write has succeeded a restart
\* finds the list it left, in its order, whatever had failed before.  Of a text
\* of several lines it finds the first, and those that start with "- " as facts
\* of their own; the others are lost.
RestartKeepsTheList == up /\ ~stale /\ saving = Nothing => Loaded(file) = AsRead(facts)

\* memory.go:78, "SaveFact appends a new durable fact": what SaveFact reported
\* as saved, be it because it was there already, is in the file, across
\* restarts, unless the last write failed.
SavedIsDurable ==
  up /\ saving = Nothing /\ ~stale =>
    \A text \in saved : \E i \in DOMAIN file : file[i] = Bullet(text[1].word)
=============================================================================
