------------------------------ MODULE AuditLog ------------------------------
(***************************************************************************)
(* The audit log (pkg/audit/audit.go, search.go): JSON lines chained by    *)
(* hashes, rotated by size, appended by every goroutine of the bot under   *)
(* one mutex, and re-read for the chain's last hash when the bot starts.   *)
(*                                                                         *)
(* SHA-256 is modelled as injective: the hash of a line is the line's own  *)
(* number, and a line remembers the hash it was chained to.  A line is     *)
(* "whole"; "bare" when its newline was not written; "torn" when only a    *)
(* part of it was; or "garbled" when it was appended to a line without a   *)
(* newline.  The size of a file is its number of lines.                    *)
(***************************************************************************)
EXTENDS Integers, SequencesExt

CONSTANTS
  MaxSize,     \* lines at which the active file is rotated
  MaxFiles,    \* generations kept
  MaxEntries   \* bound: how many events are logged

ASSUME SizesAssumption == /\ MaxSize \in Nat \ {0}
                          /\ MaxFiles \in Nat \ {0}
                          /\ MaxEntries \in Nat

VARIABLES
  up,
  active,     \* audit.log; empty and missing look the same to all readers here
  gens,       \* audit.log.1 .. audit.log.MaxFiles; <<>>: missing
  chainHash,  \* the hash the next line is chained to
  pc, shift,  \* where Log is, and the next generation to shift
  logged,     \* how many events were logged: the last line's number
  disturbed   \* history: a crash inside Log, a rename that failed, or a write
              \* that failed half way or left the active file empty

vars == <<up, active, gens, chainHash, pc, shift, logged, disturbed>>

Start == 0                           \* the empty hash
Line(n, prev, form) == [hash |-> n, prev |-> prev, form |-> form]
Parses(line) == line.form \in {"whole", "bare"}
Ended(line)  == line.form \in {"whole", "garbled"}

Init == /\ up = FALSE
        /\ active = <<>> /\ gens = [i \in 1 .. MaxFiles |-> <<>>]
        /\ chainHash = Start
        /\ pc = "idle" /\ shift = 0
        /\ logged = 0
        /\ disturbed = FALSE

----------------------------------------------------------------------------
(* Boot: SetPath and seedChainHash, which only a parsable last line sets.  *)

\* Mutant: the chain starts anew at every boot.
BootUnseeded == /\ ~up /\ up' = TRUE
                /\ chainHash' = Start
                /\ UNCHANGED <<active, gens, pc, shift, logged, disturbed>>

Boot == /\ ~up /\ up' = TRUE
        /\ chainHash' = IF active # <<>> /\ Parses(active[Len(active)])
                        THEN active[Len(active)].hash ELSE Start
        /\ UNCHANGED <<active, gens, pc, shift, logged, disturbed>>

----------------------------------------------------------------------------
(* Log, one step per system call.  The mutex keeps every other Log out.    *)

LogStarts ==
  /\ up /\ pc = "idle" /\ logged < MaxEntries
  /\ logged' = logged + 1
  /\ pc' = IF Len(active) < MaxSize THEN "append" ELSE "remove"
  /\ UNCHANGED <<up, active, gens, chainHash, shift, disturbed>>

\* Every call of a rotation may fail, and the next one is made all the same.
Fails == UNCHANGED <<active, gens>> /\ disturbed' = TRUE

RotateRemoves ==
  /\ pc = "remove"
  /\ \/ gens' = [gens EXCEPT ![MaxFiles] = <<>>] /\ UNCHANGED <<active, disturbed>>
     \/ Fails
  /\ shift' = MaxFiles - 1
  /\ pc' = IF MaxFiles = 1 THEN "rename" ELSE "shift"
  /\ UNCHANGED <<up, chainHash, logged>>

\* A missing generation has nothing to rename.
Shifted(i) == IF gens[i] = <<>> THEN gens
              ELSE [gens EXCEPT ![i + 1] = gens[i], ![i] = <<>>]

\* Mutant: the generations are shifted from the youngest.
RotateShiftsUpwards ==
  /\ pc = "shift"
  /\ gens' = Shifted(MaxFiles - shift)
  /\ shift' = shift - 1
  /\ pc' = IF shift = 1 THEN "rename" ELSE "shift"
  /\ UNCHANGED <<up, active, chainHash, logged, disturbed>>

RotateShifts ==
  /\ pc = "shift"
  /\ \/ gens' = Shifted(shift) /\ UNCHANGED <<active, disturbed>>
     \/ Fails
  /\ shift' = shift - 1
  /\ pc' = IF shift = 1 THEN "rename" ELSE "shift"
  /\ UNCHANGED <<up, chainHash, logged>>

\* Mutant: the active file is copied and not truncated.
RotateCopies ==
  /\ pc = "rename"
  /\ gens' = [gens EXCEPT ![1] = active]
  /\ pc' = "append"
  /\ UNCHANGED <<up, active, chainHash, shift, logged, disturbed>>

RotateRenames ==
  /\ pc = "rename"
  /\ \/ gens' = [gens EXCEPT ![1] = active] /\ active' = <<>> /\ UNCHANGED disturbed
     \/ Fails
  /\ pc' = "append"
  /\ UNCHANGED <<up, chainHash, shift, logged>>

\* What `written` bytes of the new line look like at the end of the file.
Appended(form) ==
  IF active # <<>> /\ ~Ended(active[Len(active)])
  THEN [active EXCEPT ![Len(active)].form = IF form = "whole" THEN "garbled" ELSE "torn"]
  ELSE Append(active, Line(logged, chainHash, form))

\* Mutant: the chain advances before it is known whether the write succeeded.
LogAppendsEagerly ==
  /\ pc = "append"
  /\ \/ active' = Appended("whole") /\ UNCHANGED disturbed
     \/ UNCHANGED <<active, disturbed>>
     \/ \E form \in {"bare", "torn"} : active' = Appended(form) /\ disturbed' = TRUE
  /\ chainHash' = logged
  /\ pc' = "idle"
  /\ UNCHANGED <<up, gens, shift, logged>>

\* The write succeeds; opening or writing fails with nothing written; or the
\* write fails half way.  chainHash follows only the first.
LogAppends ==
  /\ pc = "append"
  /\ \/ active' = Appended("whole") /\ chainHash' = logged /\ UNCHANGED disturbed
     \/ UNCHANGED <<active, chainHash>> /\ disturbed' = (disturbed \/ active = <<>>)
     \/ \E form \in {"bare", "torn"} :
          active' = Appended(form) /\ disturbed' = TRUE /\ UNCHANGED chainHash
  /\ pc' = "idle"
  /\ UNCHANGED <<up, gens, shift, logged>>

\* The process may die between any two system calls, or inside the write.
Crash ==
  /\ up /\ up' = FALSE
  /\ \/ UNCHANGED active
     \/ pc = "append" /\ \E form \in {"whole", "bare", "torn"} : active' = Appended(form)
  /\ chainHash' = Start
  /\ pc' = "idle" /\ shift' = 0
  /\ disturbed' = (disturbed \/ pc # "idle")
  /\ UNCHANGED <<gens, logged>>

Log  == LogStarts \/ RotateRemoves \/ RotateShifts \/ RotateRenames \/ LogAppends
Next == Boot \/ Log \/ Crash

Spec == Init /\ [][Next]_vars

----------------------------------------------------------------------------
(* Verify, which reads the active file without the mutex. *)

\* Verify: the position of the first line that does not continue the chain
\* from the empty hash, 0 if every line does.  The hash of a line is computed
\* from the event that was read, marshalled once more: a line that Log wrote is
\* taken to give the bytes it was hashed from.
Verify ==
  LET Breaks(i) == \/ ~Parses(active[i])
                   \/ active[i].prev # (IF i = 1 THEN Start ELSE active[i - 1].hash)
      broken == {i \in 1 .. Len(active) : Breaks(i)}
  IN  IF broken = {} THEN 0 ELSE CHOOSE i \in broken : \A j \in broken : i <= j

----------------------------------------------------------------------------
(* What /audit shows: the newest lines of the active file that match.  Lines *)
(* that do not parse are skipped; the reader does not hold the mutex, and    *)
(* between the rename and the append of a rotation it finds no file.         *)

ReadAll == {i \in DOMAIN active : Parses(active[i])}

\* Mutant: the first of the lines are taken.
NewestFromTop(found, limit) ==
  [n \in 1 .. limit \cap 1 .. Cardinality(found) |->
     active[CHOOSE i \in found : Cardinality({j \in found : j < i}) = n - 1]]

Newest(found, limit) ==
  [n \in 1 .. limit \cap 1 .. Cardinality(found) |->
     active[CHOOSE i \in found : Cardinality({j \in found : j > i}) = n - 1]]

\* Recent, and Search with an empty query; Search and ByActor, a query being the
\* set of the lines that match it.
Recent(limit) == Newest(ReadAll, limit)
Search(matches, limit) == Newest({i \in ReadAll : active[i] \in matches}, limit)

----------------------------------------------------------------------------
Lines == [hash : 1 .. MaxEntries, prev : 0 .. MaxEntries,
          form : {"whole", "bare", "torn", "garbled"}]

\* Every variable holds a value of its type.
TypeOK == /\ up \in BOOLEAN
          /\ active \in Seq(Lines)
          /\ gens \in [1 .. MaxFiles -> Seq(Lines)]
          /\ chainHash \in 0 .. MaxEntries
          /\ pc \in {"idle", "remove", "shift", "rename", "append"}
          /\ shift \in 0 .. MaxFiles - 1
          /\ logged \in 0 .. MaxEntries
          /\ disturbed \in BOOLEAN

\* Whatever step of a rotation the process dies in, the lines on disk, read
\* from the oldest generation to the active file, are in the order they were
\* logged, none twice: the files can be concatenated to reconstruct events.
File(i) == IF i = 0 THEN active ELSE gens[i]
RetainedInOrder ==
  \A i, j \in 0 .. MaxFiles : \A p \in DOMAIN File(i), q \in DOMAIN File(j) :
    i > j \/ (i = j /\ p < q) => File(i)[p].hash < File(j)[q].hash

\* audit.go:120, "Each entry is hashed against the previous entry's hash to form
\* a tamper-evident chain": across rotations, restarts and failed writes that
\* wrote nothing, every line is chained to the line before it.
NextOlder(i, j) == i > j /\ File(i) # <<>> /\ \A k \in j + 1 .. i - 1 : File(k) = <<>>
ChainIsUnbroken ==
  ~disturbed =>
    \A j \in 0 .. MaxFiles : \A q \in DOMAIN File(j) :
      /\ File(j)[q].form = "whole"
      /\ q > 1 => File(j)[q].prev = File(j)[q - 1].hash
      /\ q = 1 => \A i \in 0 .. MaxFiles :
                    NextOlder(i, j) => File(j)[1].prev = Last(File(i)).hash

\* Until the first rotation an undisturbed log verifies, at any moment.
UnrotatedLogVerifies ==
  (~disturbed /\ \A i \in 1 .. MaxFiles : gens[i] = <<>>) => Verify = 0

\* An undisturbed log loses a line only when MaxFiles younger files exist:
\* rotation drops the oldest generation and nothing else (audit.go:96).
Hashes(lines) == {lines[p].hash : p \in DOMAIN lines}
OnDisk == UNION {Hashes(File(i)) : i \in 0 .. MaxFiles}
OnlyTheOldestIsDropped ==
  [][\/ OnDisk \subseteq OnDisk' \/ disturbed
     \/ /\ pc = "remove" /\ \A i \in 1 .. MaxFiles : gens[i] # <<>>
        /\ OnDisk \ OnDisk' \subseteq Hashes(gens[MaxFiles])]_vars

\* search.go:66, "what did this operator do?": the last event that was
\* written is the first that /audit shows, by whatever query it matches, over
\* failed writes, rotations and restarts, though rotated files are not searched.
LastEventIsFound ==
  up /\ pc = "idle" /\ ~disturbed /\ chainHash # Start =>
    LET newest == {line \in Range(active) : line.hash = chainHash}
        Shows(found) == 1 \in DOMAIN found /\ found[1] \in newest
    IN  Shows(Recent(1)) /\ Shows(Search(newest, 1))

----------------------------------------------------------------------------
(* What the documentation says and the code does not do. *)

\* handlers/audit.go:173 reports a broken chain as "Someone touched audit.log":
\* a log that only Log has written, and completely, verifies.
OwnLogVerifies == ~disturbed => Verify = 0
=============================================================================
