--------------------------- MODULE AuditLogProofs ---------------------------
(* Proofs about AuditLog for any sizes, generations and number of events. *)
EXTENDS AuditLog, SequenceTheorems, FiniteSetTheorems, TLAPS

(* The files as a function from their generation, the active file being 0. *)
Numbers == 0 .. MaxFiles
Files   == [i \in Numbers |-> File(i)]

Ordered(f) ==
  \A i, j \in Numbers : \A p \in DOMAIN f[i], q \in DOMAIN f[j] :
    i > j \/ (i = j /\ p < q) => f[i][p].hash < f[j][q].hash

Older(f, i, j) == i > j /\ f[i] # <<>> /\ \A k \in j + 1 .. i - 1 : f[k] = <<>>
Chained(f) ==
  \A j \in Numbers : \A q \in DOMAIN f[j] :
    /\ f[j][q].form = "whole"
    /\ q > 1 => f[j][q].prev = f[j][q - 1].hash
    /\ q = 1 => \A i \in Numbers : Older(f, i, j) => f[j][1].prev = Last(f[i]).hash

\* f with the file of generation n one generation older.
Moved(f, n) == [f EXCEPT ![n + 1] = f[n], ![n] = <<>>]

LEMMA NumbersFacts ==
  /\ MaxFiles \in Nat \ {0} /\ MaxSize \in Nat \ {0} /\ MaxEntries \in Nat
  /\ 0 \in Numbers /\ 1 \in Numbers /\ MaxFiles \in Numbers
  /\ \A i \in Numbers : i \in Nat
  /\ \A i \in 1 .. MaxFiles : i \in Numbers
  BY SizesAssumption DEF Numbers

LEMMA FilesFacts ==
  /\ Files[0] = active
  /\ \A i \in 1 .. MaxFiles : Files[i] = gens[i]
  /\ RetainedInOrder <=> Ordered(Files)
  /\ ChainIsUnbroken <=> (~disturbed => Chained(Files))
<1>1. \A i \in Numbers : Files[i] = File(i)
  BY DEF Files
<1>2. Files[0] = active /\ \A i \in 1 .. MaxFiles : Files[i] = gens[i]
  BY <1>1, NumbersFacts DEF File
<1>3. RetainedInOrder <=> Ordered(Files)
  BY <1>1 DEF RetainedInOrder, Ordered, Numbers
<1>4. ASSUME NEW i \in Numbers, NEW j \in Numbers PROVE NextOlder(i, j) <=> Older(Files, i, j)
  <2>1. \A k \in j + 1 .. i - 1 : k \in Numbers
    BY <1>4, NumbersFacts DEF Numbers
  <2> QED
    BY <1>1, <1>4, <2>1 DEF NextOlder, Older
<1>5. ChainIsUnbroken <=> (~disturbed => Chained(Files))
  BY <1>1, <1>4 DEF ChainIsUnbroken, Chained, Numbers
<1> QED
  BY <1>2, <1>3, <1>5

LEMMA MovedFacts ==
  ASSUME NEW S, NEW f \in [Numbers -> S], NEW n \in 0 .. MaxFiles - 1
  PROVE  /\ n \in Numbers /\ n + 1 \in Numbers
         /\ Moved(f, n)[n] = <<>> /\ Moved(f, n)[n + 1] = f[n]
         /\ \A i \in Numbers : i # n /\ i # n + 1 => Moved(f, n)[i] = f[i]
<1>1. n \in Numbers /\ n + 1 \in Numbers /\ n # n + 1
  BY NumbersFacts DEF Numbers
<1> QED
  BY <1>1 DEF Moved

\* Moving a file one generation back keeps the order of what is left.
LEMMA MovedOrdered ==
  ASSUME NEW S, NEW f \in [Numbers -> S], NEW n \in 0 .. MaxFiles - 1, Ordered(f)
  PROVE  Ordered(Moved(f, n))
<1> DEFINE g == Moved(f, n)
<1>1. /\ n \in Numbers /\ n + 1 \in Numbers /\ n \in Nat
      /\ g[n] = <<>> /\ g[n + 1] = f[n]
      /\ \A i \in Numbers : i # n /\ i # n + 1 => g[i] = f[i]
      /\ \A i \in Numbers : i \in Nat
  BY MovedFacts, NumbersFacts
<1> HIDE DEF g
<1> SUFFICES ASSUME NEW i \in Numbers, NEW j \in Numbers,
                    NEW p \in DOMAIN g[i], NEW q \in DOMAIN g[j],
                    i > j \/ (i = j /\ p < q)
             PROVE  g[i][p].hash < g[j][q].hash
  BY DEF Ordered, g
<1>2. i # n /\ j # n
  BY <1>1
<1> DEFINE was(k) == IF k = n + 1 THEN n ELSE k
<1>3. g[i] = f[was(i)] /\ g[j] = f[was(j)] /\ was(i) \in Numbers /\ was(j) \in Numbers
  BY <1>1, <1>2
<1>4. was(i) > was(j) \/ (was(i) = was(j) /\ p < q)
  BY <1>1, <1>2
<1> QED
  BY <1>3, <1>4 DEF Ordered

\* Moving a file into an empty place keeps every line chained.
LEMMA MovedChained ==
  ASSUME NEW S, NEW f \in [Numbers -> S], NEW n \in 0 .. MaxFiles - 1, Chained(f),
         f[n + 1] = <<>>
  PROVE  Chained(Moved(f, n))
<1> DEFINE g == Moved(f, n)
<1>1. /\ n \in Numbers /\ n + 1 \in Numbers /\ n \in Nat
      /\ g[n] = <<>> /\ g[n + 1] = f[n]
      /\ \A i \in Numbers : i # n /\ i # n + 1 => g[i] = f[i]
      /\ \A i \in Numbers : i \in Nat
  BY MovedFacts, NumbersFacts
<1> HIDE DEF g
<1> DEFINE was(k) == IF k = n + 1 THEN n ELSE k
<1>2. ASSUME NEW i \in Numbers, NEW j \in Numbers, Older(g, i, j), j # n
      PROVE  Older(f, was(i), was(j)) /\ g[i] = f[was(i)] /\ was(i) \in Numbers
  <2>1. i > j /\ g[i] # <<>> /\ \A k \in j + 1 .. i - 1 : g[k] = <<>>
    BY <1>2 DEF Older
  <2>2. i # n /\ g[i] = f[was(i)] /\ was(i) \in Numbers
    BY <1>1, <2>1
  <2>3. was(i) > was(j)
    BY <1>1, <1>2, <2>1, <2>2
  <2>4. ASSUME NEW k \in was(j) + 1 .. was(i) - 1 PROVE f[k] = <<>>
    <3>0. k \in Numbers /\ j \in 0 .. MaxFiles /\ i \in 0 .. MaxFiles /\ n \in 0 .. MaxFiles
      <4>1. was(j) \in 0 .. MaxFiles /\ was(i) \in 0 .. MaxFiles
        BY <1>1, <2>2 DEF Numbers
      <4> QED
        BY <1>1, <2>4, <4>1, NumbersFacts DEF Numbers
    <3>1. CASE k = n
      <4>1. n + 1 \in j + 1 .. i - 1
        BY <1>1, <1>2, <2>2, <2>4, <3>0, <3>1
      <4> QED
        BY <1>1, <2>1, <3>1, <4>1
    <3>2. CASE k = n + 1
      BY <3>2
    <3>3. CASE k # n /\ k # n + 1
      <4>1. k \in j + 1 .. i - 1
        BY <1>1, <2>4, <3>0, <3>3
      <4> QED
        BY <1>1, <2>1, <3>0, <3>3, <4>1
    <3> QED
      BY <3>1, <3>2, <3>3
  <2> QED
    BY <2>1, <2>2, <2>3, <2>4 DEF Older
<1> SUFFICES ASSUME NEW j \in Numbers, NEW q \in DOMAIN g[j]
             PROVE  /\ g[j][q].form = "whole"
                    /\ q > 1 => g[j][q].prev = g[j][q - 1].hash
                    /\ q = 1 => \A i \in Numbers : Older(g, i, j) => g[j][1].prev = Last(g[i]).hash
  BY DEF Chained, g
<1>3. j # n /\ g[j] = f[was(j)] /\ was(j) \in Numbers
  BY <1>1
<1>4. /\ g[j][q].form = "whole"
      /\ q > 1 => g[j][q].prev = g[j][q - 1].hash
  BY <1>3 DEF Chained
<1>5. ASSUME q = 1, NEW i \in Numbers, Older(g, i, j) PROVE g[j][1].prev = Last(g[i]).hash
  <2>1. Older(f, was(i), was(j)) /\ g[i] = f[was(i)] /\ was(i) \in Numbers
    BY <1>2, <1>3, <1>5
  <2> QED
    BY <1>3, <1>5, <2>1 DEF Chained
<1> QED
  BY <1>4, <1>5

\* Dropping the oldest generation keeps the order and the chain.
LEMMA DroppedOldest ==
  ASSUME NEW S, NEW f \in [Numbers -> S]
  PROVE  /\ Ordered(f) => Ordered([f EXCEPT ![MaxFiles] = <<>>])
         /\ Chained(f) => Chained([f EXCEPT ![MaxFiles] = <<>>])
<1> DEFINE g == [f EXCEPT ![MaxFiles] = <<>>]
<1>1. g[MaxFiles] = <<>> /\ \A i \in Numbers : i # MaxFiles => g[i] = f[i]
  BY NumbersFacts
<1> HIDE DEF g
<1>2. Ordered(f) => Ordered(g)
  BY <1>1 DEF Ordered
<1>3. ASSUME NEW i \in Numbers, NEW j \in Numbers, Older(g, i, j) PROVE Older(f, i, j) /\ i # MaxFiles
  <2>1. i # MaxFiles
    BY <1>1, <1>3 DEF Older
  <2>2. \A k \in j + 1 .. i - 1 : k \in Numbers /\ k # MaxFiles
    BY <1>3, NumbersFacts DEF Numbers
  <2> QED
    BY <1>1, <1>3, <2>1, <2>2 DEF Older
<1>4. Chained(f) => Chained(g)
  <2> SUFFICES ASSUME Chained(f), NEW j \in Numbers, NEW q \in DOMAIN g[j]
               PROVE  /\ g[j][q].form = "whole"
                      /\ q > 1 => g[j][q].prev = g[j][q - 1].hash
                      /\ q = 1 => \A i \in Numbers : Older(g, i, j) => g[j][1].prev = Last(g[i]).hash
    BY DEF Chained
  <2>1. g[j] = f[j]
    BY <1>1
  <2> QED
    BY <1>1, <1>3, <2>1 DEF Chained
<1> QED
  BY <1>2, <1>4 DEF g

----------------------------------------------------------------------------
(* Types. *)

\* A rotation is under way only inside Log, for an event that has its number.
Working == /\ pc # "idle" => up /\ logged \in 1 .. MaxEntries
           /\ pc = "shift" => shift \in 1 .. MaxFiles - 1
LogInv == TypeOK /\ Working

LEMMA LineType ==
  ASSUME LogInv, logged \in 1 .. MaxEntries, NEW form \in {"whole", "bare", "torn", "garbled"}
  PROVE  Line(logged, chainHash, form) \in Lines
  BY DEF LogInv, TypeOK, Line, Lines

\* What a write leaves: the lines there were, the last one perhaps marred, or
\* one line more.
LEMMA AppendedFacts ==
  ASSUME LogInv, logged \in 1 .. MaxEntries, NEW form \in {"whole", "bare", "torn"}
  PROVE  /\ Appended(form) \in Seq(Lines)
         /\ \/ /\ DOMAIN Appended(form) = DOMAIN active
               /\ \A p \in DOMAIN active : Appended(form)[p].hash = active[p].hash
            \/ Appended(form) = Append(active, Line(logged, chainHash, form))
<1>1. active \in Seq(Lines) /\ Len(active) \in Nat /\ DOMAIN active = 1 .. Len(active)
  BY DEF LogInv, TypeOK
<1>2. CASE active # <<>> /\ ~Ended(active[Len(active)])
  <2> DEFINE marred == IF form = "whole" THEN "garbled" ELSE "torn"
  <2>1. Appended(form) = [active EXCEPT ![Len(active)].form = marred]
    BY <1>2 DEF Appended
  <2>2. Len(active) \in DOMAIN active /\ active[Len(active)] \in Lines
    BY <1>1, <1>2
  <2>3. [active[Len(active)] EXCEPT !.form = marred] \in Lines
    BY <2>2 DEF Lines
  <2>4. [active[Len(active)] EXCEPT !.form = marred].hash = active[Len(active)].hash
    BY <2>2 DEF Lines
  <2>5. Appended(form) = [active EXCEPT ![Len(active)] = [active[Len(active)] EXCEPT !.form = marred]]
    BY <2>1
  <2>6. Appended(form) \in Seq(Lines)
    BY <1>1, <2>2, <2>3, <2>5, ExceptSeq
  <2>7. DOMAIN Appended(form) = DOMAIN active
    BY <1>1, <2>5
  <2>8. \A p \in DOMAIN active : Appended(form)[p].hash = active[p].hash
    BY <1>1, <2>2, <2>4, <2>5
  <2> QED
    BY <2>6, <2>7, <2>8
<1>3. CASE ~(active # <<>> /\ ~Ended(active[Len(active)]))
  <2>1. Appended(form) = Append(active, Line(logged, chainHash, form))
    BY <1>3 DEF Appended
  <2> QED
    BY <1>1, <2>1, LineType
<1> QED
  BY <1>2, <1>3

LEMMA LogInvariance == ASSUME LogInv, [Next]_vars PROVE LogInv'
<1> USE NumbersFacts
<1>1. /\ active \in Seq(Lines) /\ gens \in [1 .. MaxFiles -> Seq(Lines)]
      /\ chainHash \in 0 .. MaxEntries /\ logged \in 0 .. MaxEntries
      /\ Start \in 0 .. MaxEntries /\ <<>> \in Seq(Lines)
  BY DEF LogInv, TypeOK, Start
<1>2. CASE Boot
  <2>1. active # <<>> => active[Len(active)].hash \in 0 .. MaxEntries
    <3>1. active # <<>> => active[Len(active)] \in Lines
      BY <1>1
    <3> QED
      BY <3>1 DEF Lines
  <2>2. chainHash' \in 0 .. MaxEntries
    BY <1>1, <1>2, <2>1 DEF Boot
  <2> QED
    BY <1>2, <2>2 DEF Boot, LogInv, TypeOK, Working
<1>3. CASE LogStarts
  <2>1. logged' \in 1 .. MaxEntries
    BY <1>1, <1>3 DEF LogStarts
  <2> QED
    BY <1>3, <2>1 DEF LogStarts, LogInv, TypeOK, Working
<1>4. CASE RotateRemoves
  <2>1. gens' \in [1 .. MaxFiles -> Seq(Lines)] /\ active' = active /\ disturbed' \in BOOLEAN
    BY <1>1, <1>4 DEF RotateRemoves, Fails, LogInv, TypeOK
  <2>2. shift' \in 0 .. MaxFiles - 1 /\ (pc' = "shift" => shift' \in 1 .. MaxFiles - 1)
    BY <1>4 DEF RotateRemoves
  <2>3. /\ pc = "remove" /\ pc' \in {"rename", "shift"}
        /\ UNCHANGED <<up, chainHash, logged>>
    BY <1>4 DEF RotateRemoves
  <2> QED
    BY <2>1, <2>2, <2>3 DEF LogInv, TypeOK, Working
<1>5. CASE RotateShifts
  <2>1. shift \in 1 .. MaxFiles - 1 /\ shift' = shift - 1
    BY <1>5 DEF RotateShifts, LogInv, Working
  <2>2. Shifted(shift) \in [1 .. MaxFiles -> Seq(Lines)]
    <3>1. shift \in 1 .. MaxFiles /\ shift + 1 \in 1 .. MaxFiles
      BY <2>1
    <3> QED
      BY <1>1, <3>1 DEF Shifted
  <2>3. gens' \in [1 .. MaxFiles -> Seq(Lines)] /\ active' = active /\ disturbed' \in BOOLEAN
    BY <1>1, <1>5, <2>2 DEF RotateShifts, Fails, LogInv, TypeOK
  <2>4. shift' \in 0 .. MaxFiles - 1 /\ (pc' = "shift" => shift' \in 1 .. MaxFiles - 1)
    BY <1>5, <2>1 DEF RotateShifts
  <2>5. /\ pc = "shift" /\ pc' \in {"rename", "shift"}
        /\ UNCHANGED <<up, chainHash, logged>>
    BY <1>5 DEF RotateShifts
  <2> QED
    BY <2>3, <2>4, <2>5 DEF LogInv, TypeOK, Working
<1>6. CASE RotateRenames
  <2>1. [gens EXCEPT ![1] = active] \in [1 .. MaxFiles -> Seq(Lines)]
    BY <1>1
  <2>2. /\ gens' \in [1 .. MaxFiles -> Seq(Lines)] /\ active' \in Seq(Lines)
        /\ disturbed' \in BOOLEAN
    BY <1>1, <1>6, <2>1 DEF RotateRenames, Fails, LogInv, TypeOK
  <2> QED
    BY <1>6, <2>2 DEF RotateRenames, LogInv, TypeOK, Working
<1>7. CASE LogAppends
  <2>1. logged \in 1 .. MaxEntries
    BY <1>7 DEF LogAppends, LogInv, Working
  <2>2. active' \in Seq(Lines)
    BY <1>1, <1>7, <2>1, AppendedFacts DEF LogAppends
  <2>3. chainHash' \in 0 .. MaxEntries /\ disturbed' \in BOOLEAN
    BY <1>1, <1>7, <2>1 DEF LogAppends, LogInv, TypeOK
  <2> QED
    BY <1>7, <2>2, <2>3 DEF LogAppends, LogInv, TypeOK, Working
<1>8. CASE Crash
  <2>1. active' \in Seq(Lines)
    BY <1>1, <1>8, AppendedFacts DEF Crash, LogInv, Working
  <2> QED
    <3>1. /\ up' = FALSE /\ chainHash' = Start /\ pc' = "idle" /\ shift' = 0
          /\ UNCHANGED <<gens, logged>>
      BY <1>8 DEF Crash
    <3>2. disturbed' \in BOOLEAN
      BY <1>8 DEF Crash, LogInv, TypeOK
    <3>3. 0 \in 0 .. MaxFiles - 1
      OBVIOUS
    <3> QED
      BY <1>1, <2>1, <3>1, <3>2, <3>3 DEF LogInv, TypeOK, Working
<1>9. CASE UNCHANGED vars
  BY <1>9 DEF vars, LogInv, TypeOK, Working
<1> QED
  BY <1>2, <1>3, <1>4, <1>5, <1>6, <1>7, <1>8, <1>9 DEF Next, Log

LEMMA InitLog == Init => LogInv
<1> SUFFICES ASSUME Init PROVE LogInv
  OBVIOUS
<1>1. active \in Seq(Lines) /\ gens \in [1 .. MaxFiles -> Seq(Lines)]
  BY DEF Init
<1>2. 0 \in 0 .. MaxFiles - 1 /\ 0 \in 0 .. MaxEntries
  BY NumbersFacts
<1> QED
  BY <1>1, <1>2 DEF Init, LogInv, TypeOK, Working, Start

\* Every variable keeps to its type.
THEOREM AuditTypeCorrect == Spec => []TypeOK
<1>1. LogInv => TypeOK
  BY DEF LogInv
<1>2. LogInv /\ [Next]_vars => LogInv'
  BY LogInvariance
<1> QED
  BY <1>1, <1>2, InitLog, PTL DEF Spec

----------------------------------------------------------------------------
(* How the steps of the log change the files. *)

LEMMA FilesType == ASSUME LogInv PROVE Files \in [Numbers -> Seq(Lines)]
  BY NumbersFacts DEF LogInv, TypeOK, Files, File, Numbers

LEMMA FilesKept == ASSUME UNCHANGED <<active, gens>> PROVE Files' = Files
  BY DEF Files, File, Numbers

LEMMA FilesWritten ==
  ASSUME UNCHANGED gens
  PROVE  Files' = [Files EXCEPT ![0] = active']
<1>1. Files' = [i \in Numbers |-> IF i = 0 THEN active' ELSE gens[i]]
  BY DEF Files, File, Numbers
<1>2. Files = [i \in Numbers |-> IF i = 0 THEN active ELSE gens[i]]
  BY DEF Files, File
<1> QED
  BY <1>1, <1>2, NumbersFacts

LEMMA FilesDropped ==
  ASSUME LogInv, active' = active, gens' = [gens EXCEPT ![MaxFiles] = <<>>]
  PROVE  Files' = [Files EXCEPT ![MaxFiles] = <<>>]
<1>1. Files' = [i \in Numbers |-> IF i = 0 THEN active ELSE gens'[i]]
  BY DEF Files, File, Numbers
<1>2. Files = [i \in Numbers |-> IF i = 0 THEN active ELSE gens[i]]
  BY DEF Files, File
<1>3. \A i \in Numbers : i # 0 => i \in 1 .. MaxFiles
  BY NumbersFacts DEF Numbers
<1>4. \A i \in 1 .. MaxFiles : gens'[i] = IF i = MaxFiles THEN <<>> ELSE gens[i]
  BY NumbersFacts DEF LogInv, TypeOK
<1> QED
  BY <1>1, <1>2, <1>3, <1>4, NumbersFacts

LEMMA FilesShifted ==
  ASSUME LogInv, active' = active, shift \in 1 .. MaxFiles - 1, gens' = Shifted(shift)
  PROVE  Files' = Files \/ Files' = Moved(Files, shift)
<1>1. CASE gens[shift] = <<>>
  BY <1>1, FilesKept DEF Shifted
<1>2. CASE gens[shift] # <<>>
  <2>1. Files' = [i \in Numbers |-> IF i = 0 THEN active ELSE gens'[i]]
    BY DEF Files, File, Numbers
  <2>2. Files = [i \in Numbers |-> IF i = 0 THEN active ELSE gens[i]]
    BY DEF Files, File
  <2>3. /\ \A i \in Numbers : i # 0 => i \in 1 .. MaxFiles
        /\ shift \in Numbers /\ shift # 0 /\ shift + 1 \in Numbers /\ shift + 1 # 0
        /\ shift + 1 # shift
    BY NumbersFacts DEF Numbers
  <2>4. \A i \in 1 .. MaxFiles :
          gens'[i] = IF i = shift THEN <<>> ELSE IF i = shift + 1 THEN gens[shift] ELSE gens[i]
    BY <1>2, <2>3 DEF LogInv, TypeOK, Shifted
  <2>5. \A i \in Numbers :
          Moved(Files, shift)[i] = IF i = shift THEN <<>>
                                   ELSE IF i = shift + 1 THEN Files[shift] ELSE Files[i]
    <3>1. Files \in [Numbers -> Seq(Lines)] /\ shift \in 0 .. MaxFiles - 1
      BY FilesType, NumbersFacts
    <3>2. /\ Moved(Files, shift)[shift] = <<>> /\ Moved(Files, shift)[shift + 1] = Files[shift]
          /\ \A i \in Numbers : i # shift /\ i # shift + 1 => Moved(Files, shift)[i] = Files[i]
      BY <3>1, MovedFacts
    <3> QED
      BY <3>2
  <2>6. Moved(Files, shift) = [i \in Numbers |-> Moved(Files, shift)[i]]
    <3>1. DOMAIN Files = Numbers
      BY <2>2
    <3>2. DOMAIN Moved(Files, shift) = Numbers
      BY <3>1 DEF Moved
    <3>3. Moved(Files, shift) = [i \in DOMAIN Moved(Files, shift) |-> Moved(Files, shift)[i]]
      BY DEF Moved
    <3> QED
      BY <3>2, <3>3
  <2>7. \A i \in Numbers : Files'[i] = Moved(Files, shift)[i]
    BY <2>1, <2>2, <2>3, <2>4, <2>5
  <2> QED
    BY <2>1, <2>6, <2>7
<1> QED
  BY <1>1, <1>2

LEMMA FilesRenamed ==
  ASSUME LogInv, active' = <<>>, gens' = [gens EXCEPT ![1] = active]
  PROVE  Files' = Moved(Files, 0)
<1>1. Files' = [i \in Numbers |-> IF i = 0 THEN <<>> ELSE gens'[i]]
  BY DEF Files, File, Numbers
<1>2. Files = [i \in Numbers |-> IF i = 0 THEN active ELSE gens[i]]
  BY DEF Files, File
<1>3. \A i \in Numbers : i # 0 => i \in 1 .. MaxFiles
  BY NumbersFacts DEF Numbers
<1>4. \A i \in 1 .. MaxFiles : gens'[i] = IF i = 1 THEN active ELSE gens[i]
  BY DEF LogInv, TypeOK
<1>5. \A i \in Numbers :
        Moved(Files, 0)[i] = IF i = 0 THEN <<>> ELSE IF i = 1 THEN Files[0] ELSE Files[i]
  BY <1>2, NumbersFacts DEF Moved
<1>6. Moved(Files, 0) = [i \in Numbers |-> Moved(Files, 0)[i]]
  BY <1>2 DEF Moved
<1>7. \A i \in Numbers : Files'[i] = Moved(Files, 0)[i]
  BY <1>1, <1>2, <1>3, <1>4, <1>5, NumbersFacts
<1> QED
  BY <1>1, <1>6, <1>7

----------------------------------------------------------------------------
(* The order of the lines: every line on disk is older than the event that  *)
(* is being logged, so that it may go to the end of the youngest file.      *)

Below(f, n) == \A i \in Numbers : \A p \in DOMAIN f[i] : f[i][p].hash <= n
Written     == IF pc = "idle" THEN logged ELSE logged - 1
OrderInv    == Ordered(Files) /\ Below(Files, Written)

LEMMA MovedBelow ==
  ASSUME NEW S, NEW f \in [Numbers -> S], NEW m, Below(f, m)
  PROVE  /\ \A n \in 0 .. MaxFiles - 1 : Below(Moved(f, n), m)
         /\ Below([f EXCEPT ![MaxFiles] = <<>>], m)
<1>1. ASSUME NEW n \in 0 .. MaxFiles - 1 PROVE Below(Moved(f, n), m)
  <2> DEFINE g == Moved(f, n)
  <2>1. /\ n \in Numbers /\ n + 1 \in Numbers /\ g[n] = <<>> /\ g[n + 1] = f[n]
        /\ \A i \in Numbers : i # n /\ i # n + 1 => g[i] = f[i]
    BY MovedFacts
  <2> HIDE DEF g
  <2> SUFFICES ASSUME NEW i \in Numbers, NEW p \in DOMAIN g[i] PROVE g[i][p].hash <= m
    BY DEF Below, g
  <2> QED
    BY <2>1 DEF Below
<1>2. Below([f EXCEPT ![MaxFiles] = <<>>], m)
  <2> DEFINE g == [f EXCEPT ![MaxFiles] = <<>>]
  <2>1. g[MaxFiles] = <<>> /\ \A i \in Numbers : i # MaxFiles => g[i] = f[i]
    BY NumbersFacts
  <2> HIDE DEF g
  <2>2. Below(g, m)
    BY <2>1 DEF Below
  <2> QED
    BY <2>2 DEF g
<1> QED
  BY <1>1, <1>2

\* The event that is being logged goes behind all there is.
LEMMA WrittenInOrder ==
  ASSUME LogInv, OrderInv, pc # "idle", UNCHANGED gens,
         NEW form \in {"whole", "bare", "torn"}, active' = Appended(form)
  PROVE  Ordered(Files') /\ Below(Files', logged)
<1> DEFINE g == Files'
<1>1. logged \in 1 .. MaxEntries /\ logged \in Int
  BY NumbersFacts DEF LogInv, Working
<1>2. /\ g[0] = Appended(form) /\ Files[0] = active
      /\ \A i \in Numbers : i # 0 => g[i] = Files[i]
  BY FilesWritten, FilesFacts, FilesType, NumbersFacts
<1>3. Ordered(Files) /\ Below(Files, logged - 1)
  BY DEF OrderInv, Written
<1>4. active \in Seq(Lines)
  BY DEF LogInv, TypeOK
<1>5. \A i \in Numbers : Files[i] \in Seq(Lines)
  BY FilesType
<1>6. \A i \in Numbers, p \in Nat : p \in DOMAIN Files[i] => Files[i][p].hash \in Int
  <2> SUFFICES ASSUME NEW i \in Numbers, NEW p \in Nat, p \in DOMAIN Files[i]
               PROVE  Files[i][p].hash \in Int
    OBVIOUS
  <2>1. Files[i][p] \in Lines
    BY <1>5
  <2> QED
    BY <2>1, NumbersFacts DEF Lines
<1> HIDE DEF g
<1>7. CASE /\ DOMAIN Appended(form) = DOMAIN active
           /\ \A p \in DOMAIN active : Appended(form)[p].hash = active[p].hash
  <2>1. \A i \in Numbers : /\ DOMAIN g[i] = DOMAIN Files[i]
                           /\ \A p \in DOMAIN Files[i] : g[i][p].hash = Files[i][p].hash
    BY <1>2, <1>7
  <2>2. Ordered(g)
    BY <1>3, <2>1 DEF Ordered
  <2>3. Below(g, logged)
    <3> SUFFICES ASSUME NEW i \in Numbers, NEW p \in DOMAIN g[i] PROVE g[i][p].hash <= logged
      BY DEF Below
    <3>1. p \in DOMAIN Files[i] /\ p \in Nat
      BY <1>5, <2>1
    <3>2. Files[i][p].hash <= logged - 1 /\ Files[i][p].hash \in Int
      BY <1>3, <1>6, <3>1 DEF Below
    <3> QED
      BY <1>1, <2>1, <3>1, <3>2
  <2> QED
    BY <2>2, <2>3 DEF g
<1>8. CASE Appended(form) = Append(active, Line(logged, chainHash, form))
  <2>1. /\ DOMAIN g[0] = 1 .. Len(active) + 1 /\ DOMAIN active = 1 .. Len(active)
        /\ Len(active) \in Nat
        /\ \A p \in 1 .. Len(active) : g[0][p] = active[p]
        /\ g[0][Len(active) + 1].hash = logged
    <3>1. Line(logged, chainHash, form) \in Lines /\ Line(logged, chainHash, form).hash = logged
      BY <1>1, LineType DEF Line
    <3> QED
      BY <1>2, <1>4, <1>8, <3>1, AppendProperties
  <2>2. ASSUME NEW i \in Numbers, NEW p \in DOMAIN g[i]
        PROVE  /\ p \in Nat
               /\ \/ p \in DOMAIN Files[i] /\ g[i][p] = Files[i][p]
                  \/ i = 0 /\ p = Len(active) + 1
    BY <1>2, <1>5, <2>1
  <2>3. ASSUME NEW i \in Numbers, NEW p \in Nat, p \in DOMAIN Files[i]
        PROVE  Files[i][p].hash < logged
    <3>1. Files[i][p].hash <= logged - 1 /\ Files[i][p].hash \in Int
      BY <1>3, <1>6, <2>3 DEF Below
    <3> QED
      BY <1>1, <3>1
  <2>4. Below(g, logged)
    <3> SUFFICES ASSUME NEW i \in Numbers, NEW p \in DOMAIN g[i] PROVE g[i][p].hash <= logged
      BY DEF Below
    <3>1. CASE i = 0 /\ p = Len(active) + 1
      BY <1>1, <2>1, <3>1
    <3>2. CASE p \in DOMAIN Files[i] /\ g[i][p] = Files[i][p]
      BY <1>1, <1>6, <2>2, <2>3, <3>2
    <3> QED
      BY <2>2, <3>1, <3>2
  <2>5. Ordered(g)
    <3> SUFFICES ASSUME NEW i \in Numbers, NEW j \in Numbers,
                        NEW p \in DOMAIN g[i], NEW q \in DOMAIN g[j],
                        i > j \/ (i = j /\ p < q)
                 PROVE  g[i][p].hash < g[j][q].hash
      BY DEF Ordered
    <3>1. p \in DOMAIN Files[i] /\ g[i][p] = Files[i][p]
      BY <1>2, <2>1, <2>2, NumbersFacts
    <3>2. CASE j = 0 /\ q = Len(active) + 1
      BY <2>1, <2>2, <2>3, <3>1, <3>2
    <3>3. CASE q \in DOMAIN Files[j] /\ g[j][q] = Files[j][q]
      BY <1>3, <3>1, <3>3 DEF Ordered
    <3> QED
      BY <2>2, <3>2, <3>3
  <2> QED
    BY <2>4, <2>5 DEF g
<1> QED
  BY <1>1, <1>7, <1>8, AppendedFacts

LEMMA WrittenGrows ==
  ASSUME LogInv, NEW m \in Int, Written <= m, Below(Files, Written)
  PROVE  Below(Files, m)
<1> SUFFICES ASSUME NEW i \in Numbers, NEW p \in DOMAIN Files[i]
             PROVE  Files[i][p].hash <= m
  BY DEF Below
<1>1. Files[i][p] \in Lines
  BY FilesType
<1>2. Files[i][p].hash \in Int
  BY <1>1, NumbersFacts DEF Lines
<1>3. Written \in Int
  BY NumbersFacts DEF Written, LogInv, TypeOK
<1>4. Files[i][p].hash <= Written
  BY DEF Below
<1> QED
  BY <1>2, <1>3, <1>4

LEMMA OrderInvariance == ASSUME LogInv, OrderInv, [Next]_vars PROVE OrderInv'
<1>0. /\ logged \in Int /\ Written \in Int /\ Written <= logged
      /\ Ordered(Files) /\ Below(Files, Written)
      /\ Files \in [Numbers -> Seq(Lines)]
  BY NumbersFacts, FilesType DEF LogInv, TypeOK, Written, OrderInv
<1>a. SUFFICES Ordered(Files') /\ Below(Files', Written')
  BY DEF OrderInv, Ordered, Below, Numbers
<1>b. ASSUME UNCHANGED <<active, gens>>, Written' \in Int, Written <= Written'
      PROVE  Ordered(Files') /\ Below(Files', Written')
  BY <1>0, <1>b, FilesKept, WrittenGrows
<1>1. CASE Boot \/ UNCHANGED vars
  BY <1>0, <1>1, <1>b DEF Boot, vars, Written
<1>2. CASE LogStarts
  BY <1>0, <1>2, <1>b DEF LogStarts, Written
<1>3. CASE RotateRemoves
  <2>1. Written' = Written
    BY <1>3 DEF RotateRemoves, Written
  <2>2. CASE Fails
    BY <1>0, <1>3, <1>b, <2>1, <2>2 DEF Fails
  <2>3. CASE gens' = [gens EXCEPT ![MaxFiles] = <<>>] /\ active' = active
    BY <1>0, <2>1, <2>3, FilesDropped, DroppedOldest, MovedBelow
  <2> QED
    BY <1>3, <2>2, <2>3 DEF RotateRemoves
<1>4. CASE RotateShifts
  <2>1. Written' = Written /\ shift \in 1 .. MaxFiles - 1 /\ shift \in 0 .. MaxFiles - 1
    BY <1>4, NumbersFacts DEF RotateShifts, Written, LogInv, Working
  <2>2. CASE Fails
    BY <1>0, <1>4, <1>b, <2>1, <2>2 DEF Fails
  <2>3. CASE gens' = Shifted(shift) /\ active' = active
    <3>1. Files' = Files \/ Files' = Moved(Files, shift)
      BY <2>1, <2>3, FilesShifted
    <3>2. Ordered(Moved(Files, shift)) /\ Below(Moved(Files, shift), Written)
      BY <1>0, <2>1, MovedOrdered, MovedBelow
    <3> QED
      BY <1>0, <2>1, <3>1, <3>2
  <2> QED
    BY <1>4, <2>2, <2>3 DEF RotateShifts
<1>5. CASE RotateRenames
  <2>1. Written' = Written /\ 0 \in 0 .. MaxFiles - 1
    BY <1>5, NumbersFacts DEF RotateRenames, Written
  <2>2. CASE Fails
    BY <1>0, <1>5, <1>b, <2>1, <2>2 DEF Fails
  <2>3. CASE gens' = [gens EXCEPT ![1] = active] /\ active' = <<>>
    <3>1. Files' = Moved(Files, 0)
      BY <2>3, FilesRenamed
    <3>2. Ordered(Moved(Files, 0)) /\ Below(Moved(Files, 0), Written)
      BY <1>0, <2>1, MovedOrdered, MovedBelow
    <3> QED
      BY <2>1, <3>1, <3>2
  <2> QED
    BY <1>5, <2>2, <2>3 DEF RotateRenames
<1>6. CASE LogAppends
  <2>1. pc # "idle" /\ UNCHANGED gens /\ Written' = logged
    BY <1>6 DEF LogAppends, Written
  <2>2. CASE UNCHANGED active
    BY <1>0, <1>b, <2>1, <2>2
  <2>3. CASE \E form \in {"whole", "bare", "torn"} : active' = Appended(form)
    BY <2>1, <2>3, WrittenInOrder
  <2> QED
    BY <1>6, <2>2, <2>3 DEF LogAppends
<1>7. CASE Crash
  <2>1. UNCHANGED gens /\ Written' = logged
    BY <1>7 DEF Crash, Written
  <2>2. CASE UNCHANGED active
    BY <1>0, <1>b, <2>1, <2>2
  <2>3. CASE pc = "append" /\ \E form \in {"whole", "bare", "torn"} : active' = Appended(form)
    BY <2>1, <2>3, WrittenInOrder
  <2> QED
    BY <1>7, <2>2, <2>3 DEF Crash
<1> QED
  BY <1>1, <1>2, <1>3, <1>4, <1>5, <1>6, <1>7 DEF Next, Log

LEMMA InitEmpty == Init => \A i \in Numbers : Files[i] = <<>>
  BY NumbersFacts DEF Init, Files, File, Numbers

\* Whatever step of a rotation fails or the process dies in, and however many
\* restarts there were, the lines on disk are in the order they were logged
\* and none is there twice (rotateLogs, audit.go 92-110; logEntry, 112-172).
THEOREM LinesKeepTheirOrder == Spec => []RetainedInOrder
<1>1. Init => OrderInv
  BY InitEmpty DEF OrderInv, Ordered, Below
<1>2. LogInv /\ OrderInv /\ [Next]_vars => LogInv' /\ OrderInv'
  BY LogInvariance, OrderInvariance
<1>3. OrderInv => RetainedInOrder
  BY FilesFacts DEF OrderInv
<1> QED
  BY <1>1, <1>2, <1>3, InitLog, PTL DEF Spec

----------------------------------------------------------------------------
(* The chain: while nothing has disturbed the log, chainHash is the hash of  *)
(* the youngest line on disk whenever a line is about to be written, and a   *)
(* rotation moves every file into an empty place.                            *)

Latest == up => /\ active # <<>> => chainHash = Last(active).hash
                /\ pc = "append" /\ active = <<>> =>
                     \A i \in Numbers : Older(Files, i, 0) => chainHash = Last(Files[i]).hash
NothingElse == pc # "append" /\ active = <<>> => \A i \in 1 .. MaxFiles : gens[i] = <<>>
Making == /\ pc \in {"remove", "shift", "rename"} => active # <<>>
          /\ pc = "shift" => gens[shift + 1] = <<>>
          /\ pc = "rename" => gens[1] = <<>>
ChainInv == ~disturbed => Chained(Files) /\ Latest /\ NothingElse /\ Making

LEMMA AppendChained ==
  ASSUME NEW f \in [Numbers -> Seq(Lines)], NEW line \in Lines,
         Chained(f), line.form = "whole",
         f[0] # <<>> => line.prev = Last(f[0]).hash,
         f[0] = <<>> => \A i \in Numbers : Older(f, i, 0) => line.prev = Last(f[i]).hash
  PROVE  Chained([f EXCEPT ![0] = Append(f[0], line)])
<1> DEFINE g == [f EXCEPT ![0] = Append(f[0], line)]
<1>1. /\ g[0] = Append(f[0], line) /\ f[0] \in Seq(Lines)
      /\ \A i \in Numbers : i # 0 => g[i] = f[i]
  BY NumbersFacts
<1>2. /\ DOMAIN g[0] = 1 .. Len(f[0]) + 1 /\ DOMAIN f[0] = 1 .. Len(f[0]) /\ Len(f[0]) \in Nat
      /\ \A p \in 1 .. Len(f[0]) : g[0][p] = f[0][p]
      /\ g[0][Len(f[0]) + 1] = line
  BY <1>1, AppendProperties
<1> HIDE DEF g
<1>3. ASSUME NEW i \in Numbers, NEW j \in Numbers, Older(g, i, j)
      PROVE  Older(f, i, j) /\ i # 0 /\ g[i] = f[i]
  <2>1. i > j /\ j \in Nat /\ i # 0
    BY <1>3, NumbersFacts DEF Older
  <2>2. \A k \in j + 1 .. i - 1 : k \in Numbers /\ k # 0
    BY <2>1, NumbersFacts DEF Numbers
  <2> QED
    BY <1>1, <1>3, <2>1, <2>2 DEF Older
<1> SUFFICES ASSUME NEW j \in Numbers, NEW q \in DOMAIN g[j]
             PROVE  /\ g[j][q].form = "whole"
                    /\ q > 1 => g[j][q].prev = g[j][q - 1].hash
                    /\ q = 1 => \A i \in Numbers : Older(g, i, j) => g[j][1].prev = Last(g[i]).hash
  BY DEF Chained, g
<1>4. CASE j = 0 /\ q = Len(f[0]) + 1
  <2>1. g[j][q].form = "whole" /\ g[j][q] = line
    BY <1>2, <1>4
  <2>2. ASSUME q > 1 PROVE line.prev = g[0][q - 1].hash
    <3>1. Len(f[0]) \in 1 .. Len(f[0]) /\ f[0] # <<>> /\ q - 1 = Len(f[0])
      BY <1>2, <1>4, <2>2
    <3>2. Last(f[0]) = f[0][Len(f[0])]
      BY DEF Last
    <3> QED
      BY <1>2, <3>1, <3>2
  <2>3. ASSUME q = 1, NEW i \in Numbers, Older(g, i, 0) PROVE line.prev = Last(g[i]).hash
    <3>1. f[0] = <<>>
      BY <1>1, <1>2, <1>4, <2>3
    <3> QED
      BY <1>3, <1>4, <2>3, <3>1
  <2> QED
    BY <1>4, <2>1, <2>2, <2>3
<1>5. CASE q \in DOMAIN f[j] /\ g[j][q] = f[j][q] /\ q \in Nat
  <2>1. ASSUME q > 1 PROVE g[j][q - 1] = f[j][q - 1]
    <3>1. CASE j # 0
      BY <1>1, <3>1
    <3>2. CASE j = 0
      <4>1. q - 1 \in 1 .. Len(f[0])
        BY <1>2, <1>5, <2>1, <3>2
      <4> QED
        BY <1>2, <3>2, <4>1, Zenon
    <3> QED
      BY <3>1, <3>2
  <2>2. q = 1 => g[j][1] = f[j][1]
    BY <1>5
  <2> QED
    BY <1>3, <1>5, <2>1, <2>2 DEF Chained
<1>6. (j = 0 /\ q = Len(f[0]) + 1) \/ (q \in DOMAIN f[j] /\ g[j][q] = f[j][q] /\ q \in Nat)
  <2>1. f[j] \in Seq(Lines)
    OBVIOUS
  <2> QED
    BY <1>1, <1>2, <2>1
<1> QED
  BY <1>4, <1>5, <1>6

LEMMA ChainInvariance == ASSUME LogInv, ChainInv, [Next]_vars PROVE ChainInv'
<1>0. /\ Files \in [Numbers -> Seq(Lines)] /\ active \in Seq(Lines)
      /\ gens \in [1 .. MaxFiles -> Seq(Lines)] /\ Files[0] = active
      /\ disturbed \in BOOLEAN
  BY FilesType, FilesFacts DEF LogInv, TypeOK
<1> SUFFICES ASSUME ~disturbed' PROVE Chained(Files') /\ Latest' /\ NothingElse' /\ Making'
  BY DEF ChainInv, Chained, Older, Numbers
<1>a. ~disturbed
  BY <1>0 DEF Next, Log, Boot, LogStarts, RotateRemoves, RotateShifts, RotateRenames,
              LogAppends, Crash, Fails, vars
<1>b. Chained(Files) /\ Latest /\ NothingElse /\ Making
  BY <1>a DEF ChainInv
<1>c. ASSUME UNCHANGED <<active, gens>> PROVE Chained(Files')
  BY <1>b, <1>c, FilesKept
<1>1. CASE Boot
  <2>1. UNCHANGED <<active, gens, pc, shift>> /\ ~up
    BY <1>1 DEF Boot
  <2>2. pc = "idle"
    BY <2>1 DEF LogInv, Working, TypeOK
  <2>3. active # <<>> => chainHash' = Last(active).hash
    <3>1. ASSUME active # <<>> PROVE Parses(active[Len(active)])
      <4>1. Len(active) \in DOMAIN Files[0]
        BY <1>0, <3>1
      <4>2. active[Len(active)].form = "whole"
        BY <1>0, <1>b, <4>1, NumbersFacts DEF Chained
      <4> QED
        BY <4>2 DEF Parses
    <3> QED
      BY <1>1, <3>1 DEF Boot, Last
  <2>4. Latest'
    BY <2>1, <2>2, <2>3 DEF Latest
  <2> QED
    BY <1>b, <1>c, <2>1, <2>4 DEF NothingElse, Making
<1>2. CASE LogStarts
  <2>1. /\ UNCHANGED <<active, gens, chainHash, up, shift>>
        /\ pc = "idle" /\ pc' = IF Len(active) < MaxSize THEN "append" ELSE "remove"
    BY <1>2 DEF LogStarts
  <2>2. pc' = "remove" => active # <<>>
    BY <1>0, <2>1, NumbersFacts
  <2>3. ASSUME active = <<>> PROVE \A i \in Numbers : ~Older(Files', i, 0)
    <3>1. \A i \in 1 .. MaxFiles : Files'[i] = <<>>
      BY <1>b, <2>1, <2>3, FilesKept, FilesFacts DEF NothingElse
    <3> QED
      BY <3>1, NumbersFacts DEF Older, Numbers
  <2>4. Latest'
    BY <1>b, <2>1, <2>3 DEF Latest, Numbers, Older
  <2> QED
    BY <1>b, <1>c, <2>1, <2>2, <2>4 DEF NothingElse, Making
<1>3. CASE RotateRemoves
  <2>1. /\ gens' = [gens EXCEPT ![MaxFiles] = <<>>] /\ pc = "remove"
        /\ UNCHANGED <<up, active, chainHash>>
        /\ shift' = MaxFiles - 1 /\ pc' = IF MaxFiles = 1 THEN "rename" ELSE "shift"
    BY <1>3, <1>0 DEF RotateRemoves, Fails
  <2>2. Chained(Files')
    BY <1>0, <1>b, <2>1, FilesDropped, DroppedOldest
  <2>3. active # <<>>
    BY <1>b, <2>1 DEF Making
  <2>4. Latest' /\ NothingElse'
    BY <1>b, <2>1, <2>3 DEF Latest, NothingElse
  <2>5. gens'[MaxFiles] = <<>> /\ shift' + 1 = MaxFiles
    BY <1>0, <2>1, NumbersFacts
  <2> QED
    BY <2>1, <2>2, <2>3, <2>4, <2>5 DEF Making
<1>4. CASE RotateShifts
  <2>1. /\ gens' = Shifted(shift) /\ pc = "shift"
        /\ UNCHANGED <<up, active, chainHash>>
        /\ shift' = shift - 1 /\ pc' = IF shift = 1 THEN "rename" ELSE "shift"
    BY <1>4, <1>0 DEF RotateShifts, Fails
  <2>2. shift \in 1 .. MaxFiles - 1 /\ shift \in 1 .. MaxFiles /\ shift + 1 \in 1 .. MaxFiles
    BY <2>1, NumbersFacts DEF LogInv, Working
  <2>3. gens[shift + 1] = <<>> /\ active # <<>>
    BY <1>b, <2>1 DEF Making
  <2>4. Chained(Files')
    <3>1. Files[shift + 1] = <<>>
      BY <2>2, <2>3, FilesFacts
    <3>2. Chained(Moved(Files, shift))
      <4>1. shift \in 0 .. MaxFiles - 1
        BY <2>2
      <4> QED
        BY <1>0, <1>b, <3>1, <4>1, MovedChained
    <3> QED
      BY <1>b, <2>1, <2>2, <3>2, FilesShifted
  <2>5. gens'[shift] = <<>>
    BY <1>0, <2>1, <2>2 DEF Shifted
  <2>6. Latest' /\ NothingElse'
    BY <1>b, <2>1, <2>3 DEF Latest, NothingElse
  <2>7. shift' + 1 = shift
    BY <2>1, <2>2
  <2> QED
    BY <2>1, <2>3, <2>4, <2>5, <2>6, <2>7 DEF Making
<1>5. CASE RotateRenames
  <2>1. /\ gens' = [gens EXCEPT ![1] = active] /\ active' = <<>> /\ pc = "rename"
        /\ pc' = "append" /\ UNCHANGED <<up, chainHash>>
    BY <1>5, <1>0 DEF RotateRenames, Fails
  <2>2. gens[1] = <<>> /\ active # <<>>
    BY <1>b, <2>1 DEF Making
  <2>3. Files' = Moved(Files, 0)
    BY <2>1, FilesRenamed
  <2>0. 0 \in 0 .. MaxFiles - 1 /\ 0 + 1 = 1 /\ Files[0 + 1] = <<>>
    BY <2>2, FilesFacts, NumbersFacts
  <2>4. Chained(Files')
    BY <1>0, <1>b, <2>0, <2>3, MovedChained
  <2>5. ASSUME NEW i \in Numbers, Older(Files', i, 0) PROVE Files'[i] = active
    <3>1. Files'[1] = active
      <4>1. Moved(Files, 0)[0 + 1] = Files[0]
        BY <1>0, <2>0, MovedFacts
      <4> QED
        BY <1>0, <2>0, <2>3, <4>1
    <3>2. i \in Nat /\ i > 0 /\ (i > 1 => 1 \in 0 + 1 .. i - 1)
      BY <2>5, NumbersFacts DEF Older
    <3>3. i = 1
      BY <2>2, <2>5, <3>1, <3>2 DEF Older
    <3> QED
      BY <3>1, <3>3
  <2>6. up => chainHash = Last(active).hash
    BY <1>b, <2>2 DEF Latest
  <2>7. Latest'
    BY <2>1, <2>5, <2>6 DEF Latest, Numbers, Older
  <2>8. NothingElse' /\ Making'
    BY <2>1 DEF NothingElse, Making
  <2> QED
    BY <2>4, <2>7, <2>8
<1>6. CASE LogAppends
  <2>1. pc = "append" /\ pc' = "idle" /\ UNCHANGED <<up, gens, shift>> /\ up
        /\ logged \in 1 .. MaxEntries
    BY <1>6 DEF LogAppends, LogInv, Working
  <2>2. CASE UNCHANGED <<active, chainHash>> /\ active # <<>>
    BY <1>b, <1>c, <2>1, <2>2 DEF Latest, NothingElse, Making
  <2>3. CASE active' = Appended("whole") /\ chainHash' = logged
    <3> DEFINE line == Line(logged, chainHash, "whole")
    <3>1. line \in Lines /\ line.hash = logged /\ line.prev = chainHash /\ line.form = "whole"
      BY <2>1, LineType DEF Line
    <3>2. active' = Append(active, line)
      <4>1. ASSUME active # <<>> PROVE Ended(active[Len(active)])
        <5>1. Len(active) \in DOMAIN Files[0]
          BY <1>0, <4>1
        <5>2. active[Len(active)].form = "whole"
          BY <1>0, <1>b, <5>1, NumbersFacts DEF Chained
        <5> QED
          BY <5>2 DEF Ended
      <4> QED
        BY <2>3, <4>1 DEF Appended
    <3> HIDE DEF line
    <3>3. Chained(Files')
      <4>1. Files' = [Files EXCEPT ![0] = Append(Files[0], line)]
        BY <1>0, <2>1, <3>2, FilesWritten
      <4> QED
        BY <1>0, <1>b, <2>1, <3>1, <4>1, AppendChained DEF Latest
    <3>4. active' # <<>> /\ Last(active').hash = logged
      BY <1>0, <3>1, <3>2, AppendProperties DEF Last
    <3>5. Latest' /\ NothingElse' /\ Making'
      BY <2>1, <2>3, <3>4 DEF Latest, NothingElse, Making
    <3> QED
      BY <3>3, <3>5
  <2> QED
    BY <1>6, <1>0, <2>2, <2>3 DEF LogAppends
<1>7. CASE Crash
  <2>1. /\ pc = "idle" /\ pc' = "idle" /\ up' = FALSE /\ UNCHANGED <<active, gens>>
    BY <1>7, <1>0 DEF Crash
  <2> QED
    BY <1>b, <1>c, <2>1 DEF Latest, NothingElse, Making
<1>8. CASE UNCHANGED vars
  BY <1>b, <1>8, FilesKept DEF vars, Latest, NothingElse, Making, Older, Numbers
<1> QED
  BY <1>1, <1>2, <1>3, <1>4, <1>5, <1>6, <1>7, <1>8 DEF Next, Log

\* As long as nothing disturbs the log, every line is chained to the line
\* before it, across rotations and restarts (seedChainHash, audit.go 174-205).
THEOREM ChainStaysWhole == Spec => []ChainIsUnbroken
<1>1. Init => ChainInv
  <2> SUFFICES ASSUME Init PROVE Chained(Files) /\ Latest /\ NothingElse /\ Making
    BY DEF ChainInv
  <2>1. up = FALSE /\ pc = "idle" /\ \A i \in 1 .. MaxFiles : gens[i] = <<>>
    BY DEF Init
  <2> QED
    BY <2>1, InitEmpty DEF Chained, Latest, NothingElse, Making
<1>2. LogInv /\ ChainInv /\ [Next]_vars => LogInv' /\ ChainInv'
  BY LogInvariance, ChainInvariance
<1>3. ChainInv => ChainIsUnbroken
  BY FilesFacts DEF ChainInv
<1> QED
  BY <1>1, <1>2, <1>3, InitLog, PTL DEF Spec

----------------------------------------------------------------------------
(* The first lines: while nothing has disturbed the log, the chain starts    *)
(* with the first line ever, and a rotation leaves a younger generation      *)
(* wherever there is an older one, but for the hole that it moves down.      *)

Unrotated == \A i \in 1 .. MaxFiles : gens[i] = <<>>
FreshInv  == ~disturbed /\ up /\ active = <<>> /\ Unrotated => chainHash = Start

Hole    == IF pc = "shift" THEN shift + 1 ELSE IF pc = "rename" THEN 1 ELSE 0
Compact == \A i, j \in 1 .. MaxFiles :
             i < j /\ i # Hole /\ gens[i] = <<>> => gens[j] = <<>>
CompactInv == ~disturbed => Compact

\* The steps of an undisturbed log.
LEMMA NotYetDisturbed == ASSUME LogInv, [Next]_vars, ~disturbed' PROVE ~disturbed
  BY DEF LogInv, TypeOK, Next, Log, Boot, LogStarts, RotateRemoves, RotateShifts, RotateRenames,
     LogAppends, Crash, Fails, vars

LEMMA FreshInvariance == ASSUME LogInv, ChainInv, FreshInv, [Next]_vars PROVE FreshInv'
<1> SUFFICES ASSUME ~disturbed', up', active' = <<>>, Unrotated' PROVE chainHash' = Start
  BY DEF FreshInv
<1>0. ~disturbed /\ Making /\ Unrotated'
  BY NotYetDisturbed, NumbersFacts DEF ChainInv
<1>1. CASE Boot
  BY <1>1 DEF Boot
<1>2. CASE LogStarts \/ UNCHANGED vars
  BY <1>0, <1>2 DEF LogStarts, vars, FreshInv, Unrotated
<1>3. CASE RotateRemoves \/ RotateShifts
  BY <1>0, <1>3 DEF RotateRemoves, RotateShifts, Fails, Making
<1>4. CASE RotateRenames
  <2>1. gens' = [gens EXCEPT ![1] = active] /\ active # <<>> /\ 1 \in 1 .. MaxFiles
    BY <1>0, <1>4, NumbersFacts DEF RotateRenames, Fails, Making
  <2>2. gens'[1] # <<>>
    BY <2>1 DEF LogInv, TypeOK
  <2> QED
    BY <1>0, <2>1, <2>2 DEF Unrotated
<1>5. CASE LogAppends
  <2>1. CASE active' = Appended("whole")
    <3>1. Appended("whole") # <<>>
      <4>1. logged \in 1 .. MaxEntries
        BY <1>5 DEF LogAppends, LogInv, Working
      <4>2. Line(logged, chainHash, "whole") \in Lines /\ active \in Seq(Lines)
        BY <4>1, LineType DEF LogInv, TypeOK
      <4> QED
        BY <4>2 DEF Appended
    <3> QED
      BY <2>1, <3>1
  <2>2. CASE UNCHANGED <<active, chainHash>> /\ disturbed' = (disturbed \/ active = <<>>)
    BY <2>2
  <2> QED
    BY <1>0, <1>5, <2>1, <2>2 DEF LogAppends
<1>6. CASE Crash
  BY <1>6 DEF Crash
<1> QED
  BY <1>1, <1>2, <1>3, <1>4, <1>5, <1>6 DEF Next, Log

LEMMA CompactInvariance == ASSUME LogInv, ChainInv, CompactInv, [Next]_vars PROVE CompactInv'
<1> SUFFICES ASSUME ~disturbed' PROVE Compact'
  BY DEF CompactInv
<1>0. ~disturbed /\ Making /\ Compact /\ gens \in [1 .. MaxFiles -> Seq(Lines)]
  BY NotYetDisturbed DEF ChainInv, CompactInv, LogInv, TypeOK
<1>1. CASE UNCHANGED gens /\ Hole' = Hole
  BY <1>0, <1>1 DEF Compact
<1>2. CASE Boot \/ UNCHANGED vars
  BY <1>1, <1>2 DEF Boot, vars, Hole
<1>3. CASE LogStarts \/ LogAppends
  BY <1>1, <1>3 DEF LogStarts, LogAppends, Hole
<1>4. CASE Crash
  BY <1>0, <1>1, <1>4 DEF Crash, Hole
<1>5. CASE RotateRemoves
  <2>1. gens' = [gens EXCEPT ![MaxFiles] = <<>>] /\ Hole = 0
    BY <1>0, <1>5 DEF RotateRemoves, Fails, Hole
  <2>2. \A i \in 1 .. MaxFiles : gens'[i] = IF i = MaxFiles THEN <<>> ELSE gens[i]
    BY <1>0, <2>1, NumbersFacts
  <2>3. \A i, j \in 1 .. MaxFiles : i < j => i # MaxFiles /\ i # 0
    BY NumbersFacts
  <2> QED
    BY <1>0, <2>1, <2>2, <2>3 DEF Compact
<1>6. CASE RotateShifts
  <2>1. /\ gens' = Shifted(shift) /\ pc = "shift" /\ Hole = shift + 1
        /\ shift \in 1 .. MaxFiles - 1 /\ gens[shift + 1] = <<>>
    BY <1>0, <1>6 DEF RotateShifts, Fails, Hole, Making, LogInv, Working
  <2>2. Hole' = shift
    BY <1>6, <2>1 DEF RotateShifts, Hole
  <2>3. shift \in 1 .. MaxFiles /\ shift + 1 \in 1 .. MaxFiles /\ shift # shift + 1
    BY <2>1, NumbersFacts
  <2>4. CASE gens[shift] = <<>>
    <3>1. gens' = gens
      BY <2>1, <2>4 DEF Shifted
    <3>2. ASSUME NEW i \in 1 .. MaxFiles, NEW j \in 1 .. MaxFiles, i < j, i # shift, gens[i] = <<>>
          PROVE  gens[j] = <<>>
      <4>1. CASE i = shift + 1
        BY <1>0, <2>1, <2>3, <2>4, <3>2, <4>1 DEF Compact
      <4>2. CASE i # shift + 1
        BY <1>0, <2>1, <3>2, <4>2 DEF Compact
      <4> QED
        BY <4>1, <4>2
    <3> QED
      BY <2>2, <3>1, <3>2 DEF Compact
  <2>5. CASE gens[shift] # <<>>
    <3>1. \A i \in 1 .. MaxFiles : gens'[i] = IF i = shift THEN <<>>
                                              ELSE IF i = shift + 1 THEN gens[shift] ELSE gens[i]
      BY <1>0, <2>1, <2>3, <2>5 DEF Shifted
    <3>2. ASSUME NEW i \in 1 .. MaxFiles, NEW j \in 1 .. MaxFiles, i < j, i # shift, gens'[i] = <<>>
          PROVE  gens'[j] = <<>>
      <4>1. i # shift + 1 /\ gens[i] = <<>>
        BY <2>5, <3>1, <3>2
      <4>2. gens[j] = <<>>
        BY <1>0, <2>1, <3>2, <4>1 DEF Compact
      <4>3. CASE j = shift + 1
        <5>1. i < shift
          BY <2>1, <3>2, <4>3
        <5>2. gens[shift] = <<>>
          BY <1>0, <2>1, <2>3, <4>1, <5>1 DEF Compact
        <5> QED
          BY <2>5, <5>2
      <4>4. CASE j # shift + 1
        BY <3>1, <4>2, <4>4
      <4> QED
        BY <4>3, <4>4
    <3> QED
      BY <2>2, <3>2 DEF Compact
  <2> QED
    BY <2>4, <2>5
<1>7. CASE RotateRenames
  <2>1. gens' = [gens EXCEPT ![1] = active] /\ active # <<>> /\ Hole = 1 /\ Hole' = 0
    BY <1>0, <1>7 DEF RotateRenames, Fails, Making, Hole
  <2>2. \A i \in 1 .. MaxFiles : gens'[i] = IF i = 1 THEN active ELSE gens[i]
    BY <1>0, <2>1
  <2>3. \A i, j \in 1 .. MaxFiles : i < j => j # 1
    OBVIOUS
  <2> QED
    BY <1>0, <2>1, <2>2, <2>3 DEF Compact
<1> QED
  BY <1>2, <1>3, <1>4, <1>5, <1>6, <1>7 DEF Next, Log

LEMMA InitFirstLines == Init => ChainInv /\ FreshInv /\ CompactInv
<1> SUFFICES ASSUME Init PROVE ChainInv /\ FreshInv /\ CompactInv
  OBVIOUS
<1>1. up = FALSE /\ pc = "idle" /\ \A i \in 1 .. MaxFiles : gens[i] = <<>>
  BY DEF Init
<1>2. ChainInv
  BY <1>1, InitEmpty DEF ChainInv, Chained, Latest, NothingElse, Making
<1> QED
  BY <1>1, <1>2 DEF FreshInv, CompactInv, Compact

FirstInv == LogInv /\ ChainInv /\ FreshInv /\ CompactInv

LEMMA FirstLines == Spec => []FirstInv
<1>1. Init => FirstInv
  BY InitLog, InitFirstLines DEF FirstInv
<1>2. FirstInv /\ [Next]_vars => FirstInv'
  BY LogInvariance, ChainInvariance, FreshInvariance, CompactInvariance DEF FirstInv
<1> QED
  BY <1>1, <1>2, PTL DEF Spec

\* The first line of an undisturbed file continues an older generation, if not
\* the empty chain.
FirstLineInv == ~disturbed /\ active # <<>> /\ active[1].prev # Start => ~Unrotated

LEMMA FirstLineInvariance ==
  ASSUME MaxFiles > 1, FirstInv, FirstLineInv, [Next]_vars PROVE FirstLineInv'
<1> SUFFICES ASSUME ~disturbed', active' # <<>>, active'[1].prev # Start, Unrotated' PROVE FALSE
  BY DEF FirstLineInv
<1>0. /\ ~disturbed /\ Making /\ Compact /\ gens \in [1 .. MaxFiles -> Seq(Lines)]
      /\ active \in Seq(Lines) /\ LogInv /\ FreshInv /\ Chained(Files)
  BY NotYetDisturbed DEF FirstInv, ChainInv, CompactInv, LogInv, TypeOK
<1>a. ASSUME active' = active PROVE \E i \in 1 .. MaxFiles : gens[i] # <<>>
  BY <1>0, <1>a DEF FirstLineInv, Unrotated
<1>1. CASE UNCHANGED <<active, gens>>
  BY <1>1, <1>a DEF Unrotated
<1>2. CASE RotateRemoves
  <2>1. gens' = [gens EXCEPT ![MaxFiles] = <<>>] /\ active' = active /\ Hole = 0
    BY <1>0, <1>2 DEF RotateRemoves, Fails, Hole
  <2>2. PICK i \in 1 .. MaxFiles : gens[i] # <<>>
    BY <1>a, <2>1
  <2>3. 1 \in 1 .. MaxFiles /\ 1 # MaxFiles /\ 1 # 0 /\ (i = 1 \/ 1 < i)
    BY NumbersFacts
  <2>4. gens[1] # <<>>
    BY <1>0, <2>1, <2>2, <2>3 DEF Compact
  <2>5. gens'[1] = gens[1]
    BY <1>0, <2>1, <2>3
  <2> QED
    BY <2>3, <2>4, <2>5 DEF Unrotated
<1>3. CASE RotateShifts
  <2>1. /\ gens' = Shifted(shift) /\ active' = active
        /\ shift \in 1 .. MaxFiles - 1 /\ gens[shift + 1] = <<>>
    BY <1>0, <1>3 DEF RotateShifts, Fails, Making, LogInv, Working
  <2>2. PICK i \in 1 .. MaxFiles : gens[i] # <<>>
    BY <1>a, <2>1
  <2>3. shift \in 1 .. MaxFiles /\ shift + 1 \in 1 .. MaxFiles /\ shift # shift + 1
    BY <2>1, NumbersFacts
  <2>4. CASE gens[shift] = <<>>
    BY <2>1, <2>2, <2>4 DEF Shifted, Unrotated
  <2>5. CASE gens[shift] # <<>>
    <3>1. gens'[shift + 1] = gens[shift]
      BY <1>0, <2>1, <2>3, <2>5 DEF Shifted
    <3> QED
      BY <2>3, <2>5, <3>1 DEF Unrotated
  <2> QED
    BY <2>4, <2>5
<1>4. CASE RotateRenames
  BY <1>0, <1>4 DEF RotateRenames, Fails
<1>5. CASE LogAppends
  <2>1. up /\ logged \in 1 .. MaxEntries /\ gens' = gens /\ pc = "append"
    BY <1>0, <1>5 DEF LogAppends, LogInv, Working
  <2>2. active' = Appended("whole")
    BY <1>0, <1>1, <1>5 DEF LogAppends
  <2> DEFINE line == Line(logged, chainHash, "whole")
  <2>3. line \in Lines /\ line.prev = chainHash
    BY <1>0, <2>1, LineType DEF Line
  <2> HIDE DEF line
  <2>4. active' = Append(active, line)
    <3>1. ASSUME active # <<>> PROVE Ended(active[Len(active)])
      <4>1. Len(active) \in DOMAIN Files[0]
        BY <1>0, <3>1, FilesFacts
      <4>2. active[Len(active)].form = "whole"
        BY <1>0, <4>1, FilesFacts, NumbersFacts DEF Chained
      <4> QED
        BY <4>2 DEF Ended
    <3> QED
      BY <2>2, <3>1 DEF Appended, line
  <2>5. CASE active = <<>>
    <3>1. active'[1] = line
      BY <2>3, <2>4, <2>5
    <3>2. Unrotated
      BY <2>1 DEF Unrotated
    <3>3. chainHash = Start
      BY <1>0, <2>1, <2>5, <3>2 DEF FreshInv
    <3> QED
      BY <2>3, <3>1, <3>3
  <2>6. CASE active # <<>>
    <3>1. active'[1] = active[1]
      BY <1>0, <2>3, <2>4, <2>6
    <3> QED
      BY <1>0, <2>1, <2>6, <3>1 DEF FirstLineInv, Unrotated
  <2> QED
    BY <2>5, <2>6
<1>6. CASE Boot \/ LogStarts \/ UNCHANGED vars
  BY <1>1, <1>6 DEF Boot, LogStarts, vars
<1>7. CASE Crash
  BY <1>0, <1>1, <1>7 DEF Crash
<1> QED
  BY <1>2, <1>3, <1>4, <1>5, <1>6, <1>7 DEF Next, Log

\* audit.go:120: as long as nothing has disturbed the log and no generation has
\* come to be, Verify finds every line in place, whichever step Log is at.  With
\* one generation a rotation removes it before it makes the next one.
THEOREM UnrotatedVerifies == ASSUME MaxFiles > 1 PROVE Spec => []UnrotatedLogVerifies
<1>1. FirstInv /\ FirstLineInv => UnrotatedLogVerifies
  <2> SUFFICES ASSUME FirstInv, FirstLineInv, ~disturbed, Unrotated PROVE Verify = 0
    BY DEF UnrotatedLogVerifies, Unrotated
  <2>1. /\ Files[0] = active /\ active \in Seq(Lines) /\ 0 \in Numbers
        /\ DOMAIN active = 1 .. Len(active) /\ Chained(Files)
    BY FilesFacts, NumbersFacts DEF FirstInv, ChainInv, LogInv, TypeOK
  <2>2. ASSUME NEW i \in 1 .. Len(active)
        PROVE  /\ Parses(active[i])
               /\ active[i].prev = IF i = 1 THEN Start ELSE active[i - 1].hash
    <3>1. active[i].form = "whole" /\ (i > 1 => active[i].prev = active[i - 1].hash)
      BY <2>1, <2>2 DEF Chained
    <3>2. i = 1 => active[i].prev = Start
      BY <2>1, <2>2 DEF FirstLineInv
    <3> QED
      BY <3>1, <3>2 DEF Parses
  <2> QED
    BY <2>2 DEF Verify
<1>2. FirstInv /\ FirstLineInv /\ [Next]_vars => FirstLineInv'
  BY FirstLineInvariance
<1>3. Init => FirstLineInv
  BY DEF Init, FirstLineInv
<1> QED
  BY <1>1, <1>2, <1>3, FirstLines, PTL DEF Spec

\* Newest shows the last line that is found first.
LEMMA NewestIsLast ==
  ASSUME active \in Seq(Lines), NEW found, found \subseteq DOMAIN active,
         Len(active) \in found, active # <<>>
  PROVE  1 \in DOMAIN Newest(found, 1) /\ Newest(found, 1)[1] = active[Len(active)]
<1> DEFINE above(i) == {j \in found : j > i}
           n == Len(active)
<1>1. n \in Nat /\ found \subseteq 1 .. n /\ n \in found
  OBVIOUS
<1> HIDE DEF n
<1>2. IsFiniteSet(found)
  BY <1>1, FS_Interval, FS_Subset
<1>3. Cardinality(found) \in Nat /\ Cardinality(found) # 0
  BY <1>1, <1>2, FS_CardinalityType, FS_EmptySet
<1>4. 1 \in 1 .. 1 \cap 1 .. Cardinality(found)
  BY <1>3
<1>5. ASSUME NEW i \in found PROVE Cardinality(above(i)) = 0 <=> i = n
  <2>1. IsFiniteSet(above(i))
    BY <1>2, FS_Subset, above(i) \in SUBSET found
  <2>2. Cardinality(above(i)) = 0 <=> above(i) = {}
    BY <2>1, FS_EmptySet
  <2>3. above(i) = {} <=> i = n
    BY <1>1
  <2> QED
    BY <2>2, <2>3
<1>6. (CHOOSE i \in found : Cardinality(above(i)) = 1 - 1) = n
  <2> HIDE DEF above
  <2> QED
    BY <1>1, <1>5
<1> QED
  BY <1>4, <1>6 DEF Newest, n

\* search.go:66: the last event that was written is the first /audit shows, by
\* whatever query it matches.
THEOREM LastEventIsShown == Spec => []LastEventIsFound
<1>1. FirstInv => LastEventIsFound
  <2> DEFINE newest == {line \in Range(active) : line.hash = chainHash}
             matching == {i \in ReadAll : active[i] \in newest}
             n == Len(active)
  <2> SUFFICES ASSUME FirstInv, up, pc = "idle", ~disturbed, chainHash # Start
               PROVE  /\ 1 \in DOMAIN Recent(1) /\ Recent(1)[1] \in newest
                      /\ 1 \in DOMAIN Search(newest, 1) /\ Search(newest, 1)[1] \in newest
    BY DEF LastEventIsFound
  <2>1. /\ active \in Seq(Lines) /\ Files[0] = active /\ 0 \in Numbers
        /\ Chained(Files) /\ Latest /\ NothingElse /\ FreshInv
    BY FilesFacts, NumbersFacts DEF FirstInv, ChainInv, LogInv, TypeOK
  <2>2. active # <<>>
    BY <2>1 DEF NothingElse, FreshInv, Unrotated
  <2>3. n \in DOMAIN active /\ active[n].form = "whole" /\ active[n].hash = chainHash
    <3>1. n \in DOMAIN active
      BY <2>1, <2>2
    <3> QED
      BY <2>1, <2>2, <3>1 DEF Chained, Latest, Last
  <2>4. n \in ReadAll /\ active[n] \in newest
    BY <2>3 DEF ReadAll, Parses, Range
  <2>5. ReadAll \subseteq DOMAIN active /\ matching \subseteq DOMAIN active /\ n \in matching
    BY <2>4 DEF ReadAll
  <2> HIDE DEF newest, matching
  <2>6. 1 \in DOMAIN Recent(1) /\ Recent(1)[1] = active[n]
    BY <2>1, <2>2, <2>4, <2>5, NewestIsLast DEF Recent
  <2>7. 1 \in DOMAIN Newest(matching, 1) /\ Newest(matching, 1)[1] = active[n]
    BY <2>1, <2>2, <2>5, NewestIsLast
  <2>8. Search(newest, 1) = Newest(matching, 1)
    BY DEF Search, matching
  <2> QED
    BY <2>4, <2>6, <2>7, <2>8
<1> QED
  BY <1>1, FirstLines, PTL

----------------------------------------------------------------------------
(* What a rotation drops. *)

\* Some line of the files has the hash h.
Has(f, h) == \E i \in Numbers : \E p \in DOMAIN f[i] : f[i][p].hash = h

LEMMA OnDiskFiles == \A h : h \in OnDisk <=> Has(Files, h)
<1>1. \A i \in Numbers : Files[i] = File(i)
  BY DEF Files
<1> QED
  BY <1>1 DEF OnDisk, Hashes, Has, Numbers

\* Moving a file into an empty place loses no line.
LEMMA MovedHas ==
  ASSUME NEW S, NEW f \in [Numbers -> S], NEW n \in 0 .. MaxFiles - 1, f[n + 1] = <<>>,
         NEW h, Has(f, h)
  PROVE  Has(Moved(f, n), h)
<1> DEFINE g == Moved(f, n)
<1>1. /\ n \in Numbers /\ n + 1 \in Numbers /\ g[n + 1] = f[n]
      /\ \A i \in Numbers : i # n /\ i # n + 1 => g[i] = f[i]
  BY MovedFacts
<1>2. PICK i \in Numbers : \E p \in DOMAIN f[i] : f[i][p].hash = h
  BY DEF Has
<1> HIDE DEF g
<1>3. i # n + 1
  BY <1>2
<1>4. Has(g, h)
  BY <1>1, <1>2, <1>3 DEF Has
<1> QED
  BY <1>4 DEF g

\* Nor does a write, whatever it leaves of the new line.
LEMMA WrittenHas ==
  ASSUME LogInv, pc # "idle", UNCHANGED gens,
         NEW form \in {"whole", "bare", "torn"}, active' = Appended(form), NEW h, Has(Files, h)
  PROVE  Has(Files', h)
<1> DEFINE g == Files'
<1>1. logged \in 1 .. MaxEntries /\ active \in Seq(Lines)
  BY DEF LogInv, Working, TypeOK
<1>2. /\ g[0] = Appended(form) /\ Files[0] = active /\ 0 \in Numbers
      /\ \A i \in Numbers : i # 0 => g[i] = Files[i]
  BY FilesWritten, FilesFacts, FilesType, NumbersFacts
<1> HIDE DEF g
<1>3. \A p \in DOMAIN active : p \in DOMAIN g[0] /\ g[0][p].hash = active[p].hash
  <2>1. CASE /\ DOMAIN Appended(form) = DOMAIN active
             /\ \A p \in DOMAIN active : Appended(form)[p].hash = active[p].hash
    BY <1>2, <2>1
  <2>2. CASE Appended(form) = Append(active, Line(logged, chainHash, form))
    <3>1. Line(logged, chainHash, form) \in Lines
      BY <1>1, LineType
    <3> QED
      BY <1>1, <1>2, <2>2, <3>1, AppendProperties
  <2> QED
    BY <1>1, <2>1, <2>2, AppendedFacts
<1>4. Has(g, h)
  BY <1>2, <1>3 DEF Has
<1> QED
  BY <1>4 DEF g

\* audit.go:96: the only lines an undisturbed log ever loses are those of the
\* oldest generation, when there are as many as there may be.
THEOREM OnlyTheOldestGoes == Spec => OnlyTheOldestIsDropped
<1>1. ASSUME FirstInv, [Next]_vars
      PROVE  \/ \A h : Has(Files, h) => Has(Files', h)
             \/ disturbed
             \/ /\ pc = "remove" /\ \A i \in 1 .. MaxFiles : gens[i] # <<>>
                /\ \A h : Has(Files, h) => Has(Files', h) \/ h \in Hashes(gens[MaxFiles])
  <2> SUFFICES ASSUME ~disturbed
               PROVE  \/ \A h : Has(Files, h) => Has(Files', h)
                      \/ /\ pc = "remove" /\ \A i \in 1 .. MaxFiles : gens[i] # <<>>
                         /\ \A h : Has(Files, h) => Has(Files', h) \/ h \in Hashes(gens[MaxFiles])
    OBVIOUS
  <2>0. /\ LogInv /\ Making /\ Compact /\ gens \in [1 .. MaxFiles -> Seq(Lines)]
        /\ Files \in [Numbers -> Seq(Lines)]
    BY <1>1, FilesType DEF FirstInv, ChainInv, CompactInv, LogInv, TypeOK
  <2>1. CASE UNCHANGED <<active, gens>>
    BY <2>1, FilesKept
  <2>2. CASE RotateRemoves
    <3>1. CASE Fails
      BY <2>1, <3>1 DEF Fails
    <3>2. CASE gens' = [gens EXCEPT ![MaxFiles] = <<>>] /\ active' = active
      <4>1. pc = "remove" /\ Hole = 0
        BY <2>2 DEF RotateRemoves, Hole
      <4>2. CASE gens[MaxFiles] = <<>>
        <5>1. gens' = gens
          BY <2>0, <3>2, <4>2, NumbersFacts
        <5> QED
          BY <2>1, <3>2, <5>1
      <4>3. CASE gens[MaxFiles] # <<>>
        <5>1. ASSUME NEW i \in 1 .. MaxFiles PROVE gens[i] # <<>>
          <6>1. i = MaxFiles \/ (i < MaxFiles /\ i # 0 /\ MaxFiles \in 1 .. MaxFiles)
            BY NumbersFacts
          <6> QED
            BY <2>0, <4>1, <4>3, <6>1 DEF Compact
        <5>2. Files' = [Files EXCEPT ![MaxFiles] = <<>>]
          BY <2>0, <3>2, FilesDropped
        <5>3. /\ \A i \in Numbers : i # MaxFiles => Files'[i] = Files[i]
              /\ Files[MaxFiles] = gens[MaxFiles]
          BY <2>0, <5>2, FilesFacts, NumbersFacts
        <5>4. \A h : Has(Files, h) => Has(Files', h) \/ h \in Hashes(gens[MaxFiles])
          BY <5>3 DEF Has, Hashes
        <5> QED
          BY <4>1, <5>1, <5>4
      <4> QED
        BY <4>2, <4>3
    <3> QED
      BY <2>2, <3>1, <3>2 DEF RotateRemoves
  <2>3. CASE RotateShifts
    <3>1. CASE Fails
      BY <2>1, <3>1 DEF Fails
    <3>2. CASE gens' = Shifted(shift) /\ active' = active
      <4>1. /\ shift \in 1 .. MaxFiles - 1 /\ shift \in 0 .. MaxFiles - 1
            /\ shift + 1 \in 1 .. MaxFiles /\ gens[shift + 1] = <<>>
        <5>1. pc = "shift"
          BY <2>3 DEF RotateShifts
        <5>2. shift \in 1 .. MaxFiles - 1 /\ gens[shift + 1] = <<>>
          BY <2>0, <5>1 DEF Making, LogInv, Working
        <5> QED
          BY <5>2, NumbersFacts
      <4>2. Files[shift + 1] = <<>>
        BY <4>1, FilesFacts
      <4>3. Files' = Files \/ Files' = Moved(Files, shift)
        BY <2>0, <3>2, <4>1, FilesShifted
      <4>4. \A h : Has(Files, h) => Has(Moved(Files, shift), h)
        BY <2>0, <4>1, <4>2, MovedHas
      <4> QED
        BY <4>3, <4>4
    <3> QED
      BY <2>3, <3>1, <3>2 DEF RotateShifts
  <2>4. CASE RotateRenames
    <3>1. CASE Fails
      BY <2>1, <3>1 DEF Fails
    <3>2. CASE gens' = [gens EXCEPT ![1] = active] /\ active' = <<>>
      <4>1. 0 \in 0 .. MaxFiles - 1 /\ Files[0 + 1] = <<>>
        BY <2>0, <2>4, FilesFacts, NumbersFacts DEF RotateRenames, Making
      <4>2. Files' = Moved(Files, 0)
        BY <2>0, <3>2, FilesRenamed
      <4>3. \A h : Has(Files, h) => Has(Moved(Files, 0), h)
        BY <2>0, <4>1, MovedHas
      <4> QED
        BY <4>2, <4>3
    <3> QED
      BY <2>4, <3>1, <3>2 DEF RotateRenames
  <2>5. CASE LogAppends \/ Crash
    <3>1. UNCHANGED gens
      BY <2>5 DEF LogAppends, Crash
    <3>2. CASE pc # "idle" /\ \E form \in {"whole", "bare", "torn"} : active' = Appended(form)
      BY <2>0, <3>1, <3>2, WrittenHas
    <3>3. CASE UNCHANGED active
      BY <2>1, <3>1, <3>3
    <3> QED
      BY <2>5, <3>2, <3>3 DEF LogAppends, Crash
  <2>6. CASE Boot \/ LogStarts \/ UNCHANGED vars
    BY <2>1, <2>6 DEF Boot, LogStarts, vars
  <2> QED
    BY <1>1, <2>2, <2>3, <2>4, <2>5, <2>6 DEF Next, Log
<1>2. (\A h : h \in OnDisk <=> Has(Files, h))'
  BY OnDiskFiles, PTL
<1>3. FirstInv /\ [Next]_vars =>
        [\/ OnDisk \subseteq OnDisk' \/ disturbed
         \/ /\ pc = "remove" /\ \A i \in 1 .. MaxFiles : gens[i] # <<>>
            /\ OnDisk \ OnDisk' \subseteq Hashes(gens[MaxFiles])]_vars
  <2>1. \A h : h \in OnDisk' <=> Has(Files', h)
    BY <1>2 DEF Has, Numbers
  <2> QED
    BY <1>1, <2>1, OnDiskFiles
<1> QED
  BY <1>3, FirstLines, PTL DEF Spec, OnlyTheOldestIsDropped
=============================================================================
