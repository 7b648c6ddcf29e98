--------------------------- MODULE KnowledgeProofs ---------------------------
(***************************************************************************)
(* Proofs about Knowledge and its three stores, for any texts, names,      *)
(* files and bounds.                                                       *)
(***************************************************************************)
EXTENDS Knowledge, SequenceTheorems, FiniteSetTheorems, WellFoundedInduction, TLAPS

----------------------------------------------------------------------------
(* Induction and recursion over the natural numbers, stated of sets and    *)
(* functions.                                                              *)

\* A set of natural numbers that is not empty has a least element.
LEMMA LeastNumber ==
  ASSUME NEW T \in SUBSET Nat, NEW t \in T
  PROVE  \E n \in T : \A m \in T : n <= m
<1> DEFINE Below == {0 .. n : n \in {m \in T : m <= t}}
           Order == StrictSubsetOrdering(0 .. t)
<1>1. IsWellFoundedOn(Order, SUBSET (0 .. t))
  <2>1. IsFiniteSet(0 .. t)
    BY FS_Interval
  <2>2. FiniteSubsetsOf(0 .. t) = SUBSET (0 .. t)
    BY <2>1, FS_FiniteSubsetsOfFinite
  <2> QED
    BY <2>2, FS_StrictSubsetOrderingWellFounded
<1>2. Below \subseteq SUBSET (0 .. t) /\ Below # {}
  OBVIOUS
<1>3. PICK b \in Below : \A c \in Below : ~(<<c, b>> \in Order)
  <2> HIDE DEF Below, Order
  <2> QED
    BY <1>1, <1>2, WFMin, Zenon
<1>4. PICK n \in T : n <= t /\ b = 0 .. n
  OBVIOUS
<1>5. ASSUME NEW m \in T, m < n PROVE FALSE
  <2>1. 0 .. m \in Below
    BY <1>4, <1>5
  <2>2. 0 .. m \subseteq 0 .. n /\ n \notin 0 .. m /\ n \in 0 .. n
    BY <1>5
  <2>3. <<0 .. m, b>> \in Order
    BY <1>2, <1>4, <2>1, <2>2 DEF StrictSubsetOrdering
  <2> QED
    BY <1>3, <2>1, <2>3
<1> QED
  BY <1>5

\* What holds of 0 and of the successor of every number it holds of, up to N,
\* holds up to N.
LEMMA UpTo ==
  ASSUME NEW N \in Nat, NEW S, 0 \in S,
         \A n \in 1 .. N : n - 1 \in S => n \in S
  PROVE  0 .. N \subseteq S
<1> SUFFICES ASSUME NEW x \in 0 .. N, x \notin S PROVE FALSE
  OBVIOUS
<1>1. PICK n \in (0 .. N) \ S : \A m \in (0 .. N) \ S : n <= m
  BY LeastNumber, x \in (0 .. N) \ S, (0 .. N) \ S \in SUBSET Nat
<1>2. n \in 1 .. N /\ n - 1 \in 0 .. N /\ ~(n <= n - 1)
  BY <1>1
<1>3. n - 1 \in S
  BY <1>1, <1>2
<1> QED
  BY <1>1, <1>2, <1>3

\* A function may be defined step by step.
Steps(f, first, step, N) == f[0] = first /\ \A n \in 1 .. N : f[n] = step[<<n, f[n - 1]>>]

LEMMA StepByStep ==
  ASSUME NEW N \in Nat, NEW V, NEW first \in V, NEW step \in [(1 .. N) \X V -> V]
  PROVE  \E f \in [0 .. N -> V] : Steps(f, first, step, N)
<1> USE DEF Steps
<1> DEFINE Follows(f, m) == f \in [0 .. m -> V] /\ Steps(f, first, step, m)
           S == {m \in 0 .. N : \E f : Follows(f, m)}
<1>1. 0 \in S
  <2>1. Follows([i \in 0 .. 0 |-> first], 0)
    OBVIOUS
  <2> HIDE DEF Follows
  <2> QED
    BY <2>1
<1>2. ASSUME NEW m \in 1 .. N, m - 1 \in S PROVE m \in S
  <2>1. PICK f : Follows(f, m - 1)
    BY <1>2
  <2>2. f[m - 1] \in V
    BY <2>1
  <2> DEFINE v == step[<<m, f[m - 1]>>]
             g == [i \in 0 .. m |-> IF i = m THEN v ELSE f[i]]
  <2>3. v \in V
    BY <2>2
  <2>4. g \in [0 .. m -> V] /\ g[0] = first /\ g[m] = v /\ \A i \in 0 .. m - 1 : g[i] = f[i]
    BY <2>1, <2>3
  <2>5. ASSUME NEW n \in 1 .. m PROVE g[n] = step[<<n, g[n - 1]>>]
    <3>1. CASE n = m
      <4>1. g[m - 1] = f[m - 1] /\ g[m] = v
        BY <2>4
      <4> QED
        BY <3>1, <4>1
    <3>2. CASE n # m
      BY <2>1, <2>4, <3>2
    <3> QED
      BY <3>1, <3>2
  <2>6. Follows(g, m)
    BY <2>4, <2>5
  <2> HIDE DEF Follows, g
  <2> QED
    BY <2>6
<1>3. N \in S
  <2> HIDE DEF S
  <2> QED
    BY <1>1, <1>2, UpTo
<1> QED
  BY <1>3

----------------------------------------------------------------------------
(* MemoryStore: what is read from a file and written to it. *)

AnyWord  == Words \cup {Cut}
FileLine == [bullet : BOOLEAN, word : AnyWord]
OneLiner == {<<Plain(w)>> : w \in AnyWord}

\* Loaded is what its recursion computes.
LEMMA LoadedStepByStep ==
  ASSUME NEW lines \in Seq(FileLine)
  PROVE  \E f \in [0 .. Len(lines) -> Seq(OneLiner)] :
           /\ f[0] = <<>> /\ \A n \in 1 .. Len(lines) : f[n] = Read(f[n - 1], lines[n])
           /\ Loaded(lines) = f[Len(lines)]
<1> DEFINE N == Len(lines)
           V == Seq(OneLiner)
           step == [p \in (1 .. N) \X V |-> Read(p[2], lines[p[1]])]
           IsRead(f) == f = [n \in 0 .. N |-> IF n = 0 THEN <<>>
                                               ELSE Read(f[n - 1], lines[n])]
<1>1. N \in Nat /\ \A n \in 1 .. N : lines[n] \in FileLine
  OBVIOUS
<1>2. ASSUME NEW list \in V, NEW line \in FileLine PROVE Read(list, line) \in V
  <2>1. <<Plain(line.word)>> \in OneLiner
    BY DEF OneLiner, FileLine
  <2> QED
    BY <2>1, AppendProperties DEF Read
<1>3. step \in [(1 .. N) \X V -> V]
  <2>1. \A p \in (1 .. N) \X V : p[1] \in 1 .. N /\ p[2] \in V
    OBVIOUS
  <2> QED
    BY <1>1, <1>2, <2>1, Zenon
<1>4. PICK f \in [0 .. N -> V] : f[0] = <<>> /\ \A n \in 1 .. N : f[n] = step[<<n, f[n - 1]>>]
  <2>1. <<>> \in V
    OBVIOUS
  <2> HIDE DEF N, V, step
  <2>2. \E f \in [0 .. N -> V] : Steps(f, <<>>, step, N)
    BY <1>1, <1>3, <2>1, StepByStep, Zenon
  <2> QED
    BY <2>2 DEF Steps
<1>5. \A n \in 1 .. N : f[n] = Read(f[n - 1], lines[n])
  <2> SUFFICES ASSUME NEW n \in 1 .. N PROVE f[n] = Read(f[n - 1], lines[n])
    OBVIOUS
  <2>1. n - 1 \in 0 .. N
    BY <1>1
  <2>2. <<n, f[n - 1]>> \in (1 .. N) \X V
    BY <1>4, <2>1
  <2> QED
    BY <1>4, <2>2
<1>6. IsRead(f)
  <2> HIDE DEF V, N
  <2> QED
    BY <1>1, <1>4, <1>5
<1>7. PICK g : IsRead(g) /\ Loaded(lines) = g[N]
  BY <1>6, Zenon DEF Loaded
<1>8. \A n \in 0 .. N : g[n] = f[n]
  <2> DEFINE S == {n \in 0 .. N : g[n] = f[n]}
  <2>0. /\ g[0] = <<>> /\ 0 \in 0 .. N
        /\ \A n \in 1 .. N : g[n] = Read(g[n - 1], lines[n])
    <3> HIDE DEF N
    <3> QED
      BY <1>1, <1>7
  <2>1. 0 \in S
    BY <1>4, <2>0
  <2>2. \A n \in 1 .. N : n - 1 \in S => n \in S
    BY <1>1, <1>5, <2>0
  <2>3. 0 .. N \subseteq S
    <3> HIDE DEF S, N
    <3> QED
      BY <1>1, <2>1, <2>2, UpTo
  <2> QED
    BY <2>3
<1>9. N \in 0 .. N
  BY <1>1
<1> QED
  BY <1>4, <1>5, <1>7, <1>8, <1>9

\* What is read is one line each, and every line of the file that is a fact is
\* among it.
LEMMA LoadedFacts ==
  ASSUME NEW lines \in Seq(FileLine)
  PROVE  /\ Loaded(lines) \in Seq(OneLiner)
         /\ \A i \in DOMAIN lines : lines[i].bullet =>
              \E j \in DOMAIN Loaded(lines) : Loaded(lines)[j] = <<Plain(lines[i].word)>>
<1> DEFINE N == Len(lines)
           Has(list, line) == \E j \in DOMAIN list : list[j] = <<Plain(line.word)>>
<1>1. PICK f \in [0 .. N -> Seq(OneLiner)] :
        /\ f[0] = <<>> /\ \A n \in 1 .. N : f[n] = Read(f[n - 1], lines[n])
        /\ Loaded(lines) = f[N]
  BY LoadedStepByStep
<1>2. N \in Nat /\ DOMAIN lines = 1 .. N /\ \A n \in 1 .. N : lines[n] \in FileLine
  OBVIOUS
<1> HIDE DEF N
<1>3. ASSUME NEW list \in Seq(OneLiner), NEW line \in FileLine
      PROVE  /\ line.bullet => Has(Read(list, line), line)
             /\ \A other : Has(list, other) => Has(Read(list, line), other)
  <2>1. CASE ~line.bullet
    BY <2>1 DEF Read, IsBullet
  <2>2. CASE line.bullet
    <3> DEFINE fact == <<Plain(line.word)>>
    <3>1. fact \in OneLiner
      BY DEF OneLiner, FileLine
    <3>2. Read(list, line) = Append(list, fact)
      BY <2>2 DEF Read, IsBullet
    <3> HIDE DEF fact
    <3>3. /\ DOMAIN Append(list, fact) = 1 .. Len(list) + 1
          /\ Append(list, fact)[Len(list) + 1] = fact
          /\ \A j \in DOMAIN list : j \in 1 .. Len(list) + 1 /\ Append(list, fact)[j] = list[j]
      BY <3>1
    <3>4. Len(list) + 1 \in 1 .. Len(list) + 1
      OBVIOUS
    <3> QED
      BY <3>2, <3>3, <3>4 DEF fact
  <2> QED
    BY <2>1, <2>2
<1> DEFINE S == {n \in 0 .. N : \A i \in 1 .. n : lines[i].bullet => Has(f[n], lines[i])}
<1>4. 0 \in S
  BY <1>2
<1>5. ASSUME NEW n \in 1 .. N, n - 1 \in S PROVE n \in S
  <2>0. n - 1 \in 0 .. N
    <3>1. N \in Nat
      BY <1>2, Zenon
    <3> HIDE DEF S
    <3> QED
      BY <3>1
  <2>1. /\ n - 1 \in 0 .. N /\ f[n - 1] \in Seq(OneLiner) /\ lines[n] \in FileLine
        /\ f[n] = Read(f[n - 1], lines[n])
    BY <1>1, <1>2, <2>0, Zenon
  <2>2. ASSUME NEW i \in 1 .. n, lines[i].bullet PROVE Has(f[n], lines[i])
    <3>1. CASE i = n
      <4> HIDE DEF Has
      <4> QED
        BY <1>3, <2>1, <2>2, <3>1
    <3>2. CASE i # n
      <4>1. i \in 1 .. n - 1
        BY <1>2, <3>2
      <4>2. Has(f[n - 1], lines[i])
        BY <1>5, <2>2, <4>1
      <4> HIDE DEF Has
      <4> QED
        BY <1>3, <2>1, <4>2
    <3> QED
      BY <3>1, <3>2
  <2> HIDE DEF Has
  <2> QED
    BY <1>2, <2>2
<1>6. N \in S
  <2> HIDE DEF S
  <2>1. 0 .. N \subseteq S
    BY <1>2, <1>4, <1>5, UpTo
  <2> QED
    BY <1>2, <2>1
<1>7. f[N] \in Seq(OneLiner)
  BY <1>1, <1>2
<1> QED
  BY <1>1, <1>2, <1>6, <1>7

\* Nothing else is read.
LEMMA LoadedFromFile ==
  ASSUME NEW lines \in Seq(FileLine), NEW j \in DOMAIN Loaded(lines)
  PROVE  \E i \in DOMAIN lines : /\ lines[i] = Bullet(lines[i].word)
                                 /\ Loaded(lines)[j] = <<Plain(lines[i].word)>>
<1> DEFINE N == Len(lines)
           Sources(list) ==
             \A k \in DOMAIN list : \E i \in 1 .. N :
               lines[i].bullet /\ list[k] = <<Plain(lines[i].word)>>
<1>1. PICK f \in [0 .. N -> Seq(OneLiner)] :
        /\ f[0] = <<>> /\ \A n \in 1 .. N : f[n] = Read(f[n - 1], lines[n])
        /\ Loaded(lines) = f[N]
  BY LoadedStepByStep
<1>2. N \in Nat /\ DOMAIN lines = 1 .. N /\ \A n \in 1 .. N : lines[n] \in FileLine
  OBVIOUS
<1> HIDE DEF N
<1>3. ASSUME NEW list \in Seq(OneLiner), NEW n \in 1 .. N, Sources(list)
      PROVE  Sources(Read(list, lines[n]))
  <2>1. CASE ~lines[n].bullet
    BY <1>3, <2>1 DEF Read, IsBullet
  <2>2. CASE lines[n].bullet
    <3> DEFINE fact == <<Plain(lines[n].word)>>
    <3>1. Read(list, lines[n]) = Append(list, fact)
      BY <2>2 DEF Read, IsBullet
    <3>2. fact \in OneLiner
      BY <1>2 DEF OneLiner, FileLine
    <3> HIDE DEF fact
    <3>3. \A k \in DOMAIN Append(list, fact) :
            \/ Append(list, fact)[k] = fact
            \/ k \in DOMAIN list /\ Append(list, fact)[k] = list[k]
      BY <3>2
    <3> QED
      BY <1>3, <2>2, <3>1, <3>3 DEF fact
  <2> QED
    BY <2>1, <2>2
<1> DEFINE S == {n \in 0 .. N : Sources(f[n])}
<1>4. 0 \in S
  BY <1>1, <1>2
<1>5. ASSUME NEW n \in 1 .. N, n - 1 \in S PROVE n \in S
  <2>1. n - 1 \in 0 .. N
    BY <1>2
  <2>2. f[n - 1] \in Seq(OneLiner) /\ Sources(f[n - 1]) /\ f[n] = Read(f[n - 1], lines[n])
    BY <1>1, <1>5, <2>1
  <2> HIDE DEF Sources
  <2>3. Sources(f[n])
    BY <1>3, <2>2
  <2> QED
    BY <1>2, <2>3
<1>6. N \in S
  <2> HIDE DEF S
  <2>1. 0 .. N \subseteq S
    BY <1>2, <1>4, <1>5, UpTo
  <2> QED
    BY <1>2, <2>1
<1>7. PICK i \in 1 .. N : lines[i].bullet /\ Loaded(lines)[j] = <<Plain(lines[i].word)>>
  BY <1>1, <1>6
<1>8. lines[i] = Bullet(lines[i].word)
  BY <1>2, <1>7 DEF FileLine, Bullet
<1> QED
  BY <1>2, <1>7, <1>8

\* A file of facts only is read line by line.
LEMMA LoadedLineByLine ==
  ASSUME NEW lines \in Seq(FileLine), \A i \in DOMAIN lines : lines[i].bullet
  PROVE  Loaded(lines) = [i \in DOMAIN lines |-> <<Plain(lines[i].word)>>]
<1> DEFINE N == Len(lines)
           fact(i) == <<Plain(lines[i].word)>>
<1>1. PICK f \in [0 .. N -> Seq(OneLiner)] :
        /\ f[0] = <<>> /\ \A n \in 1 .. N : f[n] = Read(f[n - 1], lines[n])
        /\ Loaded(lines) = f[N]
  BY LoadedStepByStep
<1>2. N \in Nat /\ DOMAIN lines = 1 .. N /\ \A n \in 1 .. N : lines[n] \in FileLine
  OBVIOUS
<1>3. \A i \in 1 .. N : fact(i) \in OneLiner
  <2>1. \A i \in 1 .. N : lines[i].word \in AnyWord
    BY <1>2 DEF FileLine
  <2> QED
    BY <2>1, Zenon DEF OneLiner
<1> HIDE DEF N, fact
<1> DEFINE S == {n \in 0 .. N : f[n] = [i \in 1 .. n |-> fact(i)]}
<1>4. 0 \in S
  BY <1>1, <1>2
<1>5. ASSUME NEW n \in 1 .. N, n - 1 \in S PROVE n \in S
  <2>1. n - 1 \in 0 .. N /\ f[n - 1] \in Seq(OneLiner)
        /\ f[n - 1] = [i \in 1 .. n - 1 |-> fact(i)]
    BY <1>2, <1>5
  <2>2. Len(f[n - 1]) = n - 1
    BY <1>2, <2>1
  <2>3. f[n] = Append(f[n - 1], fact(n))
    BY <1>1, <1>2 DEF Read, IsBullet, fact
  <2>4. Append(f[n - 1], fact(n)) = [i \in 1 .. n |-> IF i = n THEN fact(n) ELSE f[n - 1][i]]
    BY <1>2, <1>3, <2>1, <2>2
  <2>5. f[n] = [i \in 1 .. n |-> fact(i)]
    BY <1>2, <2>1, <2>3, <2>4
  <2> QED
    BY <1>2, <2>5
<1>6. N \in S
  <2> HIDE DEF S
  <2>1. 0 .. N \subseteq S
    BY <1>2, <1>4, <1>5, UpTo
  <2> QED
    BY <1>2, <2>1
<1> QED
  BY <1>1, <1>2, <1>6 DEF fact

\* FlattenSeq concatenates one sequence after the other.
LEMMA FlattenedStepByStep ==
  ASSUME NEW S, NEW seqs \in Seq(Seq(S))
  PROVE  \E f \in [0 .. Len(seqs) -> Seq(S)] :
           /\ f[0] = <<>> /\ \A n \in 1 .. Len(seqs) : f[n] = f[n - 1] \o seqs[n]
           /\ FlattenSeq(seqs) = f[Len(seqs)]
<1> DEFINE N == Len(seqs)
           V == Seq(S)
           step == [p \in (1 .. N) \X V |-> p[2] \o seqs[p[1]]]
           IsFlat(f) == f = [i \in 1 .. N |-> IF i = 1 THEN seqs[i] ELSE f[i - 1] \o seqs[i]]
<1>1. N \in Nat /\ \A n \in 1 .. N : seqs[n] \in V
  OBVIOUS
<1>2. step \in [(1 .. N) \X V -> V]
  <2>1. \A p \in (1 .. N) \X V : p[2] \o seqs[p[1]] \in V
    BY <1>1
  <2> HIDE DEF N, V
  <2> QED
    BY <2>1
<1>3. PICK f \in [0 .. N -> V] : Steps(f, <<>>, step, N)
  <2>1. <<>> \in V
    OBVIOUS
  <2> HIDE DEF N, V, step
  <2> QED
    BY <1>1, <1>2, <2>1, StepByStep, Zenon
<1>4. f[0] = <<>> /\ \A n \in 1 .. N : f[n] = f[n - 1] \o seqs[n]
  <2>1. f[0] = <<>> /\ \A n \in 1 .. N : f[n] = step[<<n, f[n - 1]>>]
    BY <1>3 DEF Steps
  <2> SUFFICES ASSUME NEW n \in 1 .. N PROVE f[n] = f[n - 1] \o seqs[n]
    BY <2>1
  <2>2. n - 1 \in 0 .. N
    BY <1>1
  <2>3. <<n, f[n - 1]>> \in (1 .. N) \X V
    BY <1>3, <2>2
  <2> QED
    BY <2>1, <2>3
<1> HIDE DEF N, V
<1>5. CASE N = 0
  <2>1. FlattenSeq(seqs) = seqs /\ seqs = <<>>
    BY <1>5 DEF FlattenSeq, N
  <2> QED
    BY <1>4, <1>5, <2>1 DEF N, V
<1>6. CASE N # 0
  <2> DEFINE h == [i \in 1 .. N |-> f[i]]
  <2>1. IsFlat(h)
    <3>1. \A i \in 1 .. N : f[i] = IF i = 1 THEN seqs[i] ELSE h[i - 1] \o seqs[i]
      <4> SUFFICES ASSUME NEW i \in 1 .. N
                   PROVE  f[i] = IF i = 1 THEN seqs[i] ELSE h[i - 1] \o seqs[i]
        OBVIOUS
      <4>1. CASE i = 1
        <5>1. <<>> \o seqs[1] = seqs[1]
          BY <1>1, <4>1, ConcatEmptySeq DEF V
        <5>2. f[i] = f[i - 1] \o seqs[i]
          BY <1>4, Zenon
        <5>3. i - 1 = 0
          BY <4>1
        <5> QED
          BY <1>4, <4>1, <5>1, <5>2, <5>3, Zenon
      <4>2. CASE i # 1
        <5>1. i - 1 \in 1 .. N
          BY <1>1, <4>2
        <5> QED
          BY <1>4, <4>2, <5>1
      <4> QED
        BY <4>1, <4>2
    <3> QED
      BY <3>1, Zenon
  <2>2. PICK g : IsFlat(g) /\ FlattenSeq(seqs) = g[N]
    BY <2>1, <1>6, Zenon DEF FlattenSeq, N
  <2>3. \A n \in 1 .. N : g[n] = IF n = 1 THEN seqs[n] ELSE g[n - 1] \o seqs[n]
    BY <2>2, Zenon
  <2> DEFINE T == {n \in 0 .. N : n = 0 \/ g[n] = f[n]}
  <2>4. 0 \in T
    BY <1>1
  <2>5. ASSUME NEW n \in 1 .. N, n - 1 \in T PROVE n \in T
    <3>1. CASE n = 1
      <4>1. <<>> \o seqs[1] = seqs[1]
        BY <1>1, <3>1, ConcatEmptySeq DEF V
      <4>2. g[n] = seqs[n] /\ f[n] = f[n - 1] \o seqs[n]
        BY <1>4, <2>3, <3>1, Zenon
      <4>3. n - 1 = 0 /\ n \in 0 .. N
        BY <1>1, <3>1
      <4>4. g[n] = f[n]
        BY <1>4, <3>1, <4>1, <4>2, <4>3, Zenon
      <4> QED
        BY <4>3, <4>4
    <3>2. CASE n # 1
      <4>1. g[n - 1] = f[n - 1]
        BY <1>1, <2>5, <3>2
      <4>2. g[n] = g[n - 1] \o seqs[n] /\ f[n] = f[n - 1] \o seqs[n]
        BY <1>4, <2>3, <3>2, Zenon
      <4>3. g[n] = f[n]
        BY <4>1, <4>2, Zenon
      <4> QED
        BY <1>1, <4>3
    <3> QED
      BY <3>1, <3>2
  <2>6. 0 .. N \subseteq T
    <3> HIDE DEF T
    <3> QED
      BY <1>1, <2>4, <2>5, UpTo
  <2>7. g[N] = f[N]
    BY <1>1, <1>6, <2>6
  <2> QED
    BY <1>4, <2>2, <2>7 DEF N, V
<1> QED
  BY <1>5, <1>6

Fact == {text \in Seq(FileLine) : text # <<>>}

LEMMA OneLinersAreFacts == OneLiner \subseteq Fact
<1> SUFFICES ASSUME NEW w \in AnyWord PROVE <<Plain(w)>> \in Fact
  BY DEF OneLiner
<1>1. Plain(w) \in FileLine
  BY DEF Plain, FileLine
<1> QED
  BY <1>1 DEF Fact

LEMMA WrittenType ==
  ASSUME NEW text \in Fact
  PROVE  /\ Written(text) \in Seq(FileLine)
         /\ Len(Written(text)) >= 1 /\ Written(text)[1] = Bullet(text[1].word)
<1>1. text \in Seq(FileLine) /\ text # <<>> /\ text[1] \in FileLine
  BY DEF Fact
<1>2. Bullet(text[1].word) \in FileLine
  BY <1>1 DEF Bullet, FileLine
<1>3. Tail(text) \in Seq(FileLine)
  BY <1>1
<1> QED
  BY <1>2, <1>3 DEF Written

LEMMA RenderedType ==
  ASSUME NEW list \in Seq(Fact)
  PROVE  /\ [i \in DOMAIN list |-> Written(list[i])] \in Seq(Seq(FileLine))
         /\ Len([i \in DOMAIN list |-> Written(list[i])]) = Len(list)
         /\ Rendered(list) \in Seq(FileLine)
<1> DEFINE parts == [i \in DOMAIN list |-> Written(list[i])]
<1>1. \A i \in 1 .. Len(list) : Written(list[i]) \in Seq(FileLine)
  BY WrittenType
<1>2. parts \in Seq(Seq(FileLine)) /\ Len(parts) = Len(list)
  BY <1>1
<1> HIDE DEF parts
<1>3. FlattenSeq(parts) \in Seq(FileLine)
  <2>1. PICK f \in [0 .. Len(parts) -> Seq(FileLine)] : FlattenSeq(parts) = f[Len(parts)]
    BY <1>2, FlattenedStepByStep
  <2> QED
    BY <1>2, <2>1
<1> QED
  BY <1>2, <1>3 DEF Rendered, parts

\* The file that is written has a line for the beginning of every fact.
LEMMA RenderedFacts ==
  ASSUME NEW list \in Seq(Fact), NEW i \in DOMAIN list
  PROVE  \E j \in DOMAIN Rendered(list) : Rendered(list)[j] = Bullet(list[i][1].word)
<1> DEFINE parts == [k \in DOMAIN list |-> Written(list[k])]
           N == Len(list)
           Has(lines) == \E j \in DOMAIN lines : lines[j] = Bullet(list[i][1].word)
<1>1. parts \in Seq(Seq(FileLine)) /\ Len(parts) = N /\ N \in Nat /\ i \in 1 .. N
  BY RenderedType
<1>2. PICK f \in [0 .. N -> Seq(FileLine)] :
        /\ f[0] = <<>> /\ \A n \in 1 .. N : f[n] = f[n - 1] \o parts[n]
        /\ FlattenSeq(parts) = f[N]
  <2> HIDE DEF parts
  <2>1. PICK f \in [0 .. Len(parts) -> Seq(FileLine)] :
          /\ f[0] = <<>> /\ \A n \in 1 .. Len(parts) : f[n] = f[n - 1] \o parts[n]
          /\ FlattenSeq(parts) = f[Len(parts)]
    BY <1>1, FlattenedStepByStep
  <2> QED
    BY <1>1, <2>1
<1>3. /\ \A n \in 1 .. N : parts[n] \in Seq(FileLine)
      /\ Len(parts[i]) >= 1 /\ parts[i][1] = Bullet(list[i][1].word)
  BY <1>1, WrittenType
<1> HIDE DEF parts, N
<1>4. ASSUME NEW a \in Seq(FileLine), NEW b \in Seq(FileLine), Has(a) PROVE Has(a \o b)
  BY <1>4
<1>5. ASSUME NEW a \in Seq(FileLine) PROVE Has(a \o parts[i])
  <2>1. /\ Len(a) + 1 \in DOMAIN (a \o parts[i])
        /\ (a \o parts[i])[Len(a) + 1] = parts[i][1]
    BY <1>1, <1>3
  <2> QED
    BY <1>3, <2>1
<1> DEFINE S == {n \in 0 .. N : i <= n => Has(f[n])}
<1>6. 0 \in S
  BY <1>1
<1>7. ASSUME NEW n \in 1 .. N, n - 1 \in S PROVE n \in S
  <2>0. n - 1 \in 0 .. N
    BY <1>1
  <2>1. f[n - 1] \in Seq(FileLine) /\ parts[n] \in Seq(FileLine)
    BY <1>2, <1>3, <2>0
  <2>2. f[n] = f[n - 1] \o parts[n]
    BY <1>2, Zenon
  <2>3. CASE i = n
    <3>1. Has(f[n])
      BY <1>5, <2>1, <2>2, <2>3, Zenon
    <3> QED
      BY <1>1, <3>1
  <2>4. CASE i < n
    <3>1. Has(f[n - 1])
      BY <1>1, <1>7, <2>0, <2>4
    <3> HIDE DEF Has
    <3>2. Has(f[n])
      BY <1>4, <2>1, <2>2, <3>1, Zenon
    <3> QED
      BY <1>1, <3>2
  <2>5. CASE i > n
    BY <1>1, <2>5
  <2> QED
    BY <1>1, <2>3, <2>4, <2>5
<1>8. N \in S
  <2> HIDE DEF S
  <2>1. 0 .. N \subseteq S
    BY <1>1, <1>6, <1>7, UpTo
  <2> QED
    BY <1>1, <2>1
<1>9. Rendered(list) = f[N]
  BY <1>2 DEF Rendered, parts
<1> QED
  BY <1>1, <1>8, <1>9

\* Facts of one line each are written line by line.
LEMMA RenderedLineByLine ==
  ASSUME NEW list \in Seq(OneLiner)
  PROVE  Rendered(list) = [i \in DOMAIN list |-> Bullet(list[i][1].word)]
<1> DEFINE parts == [k \in DOMAIN list |-> Written(list[k])]
           N == Len(list)
           line(i) == Bullet(list[i][1].word)
<1>0. list \in Seq(Fact)
  BY OneLinersAreFacts
<1>1. parts \in Seq(Seq(FileLine)) /\ Len(parts) = N /\ N \in Nat /\ DOMAIN list = 1 .. N
  BY <1>0, RenderedType
<1>2. PICK f \in [0 .. N -> Seq(FileLine)] :
        /\ f[0] = <<>> /\ \A n \in 1 .. N : f[n] = f[n - 1] \o parts[n]
        /\ FlattenSeq(parts) = f[N]
  <2> HIDE DEF parts
  <2>1. PICK f \in [0 .. Len(parts) -> Seq(FileLine)] :
          /\ f[0] = <<>> /\ \A n \in 1 .. Len(parts) : f[n] = f[n - 1] \o parts[n]
          /\ FlattenSeq(parts) = f[Len(parts)]
    BY <1>1, FlattenedStepByStep
  <2> QED
    BY <1>1, <2>1
<1>3. ASSUME NEW n \in 1 .. N PROVE parts[n] = <<line(n)>> /\ line(n) \in FileLine
  <2>1. PICK w \in AnyWord : list[n] = <<Plain(w)>>
    BY DEF OneLiner
  <2>2. Tail(list[n]) = <<>> /\ list[n][1] = Plain(w) /\ Plain(w).word = w
    BY <2>1 DEF Plain
  <2>3. parts[n] = <<line(n)>> \o <<>>
    BY <1>1, <2>2 DEF Written
  <2>4. line(n) \in FileLine
    BY <2>2 DEF Bullet, FileLine
  <2> HIDE DEF line, parts
  <2>5. <<line(n)>> \o <<>> = <<line(n)>>
    BY <2>4
  <2> QED
    BY <2>3, <2>4, <2>5
<1> HIDE DEF parts, N, line
<1> DEFINE S == {n \in 0 .. N : f[n] = [i \in 1 .. n |-> line(i)]}
<1>4. 0 \in S
  BY <1>1, <1>2
<1>5. ASSUME NEW n \in 1 .. N, n - 1 \in S PROVE n \in S
  <2>1. n - 1 \in 0 .. N /\ f[n - 1] \in Seq(FileLine)
        /\ f[n - 1] = [i \in 1 .. n - 1 |-> line(i)]
    BY <1>1, <1>2, <1>5
  <2>2. Len(f[n - 1]) = n - 1
    BY <1>1, <2>1
  <2>3. f[n] = f[n - 1] \o <<line(n)>>
    BY <1>2, <1>3, Zenon
  <2>4. f[n] = [i \in 1 .. n |-> IF i = n THEN line(n) ELSE f[n - 1][i]]
    BY <1>1, <1>3, <2>1, <2>2, <2>3
  <2>5. f[n] = [i \in 1 .. n |-> line(i)]
    BY <1>1, <2>1, <2>4
  <2> QED
    BY <1>1, <2>5
<1>6. N \in S
  <2> HIDE DEF S
  <2>1. 0 .. N \subseteq S
    BY <1>1, <1>4, <1>5, UpTo
  <2> QED
    BY <1>1, <2>1
<1>7. Rendered(list) = f[N]
  BY <1>2 DEF Rendered, parts
<1> QED
  BY <1>1, <1>6, <1>7 DEF line

----------------------------------------------------------------------------
(* The composition runs every store as its own module describes it: a step *)
(* of Knowledge is a step of the store or leaves it alone.                 *)

LEMMA KnowledgeIsAMemoryStore == SpecAll => Spec
<1>1. InitAll => Init
  BY DEF InitAll
<1>2. [NextAll]_knowledge => [Next]_vars
  BY Zenon DEF NextAll, knowledge, NewAgent, ToolCall, MemoryCall, ToolCallEnds, TimePasses,
     BotCrashes, Next
<1> QED
  BY <1>1, <1>2, PTL DEF SpecAll, Spec

LEMMA KnowledgeIsASkillManager == SpecAll => Skill!Spec
<1>1. InitAll => Skill!Init
  BY DEF InitAll
<1>2. [NextAll]_knowledge => [Skill!Next]_<<up, cache, dir, savedSkills, lag>>
  <2>1. UNCHANGED knowledge => UNCHANGED <<up, cache, dir, savedSkills, lag>>
    BY DEF knowledge, vars, skillVars
  <2>2. NewAgent => Skill!Next
    BY DEF NewAgent, Skill!Next
  <2>3. ToolCall => Skill!Next \/ UNCHANGED <<up, cache, dir, savedSkills, lag>>
    BY DEF ToolCall, MemoryCall, Clear, SaveAgain, SaveAppends, Skill!Next, vars, skillVars
  <2>4. ToolCallEnds => UNCHANGED <<up, cache, dir, savedSkills, lag>>
    BY DEF ToolCallEnds, SaveStores, SaveFails, skillVars
  <2>5. TimePasses => UNCHANGED <<up, cache, dir, savedSkills, lag>>
    BY DEF TimePasses, vars, skillVars
  <2>6. BotCrashes => Skill!Next
    BY DEF BotCrashes, Skill!Next
  <2> QED
    BY <2>1, <2>2, <2>3, <2>4, <2>5, <2>6 DEF NextAll
<1> QED
  BY <1>1, <1>2, PTL DEF SpecAll, Skill!Spec, Skill!vars

LEMMA KnowledgeIsAReportStore == SpecAll => Report!Spec
<1>1. InitAll => Report!Init
  BY DEF InitAll
<1>2. [NextAll]_knowledge => [Report!Next]_<<up, now, reports, made>>
  <2>1. UNCHANGED knowledge => UNCHANGED <<up, now, reports, made>>
    BY DEF knowledge, vars, reportVars
  <2>2. NewAgent => Report!Next
    BY DEF NewAgent, Report!Next
  <2>3. ToolCall => Report!Next \/ UNCHANGED <<up, now, reports, made>>
    <3>1. MemoryCall => UNCHANGED up
      BY DEF MemoryCall, Clear, SaveAgain, SaveAppends
    <3> QED
      BY <3>1 DEF ToolCall, Report!Next, vars, reportVars
  <2>4. ToolCallEnds => UNCHANGED <<up, now, reports, made>>
    BY DEF ToolCallEnds, SaveStores, SaveFails, reportVars
  <2>5. TimePasses => Report!Next
    BY DEF TimePasses, Report!Next
  <2>6. BotCrashes => Report!Next
    BY DEF BotCrashes, Report!Next
  <2> QED
    BY <2>1, <2>2, <2>3, <2>4, <2>5, <2>6 DEF NextAll
<1> QED
  BY <1>1, <1>2, PTL DEF SpecAll, Report!Spec, Report!vars

----------------------------------------------------------------------------
(* The facts. *)

LEMMA TextsAreFacts == Texts \subseteq Fact
<1> SUFFICES ASSUME NEW text \in Texts PROVE text \in Fact
  OBVIOUS
<1>1. text \in Seq(Lines) /\ text # <<>>
  BY TextsAssumption DEF Nothing
<1>2. Lines \subseteq FileLine
  BY DEF Lines, FileLine, AnyWord
<1>3. text \in Seq(FileLine)
  BY <1>1, <1>2
<1> QED
  BY <1>1, <1>3 DEF Fact

MemoryType == /\ up \in BOOLEAN /\ stale \in BOOLEAN
              /\ facts \in Seq(Fact) /\ file \in Seq(FileLine)
              /\ saving \in Texts \cup {Nothing} /\ saved \subseteq Texts
              /\ strays \subseteq AnyWord

\* A write that is cut short keeps some lines, and perhaps a stray word.
LEMMA TornLines ==
  ASSUME NEW lines \in Seq(FileLine), Tears(lines)
  PROVE  \E n \in 0 .. Len(lines) :
           \/ file' = SubSeq(lines, 1, n) /\ strays' = strays
           \/ \E left \in AnyWord : /\ file' = SubSeq(lines, 1, n) \o <<Bullet(left)>>
                                    /\ strays' = strays \cup {left}
<1>1. PICK n \in 0 .. Len(lines) :
        \/ file' = SubSeq(lines, 1, n) /\ UNCHANGED strays
        \/ /\ n < Len(lines) /\ IsBullet(lines[n + 1])
           /\ \E left \in Remains[lines[n + 1].word] :
                /\ file' = SubSeq(lines, 1, n) \o <<Bullet(left)>>
                /\ strays' = strays \cup {left}
  BY Zenon DEF Tears
<1>2. CASE file' = SubSeq(lines, 1, n) /\ UNCHANGED strays
  BY <1>2
<1>3. ASSUME n < Len(lines), NEW left \in Remains[lines[n + 1].word],
             file' = SubSeq(lines, 1, n) \o <<Bullet(left)>>, strays' = strays \cup {left}
      PROVE  left \in AnyWord
  <2>1. lines[n + 1] \in FileLine
    BY <1>3
  <2>2. lines[n + 1].word \in AnyWord
    BY <2>1 DEF FileLine
  <2> QED
    BY <1>3, <2>2, TextsAssumption DEF AnyWord
<1> QED
  BY <1>1, <1>2, <1>3

LEMMA TornType ==
  ASSUME NEW lines \in Seq(FileLine), Tears(lines), strays \subseteq AnyWord
  PROVE  file' \in Seq(FileLine) /\ strays' \subseteq AnyWord
<1>1. PICK n \in 0 .. Len(lines) :
        \/ file' = SubSeq(lines, 1, n) /\ strays' = strays
        \/ \E left \in AnyWord : /\ file' = SubSeq(lines, 1, n) \o <<Bullet(left)>>
                                 /\ strays' = strays \cup {left}
  BY TornLines
<1>2. SubSeq(lines, 1, n) \in Seq(FileLine)
  OBVIOUS
<1>3. ASSUME NEW left \in AnyWord PROVE SubSeq(lines, 1, n) \o <<Bullet(left)>> \in Seq(FileLine)
  <2>1. Bullet(left) \in FileLine
    BY DEF Bullet, FileLine
  <2> QED
    BY <1>2, <2>1
<1> QED
  BY <1>1, <1>2, <1>3

LEMMA MemoryTypeInvariance == MemoryType /\ [Next]_vars => MemoryType'
<1> SUFFICES ASSUME MemoryType, [Next]_vars PROVE MemoryType'
  OBVIOUS
<1> USE DEF MemoryType
<1>0. Rendered(facts) \in Seq(FileLine)
  BY RenderedType
<1>1. CASE Load
  <2>1. Loaded(file) \in Seq(Fact)
    BY LoadedFacts, OneLinersAreFacts
  <2> QED
    BY <1>1, <2>1 DEF Load
<1>2. CASE SaveStores
  BY <1>0, <1>2 DEF SaveStores
<1>3. CASE SaveFails
  <2>1. file' \in Seq(FileLine) /\ strays' \subseteq AnyWord
    BY <1>0, <1>3, TornType DEF SaveFails
  <2> QED
    BY <1>3, <2>1 DEF SaveFails
<1>4. CASE Clear
  <2>1. <<>> \in Seq(Fact) /\ <<>> \in Seq(FileLine)
    OBVIOUS
  <2>2. facts' \in Seq(Fact) /\ file' \in Seq(FileLine) /\ strays' \subseteq AnyWord
    BY <1>4, <2>1 DEF Clear
  <2> QED
    BY <1>4, <2>2 DEF Clear
<1>5. CASE Crash
  <2>1. <<>> \in Seq(Fact)
    OBVIOUS
  <2>2. facts' \in Seq(Fact)
    BY <1>5, <2>1, Zenon DEF Crash
  <2>3. file' \in Seq(FileLine) /\ strays' \subseteq AnyWord
    BY <1>0, <1>5, TornType DEF Crash
  <2>4. up' \in BOOLEAN /\ stale' \in BOOLEAN /\ saving' = Nothing /\ saved' = saved
    BY <1>5 DEF Crash
  <2> QED
    BY <2>2, <2>3, <2>4
<1>6. ASSUME NEW text \in Texts, SaveAgain(text) PROVE MemoryType'
  BY <1>6 DEF SaveAgain
<1>7. ASSUME NEW text \in Texts, SaveAppends(text) PROVE MemoryType'
  <2>1. text \in Fact
    BY TextsAreFacts
  <2>2. FactWords(text) \subseteq AnyWord
    <3>1. Written(text) \in Seq(FileLine)
      BY <2>1, WrittenType
    <3>2. \A k \in DOMAIN Written(text) : Written(text)[k] \in FileLine
      BY <3>1
    <3>3. \A line \in FileLine : line.word \in AnyWord
      BY DEF FileLine
    <3>4. \A line \in Range(Written(text)) : line \in FileLine
      BY <3>2, Zenon DEF Range
    <3> QED
      BY <3>3, <3>4 DEF FactWords
  <2>3. strays' \subseteq AnyWord
    BY <1>7, <2>2 DEF SaveAppends
  <2> QED
    BY <1>7, <2>1, <2>3 DEF SaveAppends
<1>8. CASE UNCHANGED vars
  BY <1>8 DEF vars
<1> QED
  BY <1>1, <1>2, <1>3, <1>4, <1>5, <1>6, <1>7, <1>8 DEF Next

LEMMA InitMemoryType == Init => MemoryType
<1>1. <<>> \in Seq(Fact) /\ <<>> \in Seq(FileLine)
  OBVIOUS
<1> QED
  BY <1>1, Zenon DEF Init, MemoryType

LEMMA FactsTypeCorrect == MemoryType => TypeOK
<1> SUFFICES ASSUME MemoryType PROVE TypeOK
  OBVIOUS
<1>1. Fact \subseteq Seq(FileLine)
  BY DEF Fact
<1>2. facts \in Seq(Seq(FileLine))
  <2> DEFINE T == Seq(FileLine)
  <2>1. Fact \subseteq T /\ facts \in Seq(Fact)
    BY <1>1 DEF MemoryType
  <2> HIDE DEF T
  <2>2. facts \in Seq(T)
    BY <2>1
  <2> QED
    BY <2>2 DEF T
<1> QED
  BY <1>2, Zenon DEF MemoryType, TypeOK, FileLine, AnyWord

OnFile(word) == \E i \in DOMAIN file : file[i] = Bullet(word)

\* What was reported as saved is in the file, unless the last write failed, and
\* in the list; so is what the list has, but for the text in the hand of SaveFact.
HeldInv == /\ ~stale => \A text \in saved : OnFile(text[1].word)
           /\ up => \A text \in saved : \E i \in DOMAIN facts :
                                          facts[i][1].word = text[1].word
           /\ saving # Nothing => up /\ \E i \in DOMAIN facts : facts[i] = saving
           /\ up /\ ~stale => \A i \in DOMAIN facts :
                                facts[i] = saving \/ OnFile(facts[i][1].word)

\* A file that has just been written has every fact of the list.
LEMMA RenderedIsOnFile ==
  ASSUME MemoryType, file' = Rendered(facts), NEW i \in DOMAIN facts
  PROVE  \E j \in DOMAIN file' : file'[j] = Bullet(facts[i][1].word)
  BY RenderedFacts DEF MemoryType

LEMMA HeldInvariance == MemoryType /\ HeldInv /\ [Next]_vars => HeldInv'
<1> SUFFICES ASSUME MemoryType, HeldInv, [Next]_vars PROVE HeldInv'
  OBVIOUS
<1>1. CASE Load
  <2>1. /\ ~up /\ up' /\ facts' = Loaded(file) /\ file' = file
        /\ saving' = saving /\ stale' = stale /\ saving = Nothing
        /\ saved' = IF stale THEN saved \cap Range(facts') ELSE saved
    BY <1>1 DEF Load, HeldInv
  <2>2. \A word : OnFile(word)' = OnFile(word)
    BY <2>1 DEF OnFile, Bullet
  <2>3. ~stale' => \A text \in saved' : OnFile(text[1].word)'
    BY <2>1, <2>2 DEF HeldInv
  <2>4. ASSUME NEW text \in saved'
        PROVE  \E i \in DOMAIN facts' : facts'[i][1].word = text[1].word
    <3>1. CASE stale
      BY <2>1, <2>4, <3>1 DEF Range
    <3>2. CASE ~stale
      <4>1. PICK k \in DOMAIN file : file[k] = Bullet(text[1].word)
        BY <2>1, <2>4, <3>2 DEF HeldInv, OnFile
      <4>2. file[k].bullet /\ file[k].word = text[1].word
        BY <4>1 DEF Bullet
      <4>3. PICK i \in DOMAIN Loaded(file) : Loaded(file)[i] = <<Plain(file[k].word)>>
        BY <4>2, LoadedFacts DEF MemoryType
      <4> QED
        BY <2>1, <4>2, <4>3 DEF Plain
    <3> QED
      BY <3>1, <3>2
  <2>5. ASSUME NEW i \in DOMAIN facts' PROVE OnFile(facts'[i][1].word)
    <3>1. PICK k \in DOMAIN file : /\ file[k] = Bullet(file[k].word)
                                  /\ Loaded(file)[i] = <<Plain(file[k].word)>>
      BY <2>1, LoadedFromFile DEF MemoryType
    <3>2. facts'[i][1].word = file[k].word
      BY <2>1, <3>1 DEF Plain
    <3> QED
      BY <3>1, <3>2 DEF OnFile
  <2> QED
    BY <2>1, <2>2, <2>3, <2>4, <2>5 DEF HeldInv
<1>2. CASE SaveStores
  <2>1. /\ up /\ up' = up /\ facts' = facts /\ file' = Rendered(facts) /\ saving' = Nothing
        /\ saved' = saved \cup {saving} /\ saving # Nothing
    BY <1>2 DEF SaveStores, HeldInv
  <2>2. \A i \in DOMAIN facts : \E j \in DOMAIN file' : file'[j] = Bullet(facts[i][1].word)
    BY <2>1, RenderedIsOnFile
  <2>3. \A text \in saved' : \E i \in DOMAIN facts : facts[i][1].word = text[1].word
    BY <2>1 DEF HeldInv
  <2> QED
    BY <2>1, <2>2, <2>3 DEF HeldInv, OnFile, Bullet
<1>3. CASE SaveFails
  BY <1>3 DEF SaveFails, HeldInv
<1>4. CASE Clear
  BY <1>4 DEF Clear, HeldInv, MemoryType
<1>5. CASE Crash
  <2>1. up /\ up' = FALSE /\ saving' = Nothing /\ saved' = saved
    BY <1>5 DEF Crash
  <2>2. CASE UNCHANGED <<file, stale>>
    BY <2>1, <2>2 DEF HeldInv, OnFile, Bullet
  <2>3. CASE stale'
    BY <2>1, <2>3 DEF HeldInv
  <2>4. CASE file' = Rendered(facts)
    <3>1. \A i \in DOMAIN facts : \E j \in DOMAIN file' : file'[j] = Bullet(facts[i][1].word)
      BY <2>4, RenderedIsOnFile
    <3>2. \A text \in saved : \E i \in DOMAIN facts : facts[i][1].word = text[1].word
      BY <2>1 DEF HeldInv
    <3>3. \A text \in saved : \E j \in DOMAIN file' : file'[j] = Bullet(text[1].word)
      BY <3>1, <3>2
    <3> QED
      BY <2>1, <3>3 DEF HeldInv, OnFile, Bullet
  <2> QED
    BY <1>5, <2>2, <2>3, <2>4 DEF Crash
<1>6. ASSUME NEW text \in Texts, SaveAgain(text) PROVE HeldInv'
  <2>1. /\ up /\ saving = Nothing /\ saved' = saved \cup {text}
        /\ UNCHANGED <<up, facts, file, saving, stale>>
    BY <1>6 DEF SaveAgain
  <2>2. PICK i \in DOMAIN facts : facts[i] = text
    BY <1>6 DEF SaveAgain, AlreadySaved
  <2>3. text # Nothing
    BY TextsAssumption
  <2> QED
    BY <2>1, <2>2, <2>3 DEF HeldInv, OnFile, Bullet
<1>7. ASSUME NEW text \in Texts, SaveAppends(text) PROVE HeldInv'
  <2>1. /\ up /\ saving = Nothing /\ saving' = text /\ facts' = Append(facts, text)
        /\ UNCHANGED <<up, file, saved, stale>>
    BY <1>7 DEF SaveAppends
  <2>2. /\ DOMAIN facts' = 1 .. Len(facts) + 1 /\ facts'[Len(facts) + 1] = text
        /\ \A i \in DOMAIN facts : i \in DOMAIN facts' /\ facts'[i] = facts[i]
        /\ DOMAIN facts = 1 .. Len(facts) /\ Len(facts) \in Nat
    BY <2>1, TextsAreFacts DEF MemoryType
  <2>3. \A i \in DOMAIN facts' : i \in DOMAIN facts \/ facts'[i] = saving'
    BY <2>1, <2>2
  <2>4. \A word : OnFile(word)' = OnFile(word)
    BY <2>1 DEF OnFile, Bullet
  <2>5. \A i \in DOMAIN facts : facts[i] # Nothing
    BY DEF MemoryType, Fact, Nothing
  <2>6. ~stale => \A i \in DOMAIN facts' : facts'[i] = saving' \/ OnFile(facts'[i][1].word)
    BY <2>1, <2>2, <2>3, <2>5 DEF HeldInv
  <2>7. \A t \in saved : \E i \in DOMAIN facts' : facts'[i][1].word = t[1].word
    BY <2>1, <2>2 DEF HeldInv
  <2>8. \E i \in DOMAIN facts' : facts'[i] = saving'
    BY <2>1, <2>2
  <2> QED
    BY <2>1, <2>4, <2>6, <2>7, <2>8 DEF HeldInv
<1>8. CASE UNCHANGED vars
  BY <1>8 DEF vars, HeldInv, OnFile, Bullet
<1> QED
  BY <1>1, <1>2, <1>3, <1>4, <1>5, <1>6, <1>7, <1>8 DEF Next

\* memory.go:78: what SaveFact reported as saved, be it because it was there
\* already, stays in the file over restarts, whatever else is saved or fails.
THEOREM SavedFactsAreDurable == SpecAll => []SavedIsDurable
<1>1. HeldInv => SavedIsDurable
  BY DEF HeldInv, SavedIsDurable, OnFile
<1>2. Init => HeldInv
  BY DEF Init, HeldInv
<1> QED
  BY <1>1, <1>2, InitMemoryType, MemoryTypeInvariance, HeldInvariance,
     KnowledgeIsAMemoryStore, PTL DEF Spec

----------------------------------------------------------------------------
(* The list of facts.  A text of one line is written as one line and read  *)
(* back as itself; of any other text, every line that is read is a stray.  *)

\* A fact is appended to the list behind another as to the whole.
LEMMA AppendBehind ==
  \A s, t \in Seq(OneLiner) : \A e \in OneLiner : Append(s \o t, e) = s \o Append(t, e)
<1> DEFINE S == OneLiner
<1> SUFFICES ASSUME NEW s \in Seq(S), NEW t \in Seq(S), NEW e \in S
             PROVE  Append(s \o t, e) = s \o Append(t, e)
  OBVIOUS
<1> HIDE DEF S
<1>1. <<e>> \in Seq(S) /\ s \o t \in Seq(S)
  OBVIOUS
<1>2. Append(s \o t, e) = (s \o t) \o <<e>>
  BY <1>1, AppendIsConcat
<1>3. Append(t, e) = t \o <<e>>
  BY AppendIsConcat
<1>4. (s \o t) \o <<e>> = s \o (t \o <<e>>)
  BY <1>1, ConcatAssociative
<1> QED
  BY <1>2, <1>3, <1>4, Zenon

\* The lines of two files, one behind the other, are read one after the other.
LEMMA LoadedConcat ==
  ASSUME NEW a \in Seq(FileLine), NEW b \in Seq(FileLine)
  PROVE  Loaded(a \o b) = Loaded(a) \o Loaded(b)
<1> DEFINE M == Len(a)
           N == Len(b)
           V == Seq(OneLiner)
<1>1. /\ a \o b \in Seq(FileLine) /\ M \in Nat /\ N \in Nat /\ Len(a \o b) = M + N
      /\ \A n \in 1 .. M : (a \o b)[n] = a[n] /\ a[n] \in FileLine
      /\ \A n \in 1 .. N : (a \o b)[M + n] = b[n] /\ b[n] \in FileLine
  OBVIOUS
<1>2. PICK f \in [0 .. M -> V] :
        /\ f[0] = <<>> /\ \A n \in 1 .. M : f[n] = Read(f[n - 1], a[n])
        /\ Loaded(a) = f[M]
  BY LoadedStepByStep
<1>3. PICK g \in [0 .. N -> V] :
        /\ g[0] = <<>> /\ \A n \in 1 .. N : g[n] = Read(g[n - 1], b[n])
        /\ Loaded(b) = g[N]
  BY LoadedStepByStep
<1>4. PICK h \in [0 .. M + N -> V] :
        /\ h[0] = <<>> /\ \A n \in 1 .. M + N : h[n] = Read(h[n - 1], (a \o b)[n])
        /\ Loaded(a \o b) = h[M + N]
  <2>1. PICK h \in [0 .. Len(a \o b) -> V] :
          /\ h[0] = <<>> /\ \A n \in 1 .. Len(a \o b) : h[n] = Read(h[n - 1], (a \o b)[n])
          /\ Loaded(a \o b) = h[Len(a \o b)]
    BY <1>1, LoadedStepByStep
  <2> QED
    BY <1>1, <2>1
<1> HIDE DEF M, N
<1>5. h[M] = f[M]
  <2> DEFINE S == {n \in 0 .. M : h[n] = f[n]}
  <2>1. 0 \in S
    BY <1>1, <1>2, <1>4
  <2>2. ASSUME NEW n \in 1 .. M, n - 1 \in S PROVE n \in S
    <3>0. M \in Nat /\ N \in Nat /\ (a \o b)[n] = a[n]
      BY <1>1, Zenon
    <3>1. n \in 1 .. M + N /\ (a \o b)[n] = a[n] /\ n \in 0 .. M
      <4> HIDE DEF S
      <4> QED
        BY <3>0
    <3>2. h[n] = Read(h[n - 1], a[n])
      BY <1>4, <3>1
    <3> QED
      BY <1>2, <2>2, <3>1, <3>2
  <2>3. 0 .. M \subseteq S
    <3> HIDE DEF S
    <3> QED
      BY <1>1, <2>1, <2>2, UpTo
  <2> QED
    BY <1>1, <2>3
<1>6. f[M] \in V
  BY <1>1, <1>2
<1>7. ASSUME NEW list \in V, NEW line \in FileLine
      PROVE  Read(f[M] \o list, line) = f[M] \o Read(list, line)
  <2>1. CASE ~line.bullet
    BY <2>1 DEF Read, IsBullet
  <2>2. CASE line.bullet
    <3> DEFINE fact == <<Plain(line.word)>>
    <3>1. fact \in OneLiner
      BY DEF OneLiner, FileLine
    <3>2. /\ Read(f[M] \o list, line) = Append(f[M] \o list, fact)
          /\ Read(list, line) = Append(list, fact)
      BY <2>2 DEF Read, IsBullet
    <3> HIDE DEF fact
    <3>3. Append(f[M] \o list, fact) = f[M] \o Append(list, fact)
      <4>1. f[M] \in Seq(OneLiner) /\ list \in Seq(OneLiner)
        BY <1>6
      <4> HIDE DEF V
      <4> QED
        BY <3>1, <4>1, AppendBehind, Zenon
    <3> QED
      BY <3>2, <3>3
  <2> QED
    BY <2>1, <2>2
<1> DEFINE T == {n \in 0 .. N : h[M + n] = f[M] \o g[n]}
<1>8. 0 \in T
  <2>1. f[M] \o <<>> = f[M]
    BY <1>6, ConcatEmptySeq
  <2> QED
    BY <1>1, <1>3, <1>5, <2>1
<1>9. ASSUME NEW n \in 1 .. N, n - 1 \in T PROVE n \in T
  <2>1. M + n \in 1 .. M + N /\ (M + n) - 1 = M + (n - 1) /\ n - 1 \in 0 .. N
    BY <1>1
  <2>2. h[M + n] = Read(h[M + (n - 1)], b[n])
    BY <1>1, <1>4, <2>1
  <2>3. g[n - 1] \in V /\ g[n] = Read(g[n - 1], b[n]) /\ b[n] \in FileLine
    BY <1>1, <1>3, <2>1
  <2>4. h[M + (n - 1)] = f[M] \o g[n - 1]
    BY <1>9
  <2>5. h[M + n] = f[M] \o g[n]
    BY <1>7, <2>2, <2>3, <2>4
  <2>6. n \in 0 .. N
    BY <1>1
  <2> QED
    BY <2>5, <2>6
<1>10. N \in T
  <2> HIDE DEF T
  <2>1. 0 .. N \subseteq T
    BY <1>1, <1>8, <1>9, UpTo
  <2> QED
    BY <1>1, <2>1
<1> QED
  BY <1>2, <1>3, <1>4, <1>10

LEMMA LoadedNothing == Loaded(<<>>) = <<>>
<1>1. <<>> \in Seq(FileLine) /\ DOMAIN <<>> = {}
  OBVIOUS
<1>2. Loaded(<<>>) = [i \in DOMAIN <<>> |-> <<Plain(<<>>[i].word)>>]
  BY <1>1, LoadedLineByLine, Zenon
<1>3. Loaded(<<>>) \in Seq(OneLiner) /\ DOMAIN Loaded(<<>>) = {}
  BY <1>1, <1>2, LoadedFacts
<1> QED
  BY <1>3

\* The whole list is read back as each of its facts would be.
LEMMA LoadedRendered ==
  ASSUME NEW list \in Seq(Fact)
  PROVE  Loaded(Rendered(list)) = AsRead(list)
<1> DEFINE parts == [i \in DOMAIN list |-> Written(list[i])]
           reads == [i \in DOMAIN list |-> Loaded(Written(list[i]))]
           N == Len(list)
<1>1. parts \in Seq(Seq(FileLine)) /\ Len(parts) = N /\ N \in Nat /\ DOMAIN list = 1 .. N
  BY RenderedType
<1>2. \A i \in 1 .. N : /\ parts[i] \in Seq(FileLine) /\ reads[i] = Loaded(parts[i])
                        /\ Loaded(parts[i]) \in Seq(OneLiner)
  BY <1>1, LoadedFacts
<1>3. reads \in Seq(Seq(OneLiner)) /\ Len(reads) = N
  BY <1>1, <1>2
<1> HIDE DEF parts, reads
<1>4. PICK f \in [0 .. N -> Seq(FileLine)] :
        /\ f[0] = <<>> /\ \A n \in 1 .. N : f[n] = f[n - 1] \o parts[n]
        /\ FlattenSeq(parts) = f[N]
  <2>1. PICK f \in [0 .. Len(parts) -> Seq(FileLine)] :
          /\ f[0] = <<>> /\ \A n \in 1 .. Len(parts) : f[n] = f[n - 1] \o parts[n]
          /\ FlattenSeq(parts) = f[Len(parts)]
    BY <1>1, FlattenedStepByStep
  <2> QED
    BY <1>1, <2>1
<1>5. PICK g \in [0 .. N -> Seq(OneLiner)] :
        /\ g[0] = <<>> /\ \A n \in 1 .. N : g[n] = g[n - 1] \o reads[n]
        /\ FlattenSeq(reads) = g[N]
  <2>1. PICK g \in [0 .. Len(reads) -> Seq(OneLiner)] :
          /\ g[0] = <<>> /\ \A n \in 1 .. Len(reads) : g[n] = g[n - 1] \o reads[n]
          /\ FlattenSeq(reads) = g[Len(reads)]
    BY <1>3, FlattenedStepByStep
  <2> QED
    BY <1>3, <2>1
<1> HIDE DEF N
<1> DEFINE S == {n \in 0 .. N : Loaded(f[n]) = g[n]}
<1>6. 0 \in S
  BY <1>1, <1>4, <1>5, LoadedNothing
<1>7. ASSUME NEW n \in 1 .. N, n - 1 \in S PROVE n \in S
  <2>1. n - 1 \in 0 .. N /\ f[n - 1] \in Seq(FileLine) /\ Loaded(f[n - 1]) = g[n - 1]
    BY <1>1, <1>4, <1>7
  <2>2. Loaded(f[n - 1] \o parts[n]) = Loaded(f[n - 1]) \o Loaded(parts[n])
    BY <1>2, <2>1, LoadedConcat
  <2>3. Loaded(f[n]) = g[n]
    BY <1>2, <1>4, <1>5, <2>1, <2>2
  <2> QED
    BY <1>1, <2>3
<1>8. N \in S
  <2> HIDE DEF S
  <2>1. 0 .. N \subseteq S
    BY <1>1, <1>6, <1>7, UpTo
  <2> QED
    BY <1>1, <2>1
<1> QED
  BY <1>4, <1>5, <1>8 DEF Rendered, AsRead, parts, reads

\* Facts of one line each are read back as they were.
LEMMA OneLinersReadBack ==
  ASSUME NEW list \in Seq(OneLiner)
  PROVE  AsRead(list) = list
<1> DEFINE lines == Rendered(list)
<1>0. list \in Seq(Fact)
  BY OneLinersAreFacts
<1>1. lines = [i \in DOMAIN list |-> Bullet(list[i][1].word)]
  BY RenderedLineByLine
<1>2. lines \in Seq(FileLine)
  BY <1>0, RenderedType
<1>3. /\ DOMAIN lines = DOMAIN list
      /\ \A i \in DOMAIN list : lines[i].bullet /\ lines[i].word = list[i][1].word
  BY <1>1 DEF Bullet
<1>4. \A i \in DOMAIN list : list[i] = <<Plain(list[i][1].word)>>
  BY DEF OneLiner, Plain
<1>5. Loaded(lines) = AsRead(list)
  BY <1>0, LoadedRendered
<1> HIDE DEF lines
<1>6. Loaded(lines) = [i \in DOMAIN lines |-> <<Plain(lines[i].word)>>]
  BY <1>2, <1>3, LoadedLineByLine
<1> QED
  BY <1>3, <1>4, <1>5, <1>6

\* Among the lines that are read, none but strays is there twice.
Distinct(lines, words) ==
  \A i, j \in DOMAIN lines :
    lines[i].bullet /\ lines[j].bullet /\ lines[i].word = lines[j].word
      /\ lines[i].word \notin words => i = j

\* The facts of a list come from different lines.
LEMMA LoadedDistinct ==
  ASSUME NEW lines \in Seq(FileLine), NEW words, Distinct(lines, words)
  PROVE  \A i, j \in DOMAIN Loaded(lines) :
           Loaded(lines)[i] = Loaded(lines)[j] /\ Loaded(lines)[i][1].word \notin words => i = j
<1> DEFINE N == Len(lines)
           V == Seq(OneLiner)
           Once(list) == \A i, j \in DOMAIN list :
                           list[i] = list[j] /\ list[i][1].word \notin words => i = j
           From(list, n) == \A i \in DOMAIN list : \E k \in 1 .. n :
                              lines[k].bullet /\ list[i] = <<Plain(lines[k].word)>>
<1>1. PICK f \in [0 .. N -> V] :
        /\ f[0] = <<>> /\ \A n \in 1 .. N : f[n] = Read(f[n - 1], lines[n])
        /\ Loaded(lines) = f[N]
  BY LoadedStepByStep
<1>2. N \in Nat /\ DOMAIN lines = 1 .. N /\ \A n \in 1 .. N : lines[n] \in FileLine
  OBVIOUS
<1> HIDE DEF N
<1>3. ASSUME NEW n \in 1 .. N, NEW list \in V, Once(list), From(list, n - 1)
      PROVE  Once(Read(list, lines[n])) /\ From(Read(list, lines[n]), n)
  <2>0. 1 .. n - 1 \subseteq 1 .. n /\ n \in 1 .. n /\ 1 .. n - 1 \subseteq 1 .. N
        /\ n \notin 1 .. n - 1
    BY <1>2
  <2>1. CASE ~lines[n].bullet
    <3>1. Read(list, lines[n]) = list
      BY <2>1 DEF Read, IsBullet
    <3> QED
      BY <1>3, <2>0, <3>1
  <2>2. CASE lines[n].bullet
    <3> DEFINE fact == <<Plain(lines[n].word)>>
               longer == Append(list, fact)
    <3>1. Read(list, lines[n]) = longer
      BY <2>2 DEF Read, IsBullet
    <3>2. fact \in OneLiner /\ fact[1].word = lines[n].word
      BY <1>2 DEF OneLiner, FileLine, Plain
    <3>3. \A k \in 1 .. n - 1 : lines[k].bullet /\ lines[k].word = lines[n].word
                                  => lines[n].word \in words
      BY <1>2, <2>0, <2>2 DEF Distinct
    <3>4. \A i \in DOMAIN list : list[i] = fact => fact[1].word \in words
      <4> SUFFICES ASSUME NEW i \in DOMAIN list, list[i] = fact PROVE fact[1].word \in words
        OBVIOUS
      <4>1. PICK k \in 1 .. n - 1 : lines[k].bullet /\ list[i] = <<Plain(lines[k].word)>>
        BY <1>3
      <4>2. list[i][1].word = lines[k].word
        BY <4>1 DEF Plain
      <4> QED
        BY <3>2, <3>3, <4>1, <4>2
    <3>5. From(longer, n)
      <4> SUFFICES ASSUME NEW i \in DOMAIN longer
                   PROVE  \E k \in 1 .. n : /\ lines[k].bullet
                                            /\ longer[i] = <<Plain(lines[k].word)>>
        OBVIOUS
      <4> HIDE DEF fact
      <4>1. longer[i] = fact \/ (i \in DOMAIN list /\ longer[i] = list[i])
        BY <3>2
      <4>2. longer[i] = fact \/ \E k \in 1 .. n - 1 : /\ lines[k].bullet
                                                      /\ longer[i] = <<Plain(lines[k].word)>>
        BY <1>3, <4>1
      <4> QED
        BY <2>0, <2>2, <4>2 DEF fact
    <3> HIDE DEF fact
    <3>6. /\ DOMAIN longer = 1 .. Len(list) + 1 /\ DOMAIN list = 1 .. Len(list)
          /\ Len(list) \in Nat /\ longer[Len(list) + 1] = fact
          /\ \A i \in DOMAIN list : longer[i] = list[i]
      BY <3>2
    <3> HIDE DEF longer
    <3>7. \A i \in DOMAIN longer : i \in DOMAIN list \/ i = Len(list) + 1
      BY <3>6
    <3>8. Once(longer)
      BY <1>3, <3>4, <3>6, <3>7
    <3> QED
      BY <3>1, <3>5, <3>8
  <2> QED
    BY <2>1, <2>2
<1> DEFINE S == {n \in 0 .. N : Once(f[n]) /\ From(f[n], n)}
<1>4. 0 \in S
  BY <1>1, <1>2
<1>5. ASSUME NEW n \in 1 .. N, n - 1 \in S PROVE n \in S
  <2>1. n - 1 \in 0 .. N
    BY <1>2
  <2>2. /\ f[n - 1] \in V /\ Once(f[n - 1]) /\ From(f[n - 1], n - 1)
        /\ f[n] = Read(f[n - 1], lines[n])
    BY <1>1, <1>5, <2>1
  <2> HIDE DEF Once, From
  <2>3. Once(f[n]) /\ From(f[n], n)
    BY <1>3, <2>2
  <2> QED
    BY <1>2, <2>3
<1>6. Once(f[N])
  <2> HIDE DEF S, Once
  <2>1. 0 .. N \subseteq S
    BY <1>2, <1>4, <1>5, UpTo
  <2>2. N \in S
    BY <1>2, <2>1
  <2> QED
    BY <2>2 DEF S
<1> QED
  BY <1>1, <1>6

\* A fact is one line, or all its lines that are read are strays.
Told(fact, words) ==
  \/ fact \in OneLiner
  \/ \A k \in DOMAIN Written(fact) : Written(fact)[k].bullet => Written(fact)[k].word \in words

LEMMA WrittenOneLiner ==
  ASSUME NEW fact \in OneLiner
  PROVE  /\ Written(fact) = <<Bullet(fact[1].word)>> /\ Bullet(fact[1].word) \in FileLine
         /\ fact = <<Plain(fact[1].word)>>
<1>1. PICK w \in AnyWord : fact = <<Plain(w)>>
  BY DEF OneLiner
<1>2. Tail(fact) = <<>> /\ fact[1] = Plain(w) /\ Plain(w).word = w
  BY <1>1 DEF Plain
<1> DEFINE line == Bullet(w)
<1>3. line \in FileLine
  BY DEF Bullet, FileLine
<1>4. Written(fact) = <<line>> \o <<>>
  BY <1>2 DEF Written
<1> HIDE DEF line
<1>5. <<line>> \o <<>> = <<line>>
  BY <1>3
<1> QED
  BY <1>1, <1>2, <1>3, <1>4, <1>5 DEF line

\* A list without duplicates is written without duplicates.
LEMMA RenderedDistinct ==
  ASSUME NEW list \in Seq(Fact), NEW words,
         \A i \in DOMAIN list : Told(list[i], words),
         \A i, j \in DOMAIN list : list[i] = list[j] /\ list[i][1].word \notin words => i = j
  PROVE  Distinct(Rendered(list), words)
<1> DEFINE parts == [k \in DOMAIN list |-> Written(list[k])]
           N == Len(list)
           Own(lines, n) ==
             \A i \in DOMAIN lines : lines[i].bullet /\ lines[i].word \notin words =>
               \E k \in 1 .. n : list[k] = <<Plain(lines[i].word)>>
<1>1. parts \in Seq(Seq(FileLine)) /\ Len(parts) = N /\ N \in Nat /\ DOMAIN list = 1 .. N
  BY RenderedType
<1>2. PICK f \in [0 .. N -> Seq(FileLine)] :
        /\ f[0] = <<>> /\ \A n \in 1 .. N : f[n] = f[n - 1] \o parts[n]
        /\ FlattenSeq(parts) = f[N]
  <2> HIDE DEF parts
  <2>1. PICK f \in [0 .. Len(parts) -> Seq(FileLine)] :
          /\ f[0] = <<>> /\ \A n \in 1 .. Len(parts) : f[n] = f[n - 1] \o parts[n]
          /\ FlattenSeq(parts) = f[Len(parts)]
    BY <1>1, FlattenedStepByStep
  <2> QED
    BY <1>1, <2>1
<1>3. \A n \in 1 .. N : parts[n] = Written(list[n]) /\ parts[n] \in Seq(FileLine)
  BY <1>1, WrittenType
<1> HIDE DEF parts, N
<1>4. ASSUME NEW n \in 1 .. N, NEW lines \in Seq(FileLine),
             Distinct(lines, words), Own(lines, n - 1)
      PROVE  Distinct(lines \o parts[n], words) /\ Own(lines \o parts[n], n)
  <2> DEFINE all == lines \o parts[n]
             M == Len(lines)
  <2>1. /\ M \in Nat /\ DOMAIN lines = 1 .. M /\ DOMAIN all = 1 .. M + Len(parts[n])
        /\ Len(parts[n]) \in Nat /\ DOMAIN parts[n] = 1 .. Len(parts[n])
        /\ \A i \in 1 .. M : all[i] = lines[i]
        /\ \A i \in 1 .. Len(parts[n]) : all[M + i] = parts[n][i]
    BY <1>3
  <2>2. \A i \in DOMAIN all : i \in DOMAIN lines
                                \/ \E k \in DOMAIN parts[n] : i = M + k /\ all[i] = parts[n][k]
    <3> SUFFICES ASSUME NEW i \in DOMAIN all, i \notin DOMAIN lines
                 PROVE  \E k \in DOMAIN parts[n] : i = M + k /\ all[i] = parts[n][k]
      OBVIOUS
    <3>1. i - M \in DOMAIN parts[n] /\ i = M + (i - M)
      BY <2>1
    <3> QED
      BY <2>1, <3>1
  <2>3. 1 .. n - 1 \subseteq 1 .. n /\ n \in 1 .. n /\ n \notin 1 .. n - 1
        /\ 1 .. n - 1 \subseteq 1 .. N
    BY <1>1
  <2>4. Told(list[n], words)
    BY <1>1
  <2>5. CASE list[n] \in OneLiner
    <3> DEFINE w == list[n][1].word
    <3>1. parts[n] = <<Bullet(w)>> /\ list[n] = <<Plain(w)>>
      BY <1>3, <2>5, WrittenOneLiner
    <3>2. Bullet(w).bullet /\ Bullet(w).word = w
      BY DEF Bullet
    <3> HIDE DEF w
    <3>3. Len(parts[n]) = 1 /\ parts[n][1] = Bullet(w)
      BY <3>1
    <3> HIDE DEF all, M
    <3>4. \A i \in DOMAIN all : i \in DOMAIN lines \/ (i = M + 1 /\ all[i] = Bullet(w))
      BY <2>1, <2>2, <3>3
    <3>5. list[n][1].word = w
      BY DEF w
    <3>6. \A i \in DOMAIN lines : lines[i].bullet /\ lines[i].word = w => w \in words
      <4> SUFFICES ASSUME NEW i \in DOMAIN lines, lines[i].bullet, lines[i].word = w,
                          w \notin words
                   PROVE  FALSE
        OBVIOUS
      <4>1. PICK k \in 1 .. n - 1 : list[k] = <<Plain(w)>>
        BY <1>4
      <4>2. k = n
        BY <1>1, <2>3, <3>1, <3>5, <4>1
      <4> QED
        BY <2>3, <4>2
    <3>7. Own(all, n)
      <4> SUFFICES ASSUME NEW i \in DOMAIN all, all[i].bullet, all[i].word \notin words
                   PROVE  \E k \in 1 .. n : list[k] = <<Plain(all[i].word)>>
        OBVIOUS
      <4>1. CASE i \in DOMAIN lines
        <5>1. all[i] = lines[i]
          BY <2>1, <4>1
        <5>2. PICK k \in 1 .. n - 1 : list[k] = <<Plain(all[i].word)>>
          BY <1>4, <4>1, <5>1
        <5> QED
          BY <2>3, <5>2
      <4>2. CASE all[i] = Bullet(w)
        BY <2>3, <3>1, <3>2, <4>2
      <4> QED
        BY <3>4, <4>1, <4>2
    <3>8. Distinct(all, words)
      <4>1. \A i \in DOMAIN lines : i \in DOMAIN all /\ all[i] = lines[i]
        BY <2>1
      <4> QED
        BY <1>4, <3>2, <3>4, <3>6, <4>1 DEF Distinct
    <3> QED
      BY <3>7, <3>8 DEF all
  <2>6. CASE list[n] \notin OneLiner
    <3>1. \A k \in DOMAIN parts[n] : parts[n][k].bullet => parts[n][k].word \in words
      BY <1>3, <2>4, <2>6 DEF Told
    <3> HIDE DEF all, M
    <3>2. \A i \in DOMAIN all : all[i].bullet /\ all[i].word \notin words
                                  => i \in DOMAIN lines /\ all[i] = lines[i]
      BY <2>1, <2>2, <3>1
    <3>3. Distinct(all, words)
      BY <1>4, <3>2 DEF Distinct
    <3>4. Own(all, n)
      BY <1>4, <2>3, <3>2
    <3> QED
      BY <3>3, <3>4 DEF all
  <2> QED
    BY <2>5, <2>6
<1> DEFINE S == {n \in 0 .. N : Distinct(f[n], words) /\ Own(f[n], n)}
<1>5. 0 \in S
  BY <1>1, <1>2 DEF Distinct
<1>6. ASSUME NEW n \in 1 .. N, n - 1 \in S PROVE n \in S
  <2>1. n - 1 \in 0 .. N
    BY <1>1
  <2>2. /\ f[n - 1] \in Seq(FileLine) /\ Distinct(f[n - 1], words) /\ Own(f[n - 1], n - 1)
        /\ f[n] = f[n - 1] \o parts[n]
    BY <1>2, <1>6, <2>1
  <2> HIDE DEF Own
  <2>3. Distinct(f[n], words) /\ Own(f[n], n)
    BY <1>4, <2>2
  <2> QED
    BY <1>1, <2>3
<1>7. Distinct(f[N], words)
  <2> HIDE DEF S
  <2>1. 0 .. N \subseteq S
    BY <1>1, <1>5, <1>6, UpTo
  <2>2. N \in S
    BY <1>1, <2>1
  <2> QED
    BY <2>2 DEF S
<1> QED
  BY <1>2, <1>7 DEF Rendered, parts

\* Fewer lines, or more strays, keep it so.
LEMMA FewerLines ==
  ASSUME NEW lines \in Seq(FileLine), NEW words, Distinct(lines, words), NEW n \in 0 .. Len(lines)
  PROVE  Distinct(SubSeq(lines, 1, n), words)
<1> DEFINE kept == SubSeq(lines, 1, n)
<1>1. DOMAIN kept = 1 .. n /\ \A i \in 1 .. n : kept[i] = lines[i] /\ i \in DOMAIN lines
  OBVIOUS
<1> QED
  BY <1>1 DEF Distinct

LEMMA MoreStrays ==
  ASSUME NEW lines, NEW words, NEW more, words \subseteq more, Distinct(lines, words)
  PROVE  Distinct(lines, more)
  BY DEF Distinct

LEMMA TornDistinct ==
  ASSUME NEW lines \in Seq(FileLine), Distinct(lines, strays), Tears(lines)
  PROVE  Distinct(file', strays') /\ strays \subseteq strays'
<1>1. PICK n \in 0 .. Len(lines) :
        \/ file' = SubSeq(lines, 1, n) /\ strays' = strays
        \/ \E left \in AnyWord : /\ file' = SubSeq(lines, 1, n) \o <<Bullet(left)>>
                                 /\ strays' = strays \cup {left}
  BY TornLines
<1> DEFINE kept == SubSeq(lines, 1, n)
<1>2. Distinct(kept, strays) /\ kept \in Seq(FileLine)
  BY FewerLines
<1> HIDE DEF kept
<1>3. ASSUME NEW left \in AnyWord, file' = kept \o <<Bullet(left)>>,
             strays' = strays \cup {left}
      PROVE  Distinct(file', strays')
  <2>1. Bullet(left) \in FileLine /\ Bullet(left).word = left
    BY DEF Bullet, FileLine
  <2>2. Distinct(kept, strays')
    BY <1>2, <1>3, MoreStrays
  <2>3. /\ DOMAIN file' = 1 .. Len(kept) + 1 /\ file'[Len(kept) + 1] = Bullet(left)
        /\ DOMAIN kept = 1 .. Len(kept) /\ Len(kept) \in Nat
        /\ \A i \in DOMAIN kept : file'[i] = kept[i]
    BY <1>2, <1>3, <2>1
  <2>4. \A i \in DOMAIN file' : i \in DOMAIN kept \/ file'[i].word \in strays'
    BY <1>3, <2>1, <2>3
  <2> QED
    BY <2>2, <2>3, <2>4 DEF Distinct
<1> QED
  BY <1>1, <1>2, <1>3 DEF kept

ListInv == /\ \A i \in DOMAIN facts : Told(facts[i], strays)
           /\ NoDuplicates
           /\ Distinct(file, strays)
           /\ RestartKeepsTheList

LEMMA ListInvariance == MemoryType /\ ListInv /\ [Next]_vars => ListInv'
<1> SUFFICES ASSUME MemoryType, ListInv, [Next]_vars PROVE ListInv'
  OBVIOUS
<1>0. /\ Rendered(facts) \in Seq(FileLine) /\ Distinct(Rendered(facts), strays)
      /\ Loaded(Rendered(facts)) = AsRead(facts)
  BY RenderedType, RenderedDistinct, LoadedRendered DEF ListInv, NoDuplicates, MemoryType
<1>1. CASE Load
  <2>1. facts' = Loaded(file) /\ file' = file /\ strays' = strays /\ Loaded(file) \in Seq(OneLiner)
    BY <1>1, LoadedFacts DEF Load, MemoryType
  <2>2. \A i \in DOMAIN facts' : Told(facts'[i], strays')
    BY <2>1 DEF Told
  <2>3. NoDuplicates'
    BY <2>1, LoadedDistinct DEF MemoryType, ListInv, NoDuplicates
  <2>4. RestartKeepsTheList'
    <3>1. AsRead(facts') = facts'
      BY <2>1, OneLinersReadBack
    <3> QED
      BY <2>1, <3>1 DEF RestartKeepsTheList
  <2>5. Distinct(file', strays')
    BY <2>1 DEF ListInv
  <2> QED
    BY <2>2, <2>3, <2>4, <2>5 DEF ListInv
<1>2. CASE SaveStores
  <2>1. facts' = facts /\ file' = Rendered(facts) /\ strays' = strays
    BY <1>2 DEF SaveStores
  <2>2. RestartKeepsTheList'
    BY <1>0, <2>1 DEF RestartKeepsTheList
  <2>3. Distinct(file', strays')
    BY <1>0, <2>1
  <2> QED
    BY <2>1, <2>2, <2>3 DEF ListInv, NoDuplicates
<1>3. CASE SaveFails
  <2>1. facts' = facts /\ stale'
    BY <1>3 DEF SaveFails
  <2>2. Distinct(file', strays') /\ strays \subseteq strays'
    BY <1>0, <1>3, TornDistinct DEF SaveFails, ListInv
  <2>3. NoDuplicates' /\ RestartKeepsTheList' /\ \A i \in DOMAIN facts' : Told(facts'[i], strays')
    BY <2>1, <2>2 DEF ListInv, NoDuplicates, RestartKeepsTheList, Told
  <2> QED
    BY <2>2, <2>3 DEF ListInv
<1>4. CASE Clear
  <2>1. facts' = <<>> /\ (file' = <<>> \/ (file' = file /\ strays' = strays /\ stale'))
    BY <1>4 DEF Clear
  <2>2. DOMAIN <<>> = {}
    OBVIOUS
  <2>3. Distinct(file', strays')
    BY <2>1, <2>2 DEF ListInv, Distinct
  <2>4. AsRead(<<>>) = <<>>
    BY OneLinersReadBack, <<>> \in Seq(OneLiner), Zenon
  <2>5. RestartKeepsTheList'
    BY <2>1, <2>4, LoadedNothing DEF RestartKeepsTheList
  <2> QED
    BY <2>1, <2>2, <2>3, <2>5 DEF ListInv, NoDuplicates
<1>5. CASE Crash
  <2>1. facts' = <<>> /\ up' = FALSE
    BY <1>5 DEF Crash
  <2>2. DOMAIN <<>> = {}
    OBVIOUS
  <2>3. Distinct(file', strays')
    <3>1. CASE UNCHANGED <<file, stale, strays>>
      BY <3>1 DEF ListInv
    <3>2. CASE Tears(Rendered(facts))
      BY <1>0, <3>2, TornDistinct
    <3>3. CASE file' = Rendered(facts) /\ UNCHANGED strays
      BY <1>0, <3>3
    <3> QED
      BY <1>5, <3>1, <3>2, <3>3 DEF Crash
  <2> QED
    BY <2>1, <2>2, <2>3 DEF ListInv, NoDuplicates, RestartKeepsTheList
<1>6. ASSUME NEW text \in Texts, SaveAgain(text) PROVE ListInv'
  BY <1>6 DEF SaveAgain, ListInv, NoDuplicates, RestartKeepsTheList
<1>7. ASSUME NEW text \in Texts, SaveAppends(text) PROVE ListInv'
  <2>1. /\ facts' = Append(facts, text) /\ file' = file /\ saving' = text
        /\ strays' = IF Len(text) = 1 THEN strays ELSE strays \cup FactWords(text)
        /\ \A i \in DOMAIN facts : facts[i] # text
    BY <1>7 DEF SaveAppends, AlreadySaved
  <2>2. text \in Fact /\ text # Nothing
    BY TextsAreFacts, TextsAssumption
  <2>3. /\ DOMAIN facts' = 1 .. Len(facts) + 1 /\ facts'[Len(facts) + 1] = text
        /\ DOMAIN facts = 1 .. Len(facts)
        /\ \A i \in DOMAIN facts : facts'[i] = facts[i]
    BY <2>1, <2>2 DEF MemoryType
  <2>4. \A i \in DOMAIN facts' : i \in DOMAIN facts \/ i = Len(facts) + 1
    BY <2>3, Len(facts) \in Nat DEF MemoryType
  <2>5. strays \subseteq strays'
    BY <2>1
  <2>6. NoDuplicates'
    BY <2>1, <2>3, <2>4, <2>5 DEF ListInv, NoDuplicates
  <2>7. RestartKeepsTheList'
    BY <2>1, <2>2 DEF RestartKeepsTheList
  <2>8. Told(text, strays')
    <3>1. CASE Len(text) = 1
      <4>1. text \in Seq(Lines) /\ ~text[1].bullet
        BY TextsAssumption
      <4>2. text[1] \in Lines /\ text = <<text[1]>>
        BY <3>1, <4>1
      <4>3. text[1] = Plain(text[1].word) /\ text[1].word \in AnyWord
        BY <4>1, <4>2 DEF Lines, Plain, AnyWord
      <4>4. text \in OneLiner
        BY <4>2, <4>3, Zenon DEF OneLiner
      <4> QED
        BY <4>4 DEF Told
    <3>2. CASE Len(text) # 1
      BY <2>1, <3>2 DEF Told, FactWords, IsBullet, Range
    <3> QED
      BY <3>1, <3>2
  <2>9. \A i \in DOMAIN facts' : Told(facts'[i], strays')
    BY <2>3, <2>4, <2>5, <2>8 DEF ListInv, Told
  <2>10. Distinct(file', strays')
    BY <2>1, <2>5, MoreStrays DEF ListInv
  <2> QED
    BY <2>6, <2>7, <2>9, <2>10 DEF ListInv
<1>8. CASE UNCHANGED vars
  BY <1>8 DEF vars, ListInv, NoDuplicates, RestartKeepsTheList
<1> QED
  BY <1>1, <1>2, <1>3, <1>4, <1>5, <1>6, <1>7, <1>8 DEF Next

LEMMA InitListInv == Init => ListInv
<1> SUFFICES ASSUME Init PROVE ListInv
  OBVIOUS
<1>1. DOMAIN <<>> = {}
  OBVIOUS
<1> QED
  BY <1>1 DEF Init, ListInv, NoDuplicates, RestartKeepsTheList, Distinct

\* memory.go:93: over restarts, torn files and failed writes no fact is in the
\* list twice, but for those that a cut or a text of several lines has brought
\* into the file; for any texts and any number of facts.
THEOREM NoFactTwice == SpecAll => []NoDuplicates
<1>1. ListInv => NoDuplicates
  BY DEF ListInv
<1> QED
  BY <1>1, ListInvariance, InitListInv, InitMemoryType, MemoryTypeInvariance,
     KnowledgeIsAMemoryStore, PTL DEF Spec

\* memory.go:20: reading back the file that the last write has left gives what
\* each fact of the list is read as, whatever had failed before; and a list of
\* facts of one line each is read as it was.
THEOREM RestartReadsTheList ==
  SpecAll => [](RestartKeepsTheList /\ (facts \in Seq(OneLiner) => AsRead(facts) = facts))
<1>1. ListInv => RestartKeepsTheList /\ (facts \in Seq(OneLiner) => AsRead(facts) = facts)
  BY OneLinersReadBack DEF ListInv
<1> QED
  BY <1>1, ListInvariance, InitListInv, InitMemoryType, MemoryTypeInvariance,
     KnowledgeIsAMemoryStore, PTL DEF Spec

----------------------------------------------------------------------------
(* The skills. *)

LEMMA StemNumbers ==
  /\ Len(Stems) \in Nat /\ DOMAIN Stems = 1 .. Len(Stems)
  /\ \A s : s \in Range(Stems) <=> \E i \in 1 .. Len(Stems) : Stems[i] = s
<1>1. Stems \in Seq(Range(Stems))
  BY KnowledgeAssumption
<1>2. Len(Stems) \in Nat /\ DOMAIN Stems = 1 .. Len(Stems)
  BY <1>1
<1> QED
  BY <1>2 DEF Range

\* The file that has a name is the last of those that claim it.
LEMMA LastClaim ==
  ASSUME NEW name, NEW files, Skill!Claims(name, files) # {}
  PROVE  /\ Skill!Max(Skill!Claims(name, files)) \in Skill!Claims(name, files)
         /\ \A i \in Skill!Claims(name, files) : i <= Skill!Max(Skill!Claims(name, files))
<1> DEFINE C == Skill!Claims(name, files)
           N == Len(Stems)
           Mirror == {N - i : i \in C}
<1>1. N \in Nat /\ C \subseteq 1 .. N
  BY StemNumbers DEF Skill!Claims
<1> HIDE DEF C, N
<1>2. Mirror \in SUBSET Nat
  BY <1>1
<1>3. PICK i \in C : TRUE
  BY DEF C
<1>4. PICK n \in Mirror : \A m \in Mirror : n <= m
  <2>1. N - i \in Mirror
    BY <1>3
  <2> HIDE DEF Mirror
  <2> QED
    BY <1>2, <2>1, LeastNumber
<1>5. PICK last \in C : n = N - last
  BY <1>4
<1>6. \A k \in C : k <= last
  <2> SUFFICES ASSUME NEW k \in C PROVE k <= last
    OBVIOUS
  <2>1. N - last <= N - k
    BY <1>4, <1>5
  <2> QED
    BY <1>1, <2>1
<1>7. Skill!Max(C) \in C /\ \A k \in C : Skill!Max(C) >= k
  BY <1>1, <1>6 DEF Skill!Max
<1> QED
  BY <1>1, <1>7 DEF C

\* A file that claims its own name is what the name stands for after a reload,
\* unless a file further down claims it too.
LEMMA ReloadedClaim ==
  ASSUME NEW files, DOMAIN files \subseteq Range(Stems),
         NEW s \in DOMAIN files, files[s].name = s
  PROVE  /\ s \in DOMAIN Skill!Reloaded(files)
         /\ \/ Skill!Reloaded(files)[s] = [file |-> s, text |-> files[s].text]
            \/ Skill!After(Skill!Reloaded(files)[s].file, s)
<1> DEFINE C    == Skill!Claims(s, files)
           last == Skill!Max(C)
<1>1. s \in {files[r].name : r \in DOMAIN files}
  OBVIOUS
<1>2. Skill!Reloaded(files)[s] = [file |-> Stems[last], text |-> files[Stems[last]].text]
  BY <1>1 DEF Skill!Reloaded
<1>3. \A i \in 1 .. Len(Stems) : Stems[i] = s => i \in C
  BY StemNumbers DEF Skill!Claims
<1>4. C # {}
  BY <1>3, StemNumbers
<1>5. last \in 1 .. Len(Stems) /\ \A i \in C : i <= last
  <2>1. last \in C /\ \A i \in C : i <= last
    BY <1>4, LastClaim
  <2>2. C \subseteq 1 .. Len(Stems)
    BY StemNumbers DEF Skill!Claims
  <2> HIDE DEF C, last
  <2> QED
    BY <2>1, <2>2
<1> HIDE DEF C, last
<1>6. CASE Stems[last] = s
  BY <1>1, <1>2, <1>6 DEF Skill!Reloaded
<1>7. CASE Stems[last] # s
  <2>1. \A j \in last .. Len(Stems) : Stems[j] # s
    <3> SUFFICES ASSUME NEW j \in last .. Len(Stems), Stems[j] = s PROVE FALSE
      OBVIOUS
    <3>1. j \in 1 .. Len(Stems)
      BY <1>5, StemNumbers
    <3>2. j <= last
      BY <1>3, <1>5, <3>1
    <3>3. j = last
      BY <1>5, <3>1, <3>2
    <3> QED
      BY <1>7, <3>3
  <2>2. Skill!After(Stems[last], s)
    BY <1>5, <2>1, StemNumbers DEF Skill!After
  <2> QED
    BY <1>1, <1>2, <2>2 DEF Skill!Reloaded
<1> QED
  BY <1>6, <1>7

\* Where every file bears its own name a reload makes one skill of each.
OneEach(files) == [s \in DOMAIN files |-> [file |-> s, text |-> files[s].text]]

LEMMA ReloadedOneEach ==
  ASSUME NEW files, DOMAIN files \subseteq Range(Stems), ~Skill!Foreign(files)
  PROVE  Skill!Reloaded(files) = OneEach(files)
<1>1. \A s \in DOMAIN files : files[s].name = s
  BY DEF Skill!Foreign
<1>2. {files[s].name : s \in DOMAIN files} = DOMAIN files
  BY <1>1
<1>3. ASSUME NEW s \in DOMAIN files PROVE Stems[Skill!Max(Skill!Claims(s, files))] = s
  <2>1. Skill!Claims(s, files) # {}
    BY <1>1, StemNumbers DEF Skill!Claims
  <2>2. Skill!Max(Skill!Claims(s, files)) \in Skill!Claims(s, files)
    BY <2>1, LastClaim
  <2> QED
    BY <1>1, <2>2 DEF Skill!Claims
<1> QED
  BY <1>2, <1>3 DEF Skill!Reloaded, OneEach

LEMMA WithoutEntries ==
  ASSUME NEW f, NEW keys
  PROVE  /\ DOMAIN Skill!Without(f, keys) = DOMAIN f \ keys
         /\ \A k \in DOMAIN f \ keys : Skill!Without(f, keys)[k] = f[k]
  BY DEF Skill!Without, Restrict, Skill!Restrict

\* A function whose keys and values are of two sets.
Typed(f, keys, values) == DOMAIN f \subseteq keys /\ \A k \in DOMAIN f : f[k] \in values

LEMMA TypedWith ==
  ASSUME NEW f, NEW keys, NEW values, Typed(f, keys, values), NEW k \in keys, NEW v \in values
  PROVE  Typed(Skill!With(f, k, v), keys, values)
<1> DEFINE g == Skill!With(f, k, v)
<1>1. DOMAIN g = DOMAIN f \cup {k} /\ g[k] = v /\ \A r \in DOMAIN f \ {k} : g[r] = f[r]
  BY DEF Skill!With
<1> HIDE DEF g
<1>2. \A r \in DOMAIN g : r = k \/ r \in DOMAIN f \ {k}
  BY <1>1
<1>3. Typed(g, keys, values)
  BY <1>1, <1>2 DEF Typed
<1> QED
  BY <1>3 DEF g

LEMMA TypedWithout ==
  ASSUME NEW f, NEW keys, NEW values, Typed(f, keys, values), NEW gone
  PROVE  Typed(Skill!Without(f, gone), keys, values)
<1> DEFINE g == Skill!Without(f, gone)
<1>1. DOMAIN g = DOMAIN f \ gone /\ \A r \in DOMAIN f \ gone : g[r] = f[r]
  BY WithoutEntries, Zenon
<1> HIDE DEF g
<1>2. Typed(g, keys, values)
  BY <1>1 DEF Typed
<1> QED
  BY <1>2 DEF g

SkillText == Bodies \cup {Cut}
FileType  == [name : Names, text : SkillText]
CacheType == [file : Range(Stems), text : SkillText]

SkillType == /\ Typed(cache, Names, CacheType)
             /\ Typed(dir, Range(Stems), FileType)
             /\ Typed(savedSkills, Range(Stems), Bodies)
             /\ lag \in BOOLEAN

LEMMA CleanNames ==
  \A n \in Names : Clean[n] \in Names /\ Clean[n] \in Range(Stems)
  BY KnowledgeAssumption

\* What SaveSkill puts into the file and into the map.
LEMMA NewSkillType ==
  ASSUME NEW name \in Names, NEW text \in Bodies
  PROVE  /\ [name |-> Clean[name], text |-> text] \in FileType
         /\ [file |-> Clean[name], text |-> text] \in CacheType
  BY CleanNames DEF FileType, CacheType, SkillText

\* A torn file bears the name that was meant, or what a cut leaves of it.
LEMMA TornSkill ==
  ASSUME SkillType, NEW s \in Names, s \in Range(Stems), NEW torn \in Skill!Torn(s)
  PROVE  /\ Typed(torn, Range(Stems), FileType)
         /\ DOMAIN torn = DOMAIN dir \cup {s}
         /\ \A r \in DOMAIN dir \ {s} : torn[r] = dir[r]
<1>1. PICK n \in {s, Stub} : torn = Skill!With(dir, s, [name |-> n, text |-> Cut])
  BY DEF Skill!Torn
<1>2. [name |-> n, text |-> Cut] \in FileType
  BY KnowledgeAssumption DEF FileType, SkillText
<1>3. Typed(torn, Range(Stems), FileType)
  BY <1>1, <1>2, TypedWith, Zenon DEF SkillType
<1>4. /\ DOMAIN Skill!With(dir, s, [name |-> n, text |-> Cut]) = DOMAIN dir \cup {s}
      /\ \A r \in DOMAIN dir \ {s} : Skill!With(dir, s, [name |-> n, text |-> Cut])[r] = dir[r]
  BY DEF Skill!With
<1> QED
  BY <1>1, <1>3, <1>4, Zenon

LEMMA SkillTypeInvariance ==
  SkillType /\ [Skill!Next]_<<up, cache, dir, savedSkills, lag>> => SkillType'
<1> SUFFICES ASSUME SkillType, [Skill!Next]_<<up, cache, dir, savedSkills, lag>>
             PROVE  SkillType'
  OBVIOUS
<1> USE DEF SkillType
<1>0. Typed(Skill!Empty, Names, CacheType)
  BY DEF Skill!Empty, Typed
<1>1. CASE Skill!Reload
  <2>1. cache' = Skill!Reloaded(dir) /\ dir' = dir /\ savedSkills' = savedSkills
        /\ lag' = Skill!Foreign(dir)
    BY <1>1 DEF Skill!Reload
  <2>2. DOMAIN cache' = {dir[s].name : s \in DOMAIN dir}
    BY <2>1 DEF Skill!Reloaded
  <2>3. \A s \in DOMAIN dir : s \in Range(Stems) /\ dir[s].name \in Names /\ dir[s].text \in SkillText
    BY DEF FileType, Typed
  <2>4. ASSUME NEW n \in DOMAIN cache' PROVE cache'[n] \in CacheType
    <3> DEFINE r == Stems[Skill!Max(Skill!Claims(n, dir))]
    <3>1. PICK s \in DOMAIN dir : dir[s].name = n
      BY <2>2
    <3>2. Skill!Claims(n, dir) # {}
      BY <2>3, <3>1, StemNumbers DEF Skill!Claims
    <3>3. r \in DOMAIN dir
      BY <3>2, LastClaim DEF Skill!Claims
    <3>4. cache'[n] = [file |-> r, text |-> dir[r].text]
      BY <2>1, <2>2 DEF Skill!Reloaded
    <3> HIDE DEF r
    <3> QED
      BY <2>3, <3>3, <3>4 DEF CacheType
  <2>5. Typed(cache', Names, CacheType)
    BY <2>2, <2>3, <2>4 DEF Typed
  <2>6. lag' \in BOOLEAN
    BY <2>1 DEF Skill!Foreign
  <2> QED
    BY <2>1, <2>5, <2>6 DEF Typed
<1>2. ASSUME NEW name \in Names, NEW text \in Bodies, Skill!SaveSkill(name, text)
      PROVE  SkillType'
  <2> DEFINE s == Clean[name]
  <2>1. /\ dir'   = Skill!With(dir, s, [name |-> s, text |-> text])
        /\ cache' = Skill!With(cache, s, [file |-> s, text |-> text])
        /\ savedSkills' = Skill!With(savedSkills, s, text)
        /\ lag' = lag
    BY <1>2 DEF Skill!SaveSkill
  <2>2. Typed(dir', Range(Stems), FileType)
    BY <2>1, NewSkillType, CleanNames, TypedWith, Zenon
  <2>3. Typed(cache', Names, CacheType)
    BY <2>1, NewSkillType, CleanNames, TypedWith, Zenon
  <2>4. Typed(savedSkills', Range(Stems), Bodies)
    BY <2>1, CleanNames, TypedWith, Zenon
  <2> QED
    BY <2>1, <2>2, <2>3, <2>4 DEF Typed
<1>3. ASSUME NEW name \in Names, Skill!SaveFails(name) PROVE SkillType'
  <2>1. cache' = cache
    BY <1>3 DEF Skill!SaveFails
  <2>2. CASE UNCHANGED <<dir, savedSkills, lag>>
    BY <2>1, <2>2 DEF Typed
  <2>3. CASE dir' \in Skill!Torn(Clean[name]) /\ lag' = TRUE
             /\ savedSkills' = Skill!Without(savedSkills, {Clean[name]})
    <3>1. Typed(dir', Range(Stems), FileType)
      BY <2>3, CleanNames, TornSkill
    <3>2. Typed(savedSkills', Range(Stems), Bodies)
      BY <2>3, TypedWithout, Zenon
    <3> QED
      BY <2>1, <2>3, <3>1, <3>2 DEF Typed
  <2> QED
    BY <1>3, <2>2, <2>3 DEF Skill!SaveFails
<1>4. ASSUME NEW name \in Names, Skill!DeleteSkill(name) PROVE SkillType'
  <2>1. /\ cache' = Skill!Without(cache, {name})
        /\ dir' = Skill!Without(dir, {cache[name].file})
        /\ savedSkills' = Skill!Without(savedSkills, {cache[name].file, name})
        /\ lag' = lag
    BY <1>4 DEF Skill!DeleteSkill
  <2>2. /\ Typed(cache', Names, CacheType) /\ Typed(dir', Range(Stems), FileType)
        /\ Typed(savedSkills', Range(Stems), Bodies)
    BY <2>1, TypedWithout, Zenon
  <2> QED
    BY <2>1, <2>2 DEF Typed
<1>5. CASE Skill!Crash
  <2>1. cache' = Skill!Empty /\ UNCHANGED <<dir, savedSkills, lag>>
    BY <1>5 DEF Skill!Crash
  <2> QED
    BY <1>0, <2>1 DEF Typed
<1>6. ASSUME NEW name \in Names, NEW text \in Bodies, Skill!CrashSaving(name, text)
      PROVE  SkillType'
  <2> DEFINE s == Clean[name]
  <2>1. /\ dir' \in Skill!Torn(s) \/ dir' = Skill!With(dir, s, [name |-> s, text |-> text])
        /\ cache' = Skill!Empty /\ lag' = lag
        /\ savedSkills' = Skill!Without(savedSkills, {s})
    BY <1>6 DEF Skill!CrashSaving
  <2>2. Typed(dir', Range(Stems), FileType)
    <3>1. CASE dir' \in Skill!Torn(s)
      BY <3>1, CleanNames, TornSkill
    <3>2. CASE dir' = Skill!With(dir, s, [name |-> s, text |-> text])
      BY <3>2, NewSkillType, CleanNames, TypedWith, Zenon
    <3> QED
      BY <2>1, <3>1, <3>2
  <2>3. Typed(savedSkills', Range(Stems), Bodies)
    BY <2>1, TypedWithout, Zenon
  <2> QED
    BY <1>0, <2>1, <2>2, <2>3 DEF Typed
<1>7. CASE UNCHANGED <<up, cache, dir, savedSkills, lag>>
  BY <1>7 DEF Typed
<1> QED
  BY <1>1, <1>2, <1>3, <1>4, <1>5, <1>6, <1>7 DEF Skill!Next, Skill!Call, Skill!CrashInCall

LEMMA InitSkillType == Skill!Init => SkillType
<1> SUFFICES ASSUME Skill!Init PROVE SkillType
  OBVIOUS
<1>1. DOMAIN Skill!Empty = {}
  BY DEF Skill!Empty
<1>2. PICK F \in SUBSET Range(Stems) : dir \in [F -> [name : Names, text : Bodies]]
  BY DEF Skill!Init, Range, Skill!Range
<1>3. DOMAIN dir \subseteq Range(Stems) /\ \A s \in DOMAIN dir : dir[s] \in FileType
  BY <1>2 DEF FileType, SkillText
<1> QED
  BY <1>1, <1>3 DEF Skill!Init, SkillType, Typed

\* What SaveSkill reported as saved is in its file under its name; the map has
\* it, or has what a file further down claimed when the directory was read.
Standing(s) == \/ cache[s] = [file |-> s, text |-> savedSkills[s]]
               \/ Skill!After(cache[s].file, s)
KeptInv == \A s \in DOMAIN savedSkills :
             /\ s \in DOMAIN dir /\ dir[s] = [name |-> s, text |-> savedSkills[s]]
             /\ up => s \in DOMAIN cache /\ Standing(s)

LEMMA KeptInvariance ==
  SkillType /\ KeptInv /\ [Skill!Next]_<<up, cache, dir, savedSkills, lag>> => KeptInv'
<1> SUFFICES ASSUME SkillType, KeptInv, [Skill!Next]_<<up, cache, dir, savedSkills, lag>>
             PROVE  KeptInv'
  OBVIOUS
<1>1. CASE Skill!Reload
  <2>1. cache' = Skill!Reloaded(dir) /\ dir' = dir /\ savedSkills' = savedSkills
    BY <1>1 DEF Skill!Reload
  <2>2. ASSUME NEW s \in DOMAIN savedSkills
        PROVE  s \in DOMAIN cache' /\ Standing(s)'
    <3>0. s \in DOMAIN dir /\ dir[s] = [name |-> s, text |-> savedSkills[s]]
      BY Zenon DEF KeptInv
    <3>1. s \in DOMAIN dir /\ dir[s].name = s /\ dir[s].text = savedSkills[s]
      BY <3>0
    <3>2. DOMAIN dir \subseteq Range(Stems)
      BY DEF SkillType, Typed
    <3> QED
      BY <2>1, <3>1, <3>2, ReloadedClaim DEF Standing
  <2> QED
    BY <2>1, <2>2 DEF KeptInv
<1>2. ASSUME NEW name \in Names, NEW text \in Bodies, Skill!SaveSkill(name, text)
      PROVE  KeptInv'
  <2> DEFINE s == Clean[name]
  <2>1. /\ dir'   = Skill!With(dir, s, [name |-> s, text |-> text])
        /\ cache' = Skill!With(cache, s, [file |-> s, text |-> text])
        /\ savedSkills' = Skill!With(savedSkills, s, text)
        /\ up' = up
    BY <1>2 DEF Skill!SaveSkill
  <2> HIDE DEF s
  <2>2. /\ s \in DOMAIN dir' /\ dir'[s] = [name |-> s, text |-> text]
        /\ s \in DOMAIN cache' /\ cache'[s] = [file |-> s, text |-> text]
        /\ savedSkills'[s] = text
    BY <2>1 DEF Skill!With
  <2>3. /\ \A r \in DOMAIN dir \ {s} : r \in DOMAIN dir' /\ dir'[r] = dir[r]
        /\ \A r \in DOMAIN cache \ {s} : r \in DOMAIN cache' /\ cache'[r] = cache[r]
        /\ \A r \in DOMAIN savedSkills \ {s} : savedSkills'[r] = savedSkills[r]
        /\ DOMAIN savedSkills' = DOMAIN savedSkills \cup {s}
    BY <2>1 DEF Skill!With
  <2>4. ASSUME NEW r \in DOMAIN savedSkills', r # s
        PROVE  /\ r \in DOMAIN dir' /\ dir'[r] = [name |-> r, text |-> savedSkills'[r]]
               /\ up' => r \in DOMAIN cache' /\ Standing(r)'
    <3>1. r \in DOMAIN savedSkills
      BY <2>3, <2>4
    <3> QED
      BY <2>1, <2>3, <2>4, <3>1 DEF KeptInv, Standing
  <2> QED
    BY <2>2, <2>4 DEF KeptInv, Standing
<1>3. ASSUME NEW name \in Names, Skill!SaveFails(name) PROVE KeptInv'
  <2>1. cache' = cache /\ up' = up
    BY <1>3 DEF Skill!SaveFails
  <2>2. CASE UNCHANGED <<dir, savedSkills, lag>>
    BY <2>1, <2>2 DEF KeptInv, Standing
  <2>3. CASE dir' \in Skill!Torn(Clean[name])
             /\ savedSkills' = Skill!Without(savedSkills, {Clean[name]})
    <3>1. /\ DOMAIN dir' = DOMAIN dir \cup {Clean[name]}
          /\ \A r \in DOMAIN dir \ {Clean[name]} : dir'[r] = dir[r]
      BY <2>3, CleanNames, TornSkill
    <3>2. /\ DOMAIN savedSkills' = DOMAIN savedSkills \ {Clean[name]}
          /\ \A r \in DOMAIN savedSkills' : savedSkills'[r] = savedSkills[r]
      BY <2>3 DEF Skill!Without, Restrict, Skill!Restrict
    <3> QED
      BY <2>1, <3>1, <3>2 DEF KeptInv, Standing
  <2> QED
    BY <1>3, <2>2, <2>3 DEF Skill!SaveFails
<1>4. ASSUME NEW name \in Names, Skill!DeleteSkill(name) PROVE KeptInv'
  <2> DEFINE s == cache[name].file
  <2>1. /\ cache' = Skill!Without(cache, {name}) /\ dir' = Skill!Without(dir, {s})
        /\ savedSkills' = Skill!Without(savedSkills, {s, name}) /\ up' = up
    BY <1>4 DEF Skill!DeleteSkill
  <2> HIDE DEF s
  <2>2. /\ DOMAIN savedSkills' = DOMAIN savedSkills \ {s, name}
        /\ \A r \in DOMAIN savedSkills' : savedSkills'[r] = savedSkills[r]
    BY <2>1 DEF Skill!Without, Restrict, Skill!Restrict
  <2>3. \A r \in DOMAIN dir \ {s} : r \in DOMAIN dir' /\ dir'[r] = dir[r]
    BY <2>1, WithoutEntries
  <2>4. \A r \in DOMAIN cache \ {name} : r \in DOMAIN cache' /\ cache'[r] = cache[r]
    BY <2>1, WithoutEntries
  <2> QED
    BY <2>1, <2>2, <2>3, <2>4 DEF KeptInv, Standing
<1>5. CASE Skill!Crash
  BY <1>5 DEF Skill!Crash, KeptInv
<1>6. ASSUME NEW name \in Names, NEW text \in Bodies, Skill!CrashSaving(name, text)
      PROVE  KeptInv'
  <2> DEFINE s == Clean[name]
  <2>1. /\ dir' \in Skill!Torn(s) \/ dir' = Skill!With(dir, s, [name |-> s, text |-> text])
        /\ savedSkills' = Skill!Without(savedSkills, {s}) /\ up' = FALSE
    BY <1>6 DEF Skill!CrashSaving
  <2>2. \A r \in DOMAIN dir \ {s} : r \in DOMAIN dir' /\ dir'[r] = dir[r]
    <3>1. CASE dir' \in Skill!Torn(s)
      BY <3>1, CleanNames, TornSkill
    <3>2. CASE dir' = Skill!With(dir, s, [name |-> s, text |-> text])
      BY <3>2 DEF Skill!With
    <3> QED
      BY <2>1, <3>1, <3>2
  <2>3. /\ DOMAIN savedSkills' = DOMAIN savedSkills \ {s}
        /\ \A r \in DOMAIN savedSkills' : savedSkills'[r] = savedSkills[r]
    BY <2>1 DEF Skill!Without, Restrict, Skill!Restrict
  <2> QED
    BY <2>1, <2>2, <2>3 DEF KeptInv
<1>7. CASE UNCHANGED <<up, cache, dir, savedSkills, lag>>
  BY <1>7 DEF KeptInv, Standing
<1> QED
  BY <1>1, <1>2, <1>3, <1>4, <1>5, <1>6, <1>7 DEF Skill!Next, Skill!Call, Skill!CrashInCall

LEMMA InitKeptInv == Skill!Init => KeptInv
  BY DEF Skill!Init, Skill!Empty, KeptInv

\* skills.go:159: what SaveSkill reported as saved is what its name stands for,
\* over restarts and failures, unless a file further down the directory claimed
\* the name when it was read.
THEOREM SavedSkillsStand == SpecAll => []SavedSkillsSurvive
<1>1. KeptInv => SavedSkillsSurvive
  <2> SUFFICES ASSUME KeptInv, up, NEW s \in DOMAIN savedSkills
               PROVE  /\ s \in DOMAIN cache
                      /\ cache[s].text = savedSkills[s] \/ Skill!After(cache[s].file, s)
    BY DEF SavedSkillsSurvive, Skill!SavedSkillsSurvive
  <2>1. s \in DOMAIN cache /\ Standing(s)
    BY Zenon DEF KeptInv
  <2> QED
    BY <2>1 DEF Standing
<1> QED
  BY <1>1, InitSkillType, SkillTypeInvariance, InitKeptInv, KeptInvariance,
     KnowledgeIsASkillManager, PTL DEF Skill!Spec, Skill!vars

LEMMA OneEachWith ==
  ASSUME NEW files, ~Skill!Foreign(files), NEW s, NEW text
  PROVE  LET new == Skill!With(files, s, [name |-> s, text |-> text]) IN
           /\ ~Skill!Foreign(new)
           /\ OneEach(new) = Skill!With(OneEach(files), s, [file |-> s, text |-> text])
<1> DEFINE new  == Skill!With(files, s, [name |-> s, text |-> text])
           more == Skill!With(OneEach(files), s, [file |-> s, text |-> text])
<1>1. /\ DOMAIN new = DOMAIN files \cup {s}
      /\ new[s].name = s /\ new[s].text = text
      /\ \A r \in DOMAIN files \ {s} : new[r] = files[r]
  BY DEF Skill!With
<1>2. more = [r \in DOMAIN files \cup {s} |->
                IF r = s THEN [file |-> s, text |-> text] ELSE [file |-> r, text |-> files[r].text]]
  BY DEF OneEach, Skill!With
<1> HIDE DEF new, more
<1>3. ~Skill!Foreign(new)
  BY <1>1 DEF Skill!Foreign
<1>4. \A r \in DOMAIN files \cup {s} :
        [file |-> r, text |-> new[r].text]
        = IF r = s THEN [file |-> s, text |-> text] ELSE [file |-> r, text |-> files[r].text]
  BY <1>1
<1>5. OneEach(new) = more
  BY <1>1, <1>2, <1>4 DEF OneEach
<1> QED
  BY <1>3, <1>5 DEF new, more

LEMMA OneEachWithout ==
  ASSUME NEW files, ~Skill!Foreign(files), NEW s
  PROVE  /\ ~Skill!Foreign(Skill!Without(files, {s}))
         /\ OneEach(Skill!Without(files, {s})) = Skill!Without(OneEach(files), {s})
<1>1. Skill!Without(files, {s}) = [r \in DOMAIN files \ {s} |-> files[r]]
  BY DEF Skill!Without, Restrict, Skill!Restrict
<1>2. Skill!Without(OneEach(files), {s}) =
        [r \in DOMAIN files \ {s} |-> [file |-> r, text |-> files[r].text]]
  BY DEF Skill!Without, Restrict, Skill!Restrict, OneEach
<1> QED
  BY <1>1, <1>2 DEF OneEach, Skill!Foreign

\* While no file bears another skill's name and no failed write has changed one,
\* the map has one skill for each file.
AgreeInv == up /\ ~lag => ~Skill!Foreign(dir) /\ cache = OneEach(dir)

LEMMA AgreeInvariance ==
  SkillType /\ AgreeInv /\ [Skill!Next]_<<up, cache, dir, savedSkills, lag>> => AgreeInv'
<1> SUFFICES ASSUME SkillType, AgreeInv, [Skill!Next]_<<up, cache, dir, savedSkills, lag>>,
                    up', ~lag'
             PROVE  ~Skill!Foreign(dir') /\ cache' = OneEach(dir')
  BY DEF AgreeInv, Skill!Foreign, OneEach
<1>1. CASE Skill!Reload
  <2>1. cache' = Skill!Reloaded(dir) /\ dir' = dir /\ ~Skill!Foreign(dir)
    BY <1>1 DEF Skill!Reload
  <2>2. DOMAIN dir \subseteq Range(Stems)
    BY DEF SkillType, Typed
  <2> QED
    BY <2>1, <2>2, ReloadedOneEach
<1>2. ASSUME NEW name \in Names, NEW text \in Bodies, Skill!SaveSkill(name, text)
      PROVE  ~Skill!Foreign(dir') /\ cache' = OneEach(dir')
  <2> DEFINE s == Clean[name]
  <2>1. /\ dir'   = Skill!With(dir, s, [name |-> s, text |-> text])
        /\ cache' = Skill!With(cache, s, [file |-> s, text |-> text])
        /\ up /\ ~lag
    BY <1>2 DEF Skill!SaveSkill
  <2>2. ~Skill!Foreign(dir) /\ cache = OneEach(dir)
    BY <2>1 DEF AgreeInv
  <2> QED
    BY <2>1, <2>2, OneEachWith
<1>3. ASSUME NEW name \in Names, Skill!SaveFails(name)
      PROVE  ~Skill!Foreign(dir') /\ cache' = OneEach(dir')
  BY <1>3 DEF Skill!SaveFails, AgreeInv
<1>4. ASSUME NEW name \in Names, Skill!DeleteSkill(name)
      PROVE  ~Skill!Foreign(dir') /\ cache' = OneEach(dir')
  <2>1. /\ up /\ ~lag /\ name \in DOMAIN cache /\ cache' = Skill!Without(cache, {name})
        /\ dir' = Skill!Without(dir, {cache[name].file})
    BY <1>4 DEF Skill!DeleteSkill
  <2>2. ~Skill!Foreign(dir) /\ cache = OneEach(dir)
    BY <2>1 DEF AgreeInv
  <2>3. cache[name].file = name
    BY <2>1, <2>2 DEF OneEach
  <2> QED
    BY <2>1, <2>2, <2>3, OneEachWithout
<1>5. CASE Skill!Crash
  BY <1>5 DEF Skill!Crash
<1>6. ASSUME NEW name \in Names, NEW text \in Bodies, Skill!CrashSaving(name, text) PROVE FALSE
  BY <1>6 DEF Skill!CrashSaving
<1>7. CASE UNCHANGED <<up, cache, dir, savedSkills, lag>>
  BY <1>7 DEF AgreeInv
<1> QED
  BY <1>1, <1>2, <1>3, <1>4, <1>5, <1>6, <1>7 DEF Skill!Next, Skill!Call, Skill!CrashInCall

\* skills.go:159: over saves, failed saves and deletions the map stays what a
\* reload would make of the directory, for any names and files.
THEOREM SkillsAreInTheMap == SpecAll => []SkillsAgree
<1>1. SkillType /\ AgreeInv => SkillsAgree
  BY ReloadedOneEach DEF SkillType, Typed, AgreeInv, SkillsAgree, Skill!SkillsAgree
<1>2. Skill!Init => AgreeInv
  BY DEF Skill!Init, AgreeInv
<1> QED
  BY <1>1, <1>2, InitSkillType, SkillTypeInvariance, AgreeInvariance,
     KnowledgeIsASkillManager, PTL DEF Skill!Spec, Skill!vars

----------------------------------------------------------------------------
(* The incident reports. *)

ReportInv == /\ now \in 0 .. Seconds
             /\ made \subseteq [at : 0 .. Seconds, text : Bodies]
             /\ \A id \in DOMAIN reports \ {Report!Shipped} :
                  id \in 0 .. Seconds /\ reports[id] \in Bodies \cup {Cut}
             /\ \A m \in made : m.at \in DOMAIN reports /\ reports[m.at] = m.text

\* What a call leaves in the directory, if it gets as far as the file.
LEMMA StoredReport ==
  ASSUME ReportInv, NEW text \in Bodies \cup {Cut}, reports' = Report!Stored(text), now' = now,
         made' = Report!Earlier \/ (text \in Bodies /\ made' = Report!Earlier \cup {[at |-> now, text |-> text]})
  PROVE  ReportInv'
<1>1. /\ DOMAIN reports' = DOMAIN reports \cup {now} /\ reports'[now] = text
      /\ \A id \in DOMAIN reports \ {now} : reports'[id] = reports[id]
  BY DEF Report!Stored, Report!IncidentID
<1>2. \A id \in DOMAIN reports' \ {Report!Shipped} :
        id \in 0 .. Seconds /\ reports'[id] \in Bodies \cup {Cut}
  BY <1>1 DEF ReportInv
<1>3. \A m \in Report!Earlier : m \in made /\ m.at # now
  BY DEF Report!Earlier
<1>4. \A m \in Report!Earlier : m.at \in DOMAIN reports' /\ reports'[m.at] = m.text
  BY <1>1, <1>3 DEF ReportInv
<1>5. CASE made' = Report!Earlier
  BY <1>2, <1>3, <1>4, <1>5 DEF ReportInv, Report!Shipped
<1>6. CASE text \in Bodies /\ made' = Report!Earlier \cup {[at |-> now, text |-> text]}
  <2> DEFINE new == [at |-> now, text |-> text]
  <2>1. new \in [at : 0 .. Seconds, text : Bodies] /\ new.at = now /\ new.text = text
    BY <1>6 DEF ReportInv
  <2> HIDE DEF new
  <2>2. \A m \in made' : m \in Report!Earlier \/ m = new
    BY <1>6 DEF new
  <2>3. made' \subseteq [at : 0 .. Seconds, text : Bodies]
    BY <1>3, <2>1, <2>2 DEF ReportInv
  <2>4. \A m \in made' : m.at \in DOMAIN reports' /\ reports'[m.at] = m.text
    BY <1>1, <1>4, <2>1, <2>2
  <2> QED
    BY <1>2, <2>3, <2>4 DEF ReportInv, Report!Shipped
<1> QED
  BY <1>5, <1>6

LEMMA ReportInvariance ==
  ReportInv /\ [Report!Next]_<<up, now, reports, made>> => ReportInv'
<1> SUFFICES ASSUME ReportInv, [Report!Next]_<<up, now, reports, made>> PROVE ReportInv'
  OBVIOUS
<1>1. CASE UNCHANGED <<now, reports, made>>
  BY <1>1 DEF ReportInv, Report!Shipped
<1>2. CASE Report!NextSecond
  <2>1. now' \in 0 .. Seconds
    BY <1>2, KnowledgeAssumption DEF Report!NextSecond, ReportInv
  <2> QED
    BY <1>2, <2>1 DEF Report!NextSecond, ReportInv, Report!Shipped
<1>3. ASSUME NEW text \in Bodies, Report!Generate(text) PROVE ReportInv'
  BY <1>3, StoredReport DEF Report!Generate
<1>4. CASE Report!GenerateFails
  <2>1. CASE reports' = Report!Stored(Cut) /\ made' = Report!Earlier
    BY <1>4, <2>1, StoredReport DEF Report!GenerateFails
  <2> QED
    BY <1>1, <1>4, <2>1 DEF Report!GenerateFails
<1>5. ASSUME NEW text \in Bodies, Report!CrashGenerating(text) PROVE ReportInv'
  <2>1. /\ reports' = Report!Stored(Cut) \/ reports' = Report!Stored(text)
        /\ made' = Report!Earlier /\ now' = now
    BY <1>5 DEF Report!CrashGenerating
  <2> QED
    BY <2>1, StoredReport
<1> QED
  BY <1>1, <1>2, <1>3, <1>4, <1>5
  DEF Report!Next, Report!Boot, Report!Crash, Report!Call, Report!CrashInCall

LEMMA InitReportInv == Report!Init => ReportInv
  BY KnowledgeAssumption DEF Report!Init, ReportInv

\* Of the reports, all but the shipped one were written in a second of their own.
LEMMA ReportsAreFinite ==
  ASSUME ReportInv PROVE IsFiniteSet(DOMAIN reports)
<1>1. DOMAIN reports \subseteq 0 .. Seconds + 1
  BY KnowledgeAssumption DEF ReportInv, Report!Shipped
<1>2. IsFiniteSet(0 .. Seconds + 1)
  BY KnowledgeAssumption, FS_Interval
<1> QED
  BY <1>1, <1>2, FS_Subset

LEMMA SameCardinality == \A S : Report!Cardinality(S) = Cardinality(S)
  BY Zenon DEF Cardinality, Report!Cardinality

\* report.go, gemini.go:402: a report that was announced is in its file until
\* another is written in the same second, and the list leaves it out only for
\* Limit - 1 later ones.
THEOREM ReportsAreKeptAndListed == SpecAll => []ReportsAreKept
<1>1. ReportInv => ReportsAreKept
  <2> SUFFICES ASSUME ReportInv, NEW m \in made
               PROVE  /\ m.at \in DOMAIN reports /\ reports[m.at] = m.text
                      /\ \/ m.at \in Report!ListRecent
                         \/ Cardinality({id \in DOMAIN reports \ {Report!Shipped} : id > m.at})
                              >= Limit - 1
    BY SameCardinality DEF ReportsAreKept, Report!ReportsAreKept, Report!NewestAreListed, Report!IncidentID
  <2> DEFINE later == {id \in DOMAIN reports : id > m.at}
             others == {id \in DOMAIN reports \ {Report!Shipped} : id > m.at}
  <2>1. m.at \in DOMAIN reports /\ reports[m.at] = m.text
    BY DEF ReportInv
  <2>2. IsFiniteSet(later)
    BY ReportsAreFinite, FS_Subset, later \in SUBSET DOMAIN reports
  <2>3. others = later \ {Report!Shipped}
    OBVIOUS
  <2>4. CASE Cardinality(later) < Limit
    BY <2>1, <2>4, SameCardinality DEF Report!ListRecent
  <2>5. CASE ~(Cardinality(later) < Limit)
    <3>1. Cardinality(later) \in Nat
      BY <2>2, FS_CardinalityType
    <3> HIDE DEF later, others
    <3>2. Cardinality(others) = IF Report!Shipped \in later THEN Cardinality(later) - 1
                                ELSE Cardinality(later)
      BY <2>2, <2>3, FS_RemoveElement
    <3>3. Cardinality(others) >= Limit - 1
      BY <2>5, <3>1, <3>2, KnowledgeAssumption
    <3> QED
      BY <2>1, <3>3 DEF others
  <2> QED
    BY <2>4, <2>5
<1> QED
  BY <1>1, InitReportInv, ReportInvariance, KnowledgeIsAReportStore, PTL
  DEF Report!Spec, Report!vars

----------------------------------------------------------------------------
(* The prompt. *)

\* gemini.go:79: the prompt of the next run has every fact and every skill that
\* was reported as saved, unless the last write of the facts failed.
THEOREM PromptIsComplete == SpecAll => PromptCatchesUp
<1> DEFINE Inv == MemoryType /\ HeldInv /\ SkillType /\ KeptInv
<1>1. ASSUME Inv, [NextAll]_knowledge, ~up, up', MemoryType', HeldInv', KeptInv'
      PROVE  /\ DOMAIN savedSkills \subseteq prompt'.skills
             /\ ~stale => \A text \in saved : \E fact \in prompt'.facts :
                                                fact[1].word = text[1].word
  <2>1. CASE NewAgent
    <3>1. /\ prompt' = [facts |-> Range(facts'), skills |-> DOMAIN cache']
          /\ savedSkills' = savedSkills
          /\ saved' = IF stale THEN saved \cap Range(facts') ELSE saved
      BY <2>1 DEF NewAgent, BuildSystemPrompt, Load, Skill!Reload
    <3>2. \A s \in DOMAIN savedSkills : s \in DOMAIN cache'
      BY <1>1, <3>1 DEF KeptInv
    <3>3. ~stale => \A text \in saved : \E i \in DOMAIN facts' :
                                          facts'[i][1].word = text[1].word
      BY <1>1, <3>1 DEF HeldInv
    <3>4. \A i \in DOMAIN facts' : facts'[i] \in Range(facts')
      BY DEF Range
    <3> QED
      BY <3>1, <3>2, <3>3, <3>4
  <2>2. CASE ToolCall
    <3>1. up' = up
      BY <1>1, <2>2 DEF ToolCall, MemoryCall, Clear, SaveAgain, SaveAppends, vars, Skill!Call,
         Skill!SaveSkill, Skill!SaveFails, Skill!DeleteSkill, Report!Call
    <3> QED
      BY <1>1, <3>1
  <2>3. CASE ToolCallEnds
    BY <1>1, <2>3 DEF ToolCallEnds, SaveStores, SaveFails
  <2>4. CASE TimePasses
    BY <1>1, <2>4 DEF TimePasses, vars
  <2>5. CASE BotCrashes
    BY <1>1, <2>5 DEF BotCrashes, Crash
  <2>6. CASE UNCHANGED knowledge
    BY <1>1, <2>6 DEF knowledge, vars
  <2> QED
    BY <1>1, <2>1, <2>2, <2>3, <2>4, <2>5, <2>6 DEF NextAll
<1>2. Inv /\ Inv' /\ [NextAll]_knowledge =>
        [~up /\ up' =>
           /\ DOMAIN savedSkills \subseteq prompt'.skills
           /\ ~stale => \A text \in saved : \E fact \in prompt'.facts :
                                              fact[1].word = text[1].word]_knowledge
  BY <1>1
<1>3. Init => HeldInv
  BY DEF Init, HeldInv
<1>4. SpecAll => []Inv
  BY <1>3, InitMemoryType, MemoryTypeInvariance, HeldInvariance, KnowledgeIsAMemoryStore,
     InitSkillType, SkillTypeInvariance, InitKeptInv, KeptInvariance,
     KnowledgeIsASkillManager, PTL DEF Spec, Skill!Spec, Skill!vars
<1> QED
  BY <1>2, <1>4, PTL DEF SpecAll, PromptCatchesUp

----------------------------------------------------------------------------
(* Types. *)

PromptType == /\ DOMAIN prompt = {"facts", "skills"} /\ prompt.skills \subseteq Names
              /\ calls \in 0 .. MaxCalls

LEMMA PromptTypeInvariance ==
  PromptType /\ [NextAll]_knowledge /\ SkillType' => PromptType'
<1> SUFFICES ASSUME PromptType, [NextAll]_knowledge, SkillType' PROVE PromptType'
  OBVIOUS
<1>1. calls' = calls \/ (calls < MaxCalls /\ calls' = calls + 1)
  BY DEF NextAll, NewAgent, ToolCall, ToolCallEnds, TimePasses, BotCrashes, knowledge
<1>2. calls' \in 0 .. MaxCalls
  BY <1>1, KnowledgeAssumption DEF PromptType
<1>3. CASE prompt' = prompt
  BY <1>2, <1>3 DEF PromptType
<1>4. CASE prompt' = NoPrompt
  BY <1>2, <1>4 DEF PromptType, NoPrompt
<1>5. CASE prompt' = BuildSystemPrompt
  <2>1. DOMAIN cache' \subseteq Names
    BY DEF SkillType, Typed
  <2> QED
    BY <1>2, <1>5, <2>1 DEF PromptType, BuildSystemPrompt
<1> QED
  BY <1>3, <1>4, <1>5 DEF NextAll, NewAgent, ToolCall, ToolCallEnds, TimePasses, BotCrashes,
     knowledge

\* The variables of the three stores, the prompt and the calls are of their
\* types.
THEOREM KnowledgeTypeCorrect == SpecAll => []KnowledgeTypeOK
<1>1. SkillType /\ up \in BOOLEAN => Skill!TypeOK
  <2>1. \A f, keys : Typed(f, keys, Bodies) => Skill!Range(f) \subseteq Bodies
    BY DEF Typed, Skill!Range
  <2>2. Skill!Range(Stems) = Range(Stems)
    BY DEF Skill!Range, Range
  <2> QED
    BY <2>1, <2>2 DEF SkillType, Typed, Skill!TypeOK, FileType, CacheType, SkillText
<1>2. ReportInv /\ up \in BOOLEAN => Report!TypeOK
  BY DEF ReportInv, Report!TypeOK
<1>3. MemoryType /\ SkillType /\ ReportInv /\ PromptType => KnowledgeTypeOK
  BY <1>1, <1>2, FactsTypeCorrect DEF MemoryType, PromptType, KnowledgeTypeOK
<1>4. InitAll => PromptType
  BY KnowledgeAssumption DEF InitAll, NoPrompt, PromptType
<1>5. SpecAll => [](MemoryType /\ SkillType /\ ReportInv)
  BY InitMemoryType, MemoryTypeInvariance, KnowledgeIsAMemoryStore,
     InitSkillType, SkillTypeInvariance, KnowledgeIsASkillManager,
     InitReportInv, ReportInvariance, KnowledgeIsAReportStore,
     PTL DEF Spec, Skill!Spec, Skill!vars, Report!Spec, Report!vars
<1> QED
  BY <1>3, <1>4, <1>5, PromptTypeInvariance, PTL DEF SpecAll
=============================================================================
