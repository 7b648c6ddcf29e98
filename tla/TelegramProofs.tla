--------------------------- MODULE TelegramProofs ---------------------------
(***************************************************************************)
(* Proofs about the two ends of the bot's line to Telegram, which share    *)
(* nothing: the gate that updates come in through, and the queue that      *)
(* alerts go out by.                                                       *)
(*                                                                         *)
(* UpdateLoop is for any operators and any whole allowance of at least one *)
(* token a minute: the lazily filled buckets of the limiter are the        *)
(* eagerly filled ones of TokenBucket.  Broadcaster is for any number of   *)
(* operators, any capacity of the channel and any number of alerts.        *)
(***************************************************************************)
EXTENDS UpdateLoop, Broadcaster, TLAPS

----------------------------------------------------------------------------
(* UpdateLoop. *)


\* The allowance is at least one token: below it the limiter grants a chat its
\* first call and then none, which TokenBucket does not.
AllowanceOfOne == Cost <= Burst

\* What the refinement needs to know of the state.
BucketsInv == /\ known \subseteq Operators
              /\ tokens \in [Senders -> 0 .. Burst]
              /\ idle \in [Senders -> 0 .. Minute]

LEMMA BurstType == Burst \in Nat
  BY LimiterAssumption, SMTT(30) DEF Burst

LEMMA RefilledType ==
  ASSUME BucketsInv, NEW c \in Senders
  PROVE  Refilled(c) \in 0 .. Burst
<1>1. idle[c] * Rate \in Nat
  BY LimiterAssumption DEF BucketsInv
<1> QED
  BY <1>1, BurstType DEF BucketsInv, Refilled

\* Right after a bucket was looked at it holds what was left in it.
LEMMA LookedLevel ==
  ASSUME BucketsInv, NEW c \in Senders, NEW left \in 0 .. Burst, Looked(c, left)
  PROVE  /\ Refilled(c)' = left
         /\ \A d \in Senders : d # c => Refilled(d)' = Refilled(d)
<1>1. tokens'[c] = left /\ idle'[c] = 0
  BY DEF BucketsInv, Looked
<1>2. \A d \in Senders : d # c => tokens'[d] = tokens[d] /\ idle'[d] = idle[d]
  BY DEF BucketsInv, Looked
<1>3. idle'[c] * Rate = 0
  BY <1>1, LimiterAssumption
<1> QED
  BY <1>1, <1>2, <1>3, BurstType DEF Refilled, Burst

\* A tick later it holds what flows in during a tick, and no more than Burst.
LEMMA TickLevel ==
  ASSUME BucketsInv, Clock, NEW c \in Senders
  PROVE  Refilled(c)' = Eager!Fill(Refilled(c))
<1>1. /\ tokens[c] \in 0 .. Burst /\ tokens'[c] = tokens[c]
      /\ idle[c] \in 0 .. Minute
      /\ idle'[c] = IF idle[c] < Minute THEN idle[c] + 1 ELSE Minute
  BY DEF BucketsInv, Clock
<1>2. Rate \in Nat /\ Minute \in Nat /\ Burst \in Nat /\ Burst = Minute * Rate
  BY LimiterAssumption, BurstType DEF Burst
<1>3. Eager!Fill(Refilled(c)) = IF Refilled(c) + Rate > Burst THEN Burst ELSE Refilled(c) + Rate
  BY DEF Eager!Fill
<1>4. Refilled(c) \in 0 .. Burst
  BY RefilledType
<1>5. Refilled(c)' = IF tokens'[c] + idle'[c] * Rate > Burst
                     THEN Burst ELSE tokens'[c] + idle'[c] * Rate
  BY DEF Refilled, Burst
<1>6. CASE idle[c] < Minute
  <2>1. idle'[c] * Rate = idle[c] * Rate + Rate
    BY <1>1, <1>2, <1>6
  <2>2. idle[c] * Rate \in Nat
    BY <1>1, <1>2
  <2> QED
    BY <1>1, <1>2, <1>3, <1>5, <2>1, <2>2 DEF Refilled
<1>7. CASE idle[c] = Minute
  <2>1. idle'[c] * Rate = Burst /\ idle[c] * Rate = Burst
    BY <1>1, <1>2, <1>7
  <2>2. Refilled(c) = Burst /\ Refilled(c)' = Burst
    BY <1>1, <1>2, <1>5, <2>1 DEF Refilled
  <2> QED
    BY <1>2, <1>3, <2>2
<1> QED
  BY <1>1, <1>2, <1>6, <1>7

----------------------------------------------------------------------------
LEMMA InitBuckets == InitGate => BucketsInv
  BY BurstType, LimiterAssumption DEF InitGate, BucketsInv

LEMMA BucketsInvariance ==
  ASSUME AllowanceOfOne PROVE BucketsInv /\ [NextGate]_gateVars => BucketsInv'
<1> SUFFICES ASSUME BucketsInv, [NextGate]_gateVars PROVE BucketsInv'
  OBVIOUS
<1> USE LimiterAssumption, BurstType
<1>1. ASSUME NEW c \in Senders, NEW left \in 0 .. Burst, Looked(c, left),
             known' \subseteq Operators
      PROVE  BucketsInv'
  BY <1>1 DEF BucketsInv, Looked, Burst
<1>2. ASSUME NEW c \in Senders, handleUpdate(c) PROVE BucketsInv'
  <2>1. Refilled(c) \in 0 .. Burst
    BY RefilledType
  <2>2. CASE Stranger(c)
    BY <2>2 DEF Stranger, bucket, BucketsInv, Burst
  <2>3. CASE Handled(c)
    <3>1. CASE AllowFirst(c)
      <4>1. Burst - Cost \in 0 .. Burst
        BY DEF AllowanceOfOne
      <4> QED
        BY <1>1, <2>3, <3>1, <4>1 DEF Handled, AllowFirst, BucketsInv
    <3>2. CASE AllowMore(c)
      <4>1. Refilled(c) - Cost \in 0 .. Burst
        BY <2>1, <3>2 DEF AllowMore
      <4> QED
        BY <1>1, <3>2, <4>1 DEF AllowMore, BucketsInv
    <3> QED
      BY <2>3, <3>1, <3>2 DEF Handled
  <2>4. CASE Limited(c)
    BY <1>1, <2>1, <2>4 DEF Limited, Deny, BucketsInv
  <2> QED
    BY <1>2, <2>2, <2>3, <2>4 DEF handleUpdate
<1>3. CASE Clock
  BY <1>3 DEF Clock, BucketsInv, Burst
<1>4. CASE UNCHANGED gateVars
  BY <1>4 DEF gateVars, bucket, BucketsInv, Burst
<1> QED
  BY <1>2, <1>3, <1>4 DEF NextGate

\* main.go:118: a chat that is not an operator's never has a bucket.
THEOREM StrangersLeaveNoTrace ==
  ASSUME AllowanceOfOne PROVE SpecGate => []OnlyOperatorsHaveBuckets
<1>1. BucketsInv => OnlyOperatorsHaveBuckets
  BY DEF BucketsInv, OnlyOperatorsHaveBuckets
<1> QED
  BY InitBuckets, BucketsInvariance, <1>1, PTL DEF SpecGate

----------------------------------------------------------------------------
\* main.go:128: a call is refused only when no token can have flown in since
\* the operator's last one.
THEOREM ARestedOperatorIsHeard ==
  ASSUME AllowanceOfOne PROVE SpecGate => RestIsEnough
<1>1. ASSUME BucketsInv, [NextGate]_gateVars
      PROVE  [\A c \in Operators :
                verdict' = <<c, "refused">> => idle[c] * Rate < Cost]_gateVars
  <2> SUFFICES ASSUME NextGate, NEW c \in Operators, verdict' = <<c, "refused">>
               PROVE  idle[c] * Rate < Cost
    BY <1>1 DEF gateVars
  <2>1. ~Clock
    BY DEF Clock
  <2>2. PICK d \in Senders : handleUpdate(d)
    BY <2>1 DEF NextGate
  <2>3. Limited(d) /\ d = c
    BY <2>2 DEF handleUpdate, Stranger, Handled, Limited
  <2>4. Refilled(c) < Cost
    BY <2>3 DEF Limited, Deny
  <2>5. c \in Senders /\ Cost <= Burst /\ Cost \in Nat /\ Rate \in Nat
    BY LimiterAssumption DEF AllowanceOfOne
  <2>6. tokens[c] \in 0 .. Burst /\ idle[c] \in 0 .. Minute
    BY <1>1, <2>5 DEF BucketsInv
  <2>7. idle[c] * Rate \in Nat
    BY <2>5, <2>6, LimiterAssumption
  <2> QED
    BY <2>4, <2>5, <2>6, <2>7, BurstType DEF Refilled
<1> QED
  BY InitBuckets, BucketsInvariance, <1>1, PTL DEF SpecGate, RestIsEnough

----------------------------------------------------------------------------
(* The refinement. *)

AbsVerdict == IF verdict # <<>> /\ verdict[2] = "stranger" THEN <<>> ELSE verdict
Levels     == [c \in Operators |-> Level(c)]

LEMMA LevelsAfterLook ==
  ASSUME BucketsInv, NEW c \in Operators, NEW left \in 0 .. Burst,
         Looked(c, left), known' = known \cup {c}
  PROVE  Levels' = [Levels EXCEPT ![c] = left]
<1>1. c \in Senders /\ Operators \subseteq Senders
  BY LimiterAssumption
<1>2. Refilled(c)' = left /\ \A d \in Senders : d # c => Refilled(d)' = Refilled(d)
  BY <1>1, LookedLevel
<1>3. Level(c)' = left
  BY <1>2 DEF Level, Burst
<1>4. \A d \in Operators : d # c => Level(d)' = Level(d)
  BY <1>1, <1>2 DEF Level, Burst
<1> QED
  BY <1>3, <1>4 DEF Levels

LEMMA LevelsAfterTick ==
  ASSUME BucketsInv, Clock
  PROVE  Levels' = [c \in Operators |-> Eager!Fill(Levels[c])]
<1>1. \A c \in Operators : Refilled(c)' = Eager!Fill(Refilled(c))
  BY TickLevel, LimiterAssumption
<1>2. Eager!Fill(Burst) = Burst
  BY BurstType, LimiterAssumption DEF Eager!Fill
<1>3. \A c \in Operators : Level(c)' = Eager!Fill(Level(c))
  BY <1>1, <1>2 DEF Level, Clock, Burst
<1> QED
  BY <1>3 DEF Levels

LEMMA StepIsABucketStep ==
  ASSUME AllowanceOfOne, BucketsInv, NextGate
  PROVE  Eager!Next
<1> USE DEF AbsVerdict, Levels
<1>1. CASE Clock
  <2>1. Levels' = [c \in Operators |-> Eager!Fill(Levels[c])]
    BY <1>1, LevelsAfterTick
  <2>2. AbsVerdict' = <<>>
    BY <1>1 DEF Clock
  <2> QED
    BY <2>1, <2>2 DEF Eager!Next, Eager!Tick
<1>2. ASSUME NEW c \in Senders, Stranger(c) PROVE Eager!Next
  <2>1. AbsVerdict' = <<>>
    BY <1>2 DEF Stranger
  <2>2. Levels' = Levels
    BY <1>2 DEF Stranger, bucket, Level, Refilled, Burst
  <2> QED
    BY <2>1, <2>2 DEF Eager!Next, Eager!Elsewhere
<1>3. ASSUME NEW c \in Senders, Handled(c) PROVE Eager!Next
  <2>1. c \in Operators /\ AbsVerdict' = <<c, "granted">>
    BY <1>3 DEF Handled
  <2>2. Refilled(c) \in 0 .. Burst /\ Burst \in Nat /\ Cost \in Nat /\ Cost <= Burst
    BY RefilledType, BurstType, LimiterAssumption DEF AllowanceOfOne
  <2>3. Levels[c] = IF c \in known THEN Refilled(c) ELSE Burst
    BY <2>1 DEF Level
  <2>4. Levels[c] >= Cost /\ Looked(c, Levels[c] - Cost) /\ known' = known \cup {c}
    BY <1>3, <2>2, <2>3 DEF Handled, AllowFirst, AllowMore
  <2>5. Levels[c] - Cost \in 0 .. Burst
    BY <2>2, <2>3, <2>4
  <2>6. Levels' = [Levels EXCEPT ![c] = Levels[c] - Cost]
    BY <2>1, <2>4, <2>5, LevelsAfterLook
  <2>7. Eager!Grant(c)
    BY <2>1, <2>4, <2>6 DEF Eager!Grant
  <2> QED
    BY <2>1, <2>7 DEF Eager!Next
<1>4. ASSUME NEW c \in Senders, Limited(c) PROVE Eager!Next
  <2>1. c \in Operators /\ AbsVerdict' = <<c, "refused">>
    BY <1>4 DEF Limited
  <2>2. Refilled(c) \in 0 .. Burst
    BY RefilledType
  <2>3. c \in known /\ Levels[c] = Refilled(c) /\ Refilled(c) < Cost
    BY <1>4, <2>1 DEF Limited, Deny, Level
  <2>4. Looked(c, Refilled(c)) /\ known' = known \cup {c}
    BY <1>4, <2>3 DEF Limited, Deny
  <2>5. Levels' = [Levels EXCEPT ![c] = Refilled(c)]
    BY <2>1, <2>2, <2>4, LevelsAfterLook
  <2>6. Levels' = Levels
    BY <2>3, <2>5
  <2>7. Eager!Refuse(c)
    BY <2>1, <2>3, <2>6 DEF Eager!Refuse
  <2> QED
    BY <2>1, <2>7 DEF Eager!Next
<1> QED
  BY <1>1, <1>2, <1>3, <1>4 DEF NextGate, handleUpdate

\* limiter.go: looking at a bucket only when a call comes, and never ageing it
\* past a minute, cannot be told from filling every bucket at every tick.
THEOREM LimiterIsATokenBucket ==
  ASSUME AllowanceOfOne PROVE SpecGate => IsATokenBucket
<1>1. InitGate => Eager!Init
  BY DEF InitGate, Eager!Init, Level
<1>2. BucketsInv /\ [NextGate]_gateVars => [Eager!Next]_<<Levels, AbsVerdict>>
  <2>1. ASSUME UNCHANGED gateVars PROVE UNCHANGED <<Levels, AbsVerdict>>
    BY <2>1 DEF gateVars, bucket, Levels, AbsVerdict, Level, Refilled, Burst
  <2> QED
    BY <2>1, StepIsABucketStep
<1> QED
  BY <1>1, <1>2, InitBuckets, BucketsInvariance, PTL
  DEF SpecGate, IsATokenBucket, Eager!Spec, Levels, AbsVerdict

----------------------------------------------------------------------------
(* The bound on a minute. *)

GrantedType == granted \in [Senders -> [0 .. Minute - 1 -> Nat]]

\* What was granted in a stretch and what is left now flowed in during the
\* stretch or was there before it.
WindowInv == \A c \in Operators : \A n \in 0 .. Minute - 1 :
               granted[c][n] * Cost + Level(c) <= Burst + n * Rate

LEMMA InitWindow == InitGate => GrantedType /\ WindowInv
<1> SUFFICES ASSUME InitGate PROVE GrantedType /\ WindowInv
  OBVIOUS
<1>1. GrantedType
  BY DEF InitGate, GrantedType
<1>2. ASSUME NEW c \in Operators, NEW n \in 0 .. Minute - 1
      PROVE  granted[c][n] * Cost + Level(c) <= Burst + n * Rate
  <2>1. granted[c][n] = 0 /\ Level(c) = Burst
    BY LimiterAssumption DEF InitGate, Level
  <2>2. n * Rate \in Nat /\ 0 * Cost = 0
    BY LimiterAssumption
  <2> QED
    BY <2>1, <2>2, BurstType
<1> QED
  BY <1>1, <1>2 DEF WindowInv

LEMMA WindowInvariance ==
  ASSUME AllowanceOfOne
  PROVE  BucketsInv /\ GrantedType /\ WindowInv /\ [NextGate]_gateVars
           => GrantedType' /\ WindowInv'
<1> SUFFICES ASSUME BucketsInv, GrantedType, WindowInv, [NextGate]_gateVars
             PROVE  GrantedType' /\ WindowInv'
  OBVIOUS
<1> DEFINE Within(g, l, n) == g * Cost + l <= Burst + n * Rate
<1>0. /\ Operators \subseteq Senders /\ Minute \in Nat \ {0}
      /\ Cost \in Nat /\ Rate \in Nat /\ Burst \in Nat
  BY LimiterAssumption, BurstType
<1>a. \A c \in Operators : Level(c) \in 0 .. Burst
  BY <1>0, RefilledType DEF Level
<1>b. \A c \in Operators, n \in 0 .. Minute - 1 :
        granted[c][n] \in Nat /\ Within(granted[c][n], Level(c), n)
  BY <1>0 DEF GrantedType, WindowInv
<1>1. ASSUME UNCHANGED <<bucket, granted>> PROVE GrantedType' /\ WindowInv'
  BY <1>1 DEF bucket, GrantedType, WindowInv, Level, Refilled, Burst
<1>2. CASE Clock
  <2>1. GrantedType'
    BY <1>0, <1>2 DEF Clock, GrantedType
  <2>2. ASSUME NEW c \in Operators, NEW n \in 0 .. Minute - 1
        PROVE  Within(granted[c][n], Level(c), n)'
    <3>1. Level(c)' = Eager!Fill(Level(c))
      BY <1>2, LevelsAfterTick DEF Levels
    <3>2. Level(c)' <= Burst /\ Level(c)' <= Level(c) + Rate /\ Level(c)' \in Nat
      BY <3>1, <1>0, <1>a DEF Eager!Fill
    <3>3. granted'[c][n] = IF n = 0 THEN 0 ELSE granted[c][n - 1]
      BY <1>0, <1>2 DEF Clock
    <3>4. CASE n = 0
      <4>1. granted'[c][n] * Cost = 0 /\ n * Rate = 0
        BY <3>3, <3>4, <1>0
      <4> QED
        BY <4>1, <3>2, <1>0
    <3>5. CASE n # 0
      <4>1. n - 1 \in 0 .. Minute - 1 /\ n * Rate = (n - 1) * Rate + Rate
            /\ (n - 1) * Rate \in Nat
        BY <3>5, <1>0
      <4>2. /\ granted[c][n - 1] \in Nat
            /\ granted[c][n - 1] * Cost + Level(c) <= Burst + (n - 1) * Rate
        BY <4>1, <1>b
      <4>3. granted[c][n - 1] * Cost \in Nat
        BY <4>2, <1>0
      <4> QED
        BY <3>2, <3>3, <3>5, <4>1, <4>2, <4>3, <1>0, <1>a
    <3> QED
      BY <3>4, <3>5
  <2> QED
    BY <2>1, <2>2 DEF WindowInv
<1>3. ASSUME NEW d \in Senders, Handled(d) PROVE GrantedType' /\ WindowInv'
  <2>1. d \in Operators /\ Refilled(d) \in 0 .. Burst /\ Cost <= Burst
    BY <1>0, <1>3, RefilledType DEF Handled, AllowanceOfOne
  <2>2. granted' = [granted EXCEPT ![d] = [n \in DOMAIN @ |-> @[n] + 1]]
    BY <1>3 DEF Handled
  <2>3. GrantedType'
    <3>1. /\ granted[d] \in [0 .. Minute - 1 -> Nat]
          /\ DOMAIN granted[d] = 0 .. Minute - 1
      BY DEF GrantedType
    <3>2. \A n \in 0 .. Minute - 1 : granted[d][n] + 1 \in Nat
      BY <1>0, <3>1
    <3>3. [n \in DOMAIN granted[d] |-> granted[d][n] + 1] \in [0 .. Minute - 1 -> Nat]
      BY <3>1, <3>2, Zenon
    <3> QED
      BY <2>2, <3>3 DEF GrantedType
  <2>4. Levels[d] >= Cost /\ Looked(d, Levels[d] - Cost) /\ known' = known \cup {d}
    BY <1>0, <1>3, <2>1 DEF Handled, AllowFirst, AllowMore, Levels, Level
  <2>5. Levels[d] - Cost \in 0 .. Burst
    BY <1>0, <1>a, <2>1, <2>4 DEF Levels
  <2>6. Levels' = [Levels EXCEPT ![d] = Levels[d] - Cost]
    BY <2>1, <2>4, <2>5, LevelsAfterLook
  <2>7. ASSUME NEW c \in Operators, NEW n \in 0 .. Minute - 1
        PROVE  Within(granted[c][n], Level(c), n)'
    <3>1. Level(c)' = IF c = d THEN Level(c) - Cost ELSE Level(c)
      BY <2>6 DEF Levels
    <3>2. granted'[c][n] = IF c = d THEN granted[c][n] + 1 ELSE granted[c][n]
      BY <1>0, <2>1, <2>2 DEF GrantedType
    <3>3. /\ (granted[c][n] + 1) * Cost = granted[c][n] * Cost + Cost
          /\ granted[c][n] * Cost \in Nat /\ n * Rate \in Nat
      BY <1>0, <1>b
    <3>4. Level(c) \in 0 .. Burst
          /\ granted[c][n] * Cost + Level(c) <= Burst + n * Rate
      BY <1>a, <1>b
    <3>5. granted'[c][n] * Cost + Level(c)' <= Burst + n * Rate
      BY <3>1, <3>2, <3>3, <3>4, <1>0
    <3> QED
      BY <3>5 DEF Burst
  <2> QED
    BY <2>3, <2>7 DEF WindowInv
<1>4. ASSUME NEW d \in Senders, Limited(d) PROVE GrantedType' /\ WindowInv'
  <2>1. d \in Operators /\ Refilled(d) \in 0 .. Burst /\ granted' = granted
    BY <1>0, <1>4, RefilledType DEF Limited
  <2>2. Levels[d] = Refilled(d) /\ Looked(d, Levels[d]) /\ known' = known \cup {d}
    BY <1>4, <2>1 DEF Limited, Deny, Levels, Level
  <2>3. Levels' = Levels
    BY <2>1, <2>2, LevelsAfterLook DEF Levels
  <2>4. \A c \in Operators : Level(c)' = Level(c)
    BY <2>3 DEF Levels
  <2> QED
    BY <2>1, <2>4 DEF GrantedType, WindowInv, Burst
<1>5. ASSUME NEW d \in Senders, Stranger(d) PROVE GrantedType' /\ WindowInv'
  BY <1>1, <1>5 DEF Stranger
<1>6. CASE UNCHANGED gateVars
  BY <1>1, <1>6 DEF gateVars
<1> QED
  BY <1>2, <1>3, <1>4, <1>5, <1>6 DEF NextGate, handleUpdate

\* limiter.go:25-26: whatever the order of calls and pauses, no operator gets
\* more calls through in a minute than a full bucket and its refill pay for.
THEOREM NoMinuteIsOverdrawn ==
  ASSUME AllowanceOfOne PROVE SpecGate => []MinuteIsBounded
<1>1. BucketsInv /\ GrantedType /\ WindowInv => MinuteIsBounded
  <2> SUFFICES ASSUME BucketsInv, GrantedType, WindowInv,
                      NEW c \in Operators, NEW n \in 0 .. Minute - 1
               PROVE  granted[c][n] * Cost <= Burst + n * Rate
    BY DEF MinuteIsBounded
  <2>1. /\ c \in Senders /\ Cost \in Nat /\ Rate \in Nat /\ Burst \in Nat
        /\ n \in Nat
    BY LimiterAssumption, BurstType
  <2>2. Level(c) \in 0 .. Burst
    BY <2>1, RefilledType DEF Level
  <2>3. granted[c][n] \in Nat
    BY <2>1 DEF GrantedType
  <2>4. granted[c][n] * Cost \in Nat /\ n * Rate \in Nat
    BY <2>1, <2>3
  <2> QED
    BY <2>1, <2>2, <2>4 DEF WindowInv
<1> QED
  BY <1>1, InitBuckets, BucketsInvariance, InitWindow, WindowInvariance, PTL DEF SpecGate

\* Types; the buckets are never overdrawn.
THEOREM GateTypeCorrect ==
  ASSUME AllowanceOfOne PROVE SpecGate => []GateTypeOK
<1> DEFINE VerdictType == verdict \in {<<>>} \cup
                            (Senders \X {"stranger", "granted", "refused"})
<1>1. BucketsInv /\ GrantedType /\ VerdictType => GateTypeOK
  BY LimiterAssumption DEF BucketsInv, GrantedType, GateTypeOK
<1>2. InitGate => VerdictType
  BY DEF InitGate
<1>3. VerdictType /\ [NextGate]_gateVars => VerdictType'
  <2>1. ASSUME NEW c \in Senders, handleUpdate(c)
        PROVE  \E how \in {"stranger", "granted", "refused"} : verdict' = <<c, how>>
    BY <2>1, Zenon DEF handleUpdate, Stranger, Handled, Limited
  <2> QED
    BY <2>1 DEF NextGate, gateVars, Clock
<1> QED
  BY <1>1, <1>2, <1>3, InitBuckets, BucketsInvariance, InitWindow, WindowInvariance, PTL
  DEF SpecGate

----------------------------------------------------------------------------
(* Broadcaster. *)


\* The message's turn in the fan-outs is over, when the fan-out of alert a has
\* come to chat n.
Over(m, a, n) == m[2] < a \/ (m[2] = a /\ (n = 0 \/ m[1] < n))
Past(m) == Over(m, alert, next)

\* What the worker holds is held while it sends.
HandInv == (worker = "sends" /\ hand \in Message) \/ (worker # "sends" /\ hand = Nothing)

\* For each chat the alerts shown, in the hand and in the channel come in the
\* order they were raised, before those still to be raised.
Queued == \A i \in DOMAIN msgs :
            /\ Past(msgs[i])
            /\ msgs[i][1] = hand[1] => hand[2] < msgs[i][2]
            /\ \A j \in DOMAIN msgs : i < j /\ msgs[i][1] = msgs[j][1] => msgs[i][2] < msgs[j][2]
Seen   == \A c \in chatIDs : \A i \in DOMAIN shown[c] :
            /\ Past(<<c, shown[c][i]>>)
            /\ hand[1] = c => shown[c][i] < hand[2]
            /\ \A j \in DOMAIN msgs : msgs[j][1] = c => shown[c][i] < msgs[j][2]
InTurn == Queued /\ Seen /\ (hand # Nothing => Past(hand))

\* While a fan-out is under way there is an alert.
Raised == next # 0 => alert # 0

BroadcasterInv == TypeOK /\ HandInv /\ Raised /\ InTurn /\ ShownInOrder /\ NothingVanishes

LEMMA Sizes ==
  /\ Chats \in Nat \ {0} /\ Alerts \in Nat /\ BufSize \in Nat \ {0}
  /\ 0 \in 0 .. Alerts /\ 0 \in 0 .. Chats
  BY QueueAssumption

LEMMA MessageFacts ==
  /\ \A m \in Message : m[1] \in chatIDs /\ m[2] \in 1 .. Alerts /\ m # Nothing
  /\ \A c \in chatIDs, a \in 1 .. Alerts : <<c, a>> \in Message
  /\ Nothing[1] = 0 /\ Nothing[2] = 0
  /\ Chats \in Nat \ {0} /\ Alerts \in Nat /\ BufSize \in Nat \ {0} /\ chatIDs = 1 .. Chats
<1>1. /\ \A m \in Message : m[1] \in chatIDs /\ m[2] \in 1 .. Alerts
      /\ \A c \in chatIDs, a \in 1 .. Alerts : <<c, a>> \in Message
  BY DEF Message
<1>2. Nothing[1] = 0 /\ Nothing[2] = 0
  BY DEF Nothing
<1>3. Chats \in Nat \ {0} /\ Alerts \in Nat /\ BufSize \in Nat \ {0} /\ chatIDs = 1 .. Chats
  BY QueueAssumption DEF chatIDs
<1>4. \A m \in Message : m # Nothing
  BY <1>1, <1>2, <1>3
<1> QED
  BY <1>1, <1>2, <1>3, <1>4

LEMMA InitBroadcaster == Init => BroadcasterInv
<1> SUFFICES ASSUME Init PROVE BroadcasterInv
  OBVIOUS
<1>1. TypeOK
  <2>1. msgs \in Seq(Message) /\ Len(msgs) = 0
    BY DEF Init
  <2>2. shown \in [chatIDs -> Seq(1 .. Alerts)]
    BY DEF Init
  <2>3. fate \in [Message -> {"unsent", "queued", "shown", "failed", "dropped"}]
    BY DEF Init
  <2>4. Len(msgs) <= BufSize
    BY <2>1, Sizes
  <2>5. alert \in 0 .. Alerts /\ next \in 0 .. Chats
    BY Sizes DEF Init
  <2>6. worker \in {"waits", "sends", "stopped"} /\ hand \in Message \cup {Nothing}
        /\ cancelled \in BOOLEAN
    BY DEF Init
  <2> QED
    BY <2>1, <2>2, <2>3, <2>4, <2>5, <2>6 DEF TypeOK
<1>2. HandInv /\ Raised /\ InTurn /\ ShownInOrder
  BY DEF Init, HandInv, Raised, InTurn, Queued, Seen, ShownInOrder, Nothing
<1>3. NothingVanishes
  BY MessageFacts DEF Init, NothingVanishes
<1> QED
  BY <1>1, <1>2, <1>3 DEF BroadcasterInv

LEMMA AMessage == ASSUME NEW c \in chatIDs, NEW a \in 1 .. Alerts PROVE <<c, a>> \in Message
  BY DEF Message

LEMMA TypeInvariance ==
  ASSUME TypeOK, HandInv, Raised, [Next]_vars PROVE TypeOK' /\ HandInv' /\ Raised'
<1> USE MessageFacts
<1>1. CASE Broadcast
  BY <1>1 DEF TypeOK, HandInv, Raised, Broadcast
<1>2. CASE Enqueue
  <2>1. <<next, alert>> \in Message
    <3>1. next \in 1 .. Chats
      BY <1>2 DEF Enqueue, TypeOK
    <3>2. alert \in 1 .. Alerts
      BY <1>2 DEF Enqueue, TypeOK, Raised
    <3>3. next \in chatIDs
      BY <3>1 DEF chatIDs
    <3> QED
      BY <3>2, <3>3, AMessage
  <2>2. msgs' \in Seq(Message) /\ Len(msgs') <= BufSize
    <3>1. msgs \in Seq(Message) /\ Len(msgs) \in Nat /\ Len(msgs) <= BufSize
      BY DEF TypeOK
    <3>2. CASE Len(msgs) < BufSize
      <4>1. msgs' = Append(msgs, <<next, alert>>)
        BY <1>2, <3>2 DEF Enqueue
      <4>2. Append(msgs, <<next, alert>>) \in Seq(Message)
        BY <2>1, <3>1
      <4>3. Len(msgs') = Len(msgs) + 1
        BY <3>1, <4>1
      <4> QED
        BY <3>1, <3>2, <4>1, <4>2, <4>3
    <3>3. CASE ~(Len(msgs) < BufSize)
      BY <1>2, <3>1, <3>3 DEF Enqueue
    <3> QED
      BY <3>2, <3>3
  <2>3. fate' \in [Message -> {"unsent", "queued", "shown", "failed", "dropped"}]
    BY <1>2, <2>1 DEF Enqueue, TypeOK, Becomes
  <2>4. next' \in 0 .. Chats
    BY <1>2 DEF Enqueue, TypeOK, Following
  <2> QED
    BY <1>2, <2>2, <2>3, <2>4 DEF TypeOK, HandInv, Raised, Enqueue
<1>3. CASE Takes
  <2>1. /\ Head(msgs) \in Message /\ Tail(msgs) \in Seq(Message)
        /\ Len(Tail(msgs)) <= BufSize
    BY <1>3 DEF TypeOK, Takes
  <2> QED
    BY <1>3, <2>1 DEF TypeOK, HandInv, Raised, Takes
<1>4. CASE Send
  <2>1. hand \in Message /\ hand[1] \in chatIDs /\ hand[2] \in 1 .. Alerts
    BY <1>4 DEF HandInv, Send, Sent, SendFails
  <2>2. shown' \in [chatIDs -> Seq(1 .. Alerts)]
    <3>1. Append(shown[hand[1]], hand[2]) \in Seq(1 .. Alerts)
      BY <2>1 DEF TypeOK
    <3> QED
      BY <1>4, <3>1 DEF TypeOK, Send, Sent, SendFails
  <2>3. fate' \in [Message -> {"unsent", "queued", "shown", "failed", "dropped"}]
    BY <1>4 DEF TypeOK, Send, Sent, SendFails, Becomes
  <2> QED
    BY <1>4, <2>2, <2>3 DEF TypeOK, HandInv, Raised, Send, Sent, SendFails
<1>5. CASE Stops \/ Shutdown
  BY <1>5 DEF TypeOK, HandInv, Raised, Stops, Shutdown
<1>6. CASE UNCHANGED vars
  BY <1>6 DEF TypeOK, HandInv, Raised, vars
<1> QED
  BY <1>1, <1>2, <1>3, <1>4, <1>5, <1>6 DEF Next, Run

\* Every variable keeps to its type, and the channel to its capacity.
THEOREM BroadcasterTypeCorrect == Spec => []TypeOK
<1> DEFINE Inv == TypeOK /\ HandInv /\ Raised
<1>1. Init => Inv
  BY InitBroadcaster DEF BroadcasterInv
<1>2. Inv /\ [Next]_vars => Inv'
  BY TypeInvariance
<1> QED
  BY <1>1, <1>2, PTL DEF Spec

----------------------------------------------------------------------------
(* Order. *)

\* What a sequence, such as the alerts shown in a chat, is indexed by and holds.
LEMMA Members ==
  ASSUME NEW S, NEW s \in Seq(S)
  PROVE  DOMAIN s = 1 .. Len(s) /\ Len(s) \in Nat /\ \A i \in DOMAIN s : s[i] \in S
  OBVIOUS

\* What the channel holds after the monitor has put one message into it, and
\* after the worker has taken one.
LEMMA AfterAppend ==
  ASSUME NEW S, NEW s \in Seq(S), NEW e
  PROVE  /\ DOMAIN Append(s, e) = 1 .. Len(s) + 1 /\ DOMAIN s = 1 .. Len(s)
         /\ \A i \in 1 .. Len(s) : Append(s, e)[i] = s[i]
         /\ Append(s, e)[Len(s) + 1] = e
  OBVIOUS

LEMMA AfterTake ==
  ASSUME NEW S, NEW s \in Seq(S), s # <<>>
  PROVE  /\ Head(s) = s[1] /\ 1 \in DOMAIN s /\ DOMAIN s = 1 .. Len(s)
         /\ \A i \in DOMAIN Tail(s) : i \in Nat \ {0} /\ i + 1 \in DOMAIN s /\ Tail(s)[i] = s[i + 1]
         /\ \A i \in DOMAIN s : i # 1 => i - 1 \in DOMAIN Tail(s) /\ Tail(s)[i - 1] = s[i]
  OBVIOUS

LEMMA OrderInvariance ==
  ASSUME TypeOK, HandInv, Raised, InTurn, ShownInOrder, [Next]_vars
  PROVE  InTurn' /\ ShownInOrder'
<1>1. /\ alert \in Nat /\ next \in 0 .. Chats /\ Chats \in Nat \ {0}
      /\ msgs \in Seq(Message) /\ DOMAIN msgs = 1 .. Len(msgs) /\ Len(msgs) \in Nat
      /\ \A i \in DOMAIN msgs : msgs[i] \in Message
      /\ \A m \in Message : m[1] \in 1 .. Chats /\ m[2] \in Nat
      /\ shown \in [chatIDs -> Seq(1 .. Alerts)] /\ chatIDs = 1 .. Chats
      /\ \A c \in chatIDs : /\ shown[c] \in Seq(1 .. Alerts) /\ DOMAIN shown[c] = 1 .. Len(shown[c])
                            /\ Len(shown[c]) \in Nat
                            /\ \A i \in DOMAIN shown[c] : shown[c][i] \in Nat
  <2>1. /\ alert \in Nat /\ next \in 0 .. Chats /\ Chats \in Nat \ {0}
        /\ msgs \in Seq(Message)
        /\ shown \in [chatIDs -> Seq(1 .. Alerts)] /\ chatIDs = 1 .. Chats
    BY MessageFacts DEF TypeOK
  <2>2. \A m \in Message : m[1] \in 1 .. Chats /\ m[2] \in Nat
    BY MessageFacts
  <2>3. /\ DOMAIN msgs = 1 .. Len(msgs) /\ Len(msgs) \in Nat
        /\ \A i \in DOMAIN msgs : msgs[i] \in Message
    BY <2>1
  <2>4. ASSUME NEW c \in chatIDs
        PROVE  /\ shown[c] \in Seq(1 .. Alerts) /\ DOMAIN shown[c] = 1 .. Len(shown[c])
               /\ Len(shown[c]) \in Nat
               /\ \A i \in DOMAIN shown[c] : shown[c][i] \in Nat
    <3>1. shown[c] \in Seq(1 .. Alerts)
      BY <2>1
    <3>2. /\ DOMAIN shown[c] = 1 .. Len(shown[c]) /\ Len(shown[c]) \in Nat
          /\ \A i \in DOMAIN shown[c] : shown[c][i] \in 1 .. Alerts
      BY <3>1, Members, Zenon
    <3> QED
      BY <3>1, <3>2
  <2> QED
    BY <2>1, <2>2, <2>3, <2>4
<1>2. CASE Broadcast
  <2>1. \A m : Past(m) /\ m[2] \in Nat => Past(m)'
    BY <1>1, <1>2 DEF Broadcast, Past, Over
  <2>2. UNCHANGED <<msgs, hand, shown>>
    BY <1>2 DEF Broadcast
  <2>3. Queued'
    BY <1>1, <2>1, <2>2 DEF InTurn, Queued
  <2>4. Seen'
    BY <1>1, <2>1, <2>2 DEF InTurn, Seen
  <2>5. (hand # Nothing => Past(hand))'
    BY <1>1, <2>1, <2>2 DEF InTurn, HandInv
  <2> QED
    BY <2>2, <2>3, <2>4, <2>5 DEF InTurn, ShownInOrder
<1>3. CASE Enqueue
  <2>1. \A m : Past(m) /\ m[1] \in 1 .. Chats /\ m[2] \in Nat => Over(m, alert', next')
    BY <1>1, <1>3 DEF Enqueue, Past, Over, Following
  <2>2. UNCHANGED <<hand, shown, alert>> /\ next # 0
    BY <1>3 DEF Enqueue
  <2>3. \A m : Past(m) /\ m[1] = next /\ m[2] \in Nat => m[2] < alert
    BY <1>1, <2>2 DEF Past, Over
  <2>4. Over(<<next, alert>>, alert', next')
    BY <1>1, <1>3 DEF Enqueue, Past, Over, Following
  <2>5. \A i \in DOMAIN msgs' :
          \/ i \in DOMAIN msgs /\ msgs'[i] = msgs[i]
          \/ i = Len(msgs) + 1 /\ msgs'[i] = <<next, alert>>
    <3>1. CASE Len(msgs) < BufSize
      <4>1. msgs' = Append(msgs, <<next, alert>>)
        BY <1>3, <3>1 DEF Enqueue
      <4>2. /\ DOMAIN msgs' = 1 .. Len(msgs) + 1
            /\ \A i \in 1 .. Len(msgs) : msgs'[i] = msgs[i]
            /\ msgs'[Len(msgs) + 1] = <<next, alert>>
        BY <1>1, <4>1, AfterAppend
      <4> QED
        BY <1>1, <4>2
    <3>2. CASE ~(Len(msgs) < BufSize)
      BY <1>3, <3>2 DEF Enqueue
    <3> QED
      BY <3>1, <3>2
  <2>6. \A i \in DOMAIN msgs' : /\ Over(msgs'[i], alert', next')
                                /\ msgs'[i][1] = hand[1] => hand[2] < msgs'[i][2]
    <3> TAKE i \in DOMAIN msgs'
    <3>1. CASE i \in DOMAIN msgs /\ msgs'[i] = msgs[i]
      BY <1>1, <2>1, <3>1 DEF InTurn, Queued, Past
    <3>2. CASE msgs'[i] = <<next, alert>>
      <4>1. hand[1] = next => hand # Nothing /\ hand \in Message
        BY <2>2, MessageFacts DEF HandInv
      <4>2. hand[1] = next => hand[2] < alert
        BY <1>1, <2>3, <4>1 DEF InTurn
      <4> QED
        BY <2>4, <3>2, <4>2
    <3> QED
      BY <2>5, <3>1, <3>2
  <2>7. \A i, j \in DOMAIN msgs' :
          i < j /\ msgs'[i][1] = msgs'[j][1] => msgs'[i][2] < msgs'[j][2]
    <3> TAKE i, j \in DOMAIN msgs'
    <3>1. CASE i \in DOMAIN msgs /\ msgs'[i] = msgs[i] /\ j \in DOMAIN msgs /\ msgs'[j] = msgs[j]
      BY <3>1 DEF InTurn, Queued
    <3>2. CASE i \in DOMAIN msgs /\ msgs'[i] = msgs[i] /\ msgs'[j] = <<next, alert>>
      BY <1>1, <2>3, <3>2 DEF InTurn, Queued
    <3>3. CASE i = Len(msgs) + 1
      <4>1. ~(i < j)
        BY <1>1, <2>5, <3>3
      <4> QED
        BY <4>1
    <3> QED
      BY <2>5, <3>1, <3>2, <3>3
  <2>8. Queued'
    BY <2>2, <2>6, <2>7 DEF Queued, Past
  <2>9. ASSUME NEW c \in chatIDs, NEW i \in DOMAIN shown[c]
        PROVE  /\ Over(<<c, shown[c][i]>>, alert', next') /\ (hand[1] = c => shown[c][i] < hand[2])
               /\ \A j \in DOMAIN msgs' : msgs'[j][1] = c => shown[c][i] < msgs'[j][2]
    <3>1. Past(<<c, shown[c][i]>>) /\ (hand[1] = c => shown[c][i] < hand[2])
      BY <2>9 DEF InTurn, Seen
    <3>2. Over(<<c, shown[c][i]>>, alert', next')
      BY <1>1, <2>1, <2>2, <2>9, <3>1
    <3>3. ASSUME NEW j \in DOMAIN msgs', msgs'[j][1] = c PROVE shown[c][i] < msgs'[j][2]
      <4>1. CASE j \in DOMAIN msgs /\ msgs'[j] = msgs[j]
        BY <2>9, <3>3, <4>1 DEF InTurn, Seen
      <4>2. CASE msgs'[j] = <<next, alert>>
        <5>1. c = next /\ shown[c][i] \in Nat
          BY <1>1, <2>9, <3>3, <4>2
        <5>2. shown[c][i] < alert
          BY <1>1, <2>2, <3>1, <5>1 DEF Past, Over
        <5> QED
          BY <4>2, <5>2
      <4> QED
        BY <2>5, <4>1, <4>2
    <3> QED
      BY <3>1, <3>2, <3>3
  <2>10. Seen'
    BY <2>2, <2>9 DEF Seen, Past
  <2>11. (hand # Nothing => Past(hand))'
    BY <1>1, <2>1, <2>2 DEF InTurn, HandInv, Past
  <2> QED
    BY <2>2, <2>8, <2>10, <2>11 DEF InTurn, ShownInOrder
<1>4. CASE Takes
  <2>1. /\ msgs # <<>> /\ hand = Nothing /\ hand' = Head(msgs) /\ msgs' = Tail(msgs)
        /\ UNCHANGED <<alert, next, shown>>
    BY <1>4 DEF Takes, HandInv
  <2>2. /\ hand' = msgs[1] /\ 1 \in DOMAIN msgs
        /\ \A i \in DOMAIN msgs' : i \in Nat \ {0} /\ i + 1 \in DOMAIN msgs /\ msgs'[i] = msgs[i + 1]
    BY <1>1, <2>1, AfterTake
  <2>3. \A m : Past(m)' <=> Past(m)
    BY <2>1 DEF Past
  <2>4. Queued'
    <3>1. ASSUME NEW i \in DOMAIN msgs'
          PROVE  /\ Over(msgs'[i], alert', next')
                 /\ msgs'[i][1] = hand'[1] => hand'[2] < msgs'[i][2]
      <4>1. i + 1 \in DOMAIN msgs /\ 1 < i + 1 /\ msgs'[i] = msgs[i + 1]
        BY <2>2, <3>1
      <4> QED
        BY <2>1, <2>2, <4>1 DEF InTurn, Queued, Past
    <3>2. ASSUME NEW i \in DOMAIN msgs', NEW j \in DOMAIN msgs',
                 i < j, msgs'[i][1] = msgs'[j][1]
          PROVE  msgs'[i][2] < msgs'[j][2]
      <4>1. /\ i + 1 \in DOMAIN msgs /\ msgs'[i] = msgs[i + 1]
            /\ j + 1 \in DOMAIN msgs /\ msgs'[j] = msgs[j + 1] /\ i + 1 < j + 1
        BY <2>2, <3>2
      <4> QED
        BY <3>2, <4>1 DEF InTurn, Queued
    <3> QED
      BY <3>1, <3>2 DEF Queued, Past
  <2>5. Seen'
    <3> SUFFICES ASSUME NEW c \in chatIDs, NEW i \in DOMAIN shown[c]
                 PROVE  /\ Past(<<c, shown[c][i]>>)'
                        /\ hand'[1] = c => shown[c][i] < hand'[2]
                        /\ \A j \in DOMAIN msgs' : msgs'[j][1] = c => shown[c][i] < msgs'[j][2]
      BY <2>1 DEF Seen
    <3>1. /\ Past(<<c, shown[c][i]>>)
          /\ \A j \in DOMAIN msgs : msgs[j][1] = c => shown[c][i] < msgs[j][2]
      BY DEF InTurn, Seen
    <3>2. Past(<<c, shown[c][i]>>)'
      BY <2>1, <3>1 DEF Past
    <3>3. \A j \in DOMAIN msgs' : msgs'[j][1] = c => shown[c][i] < msgs'[j][2]
      BY <2>2, <3>1
    <3> QED
      BY <2>2, <3>1, <3>2, <3>3
  <2>6. Past(hand)'
    BY <2>2, <2>3 DEF InTurn, Queued
  <2> QED
    BY <2>1, <2>4, <2>5, <2>6 DEF InTurn, ShownInOrder
<1>5. CASE Send
  <2>1. /\ hand \in Message /\ hand[1] \in chatIDs /\ hand' = Nothing /\ Past(hand)
        /\ hand[2] \in Nat /\ hand # Nothing
        /\ UNCHANGED <<msgs, alert, next>>
    BY <1>1, <1>5, MessageFacts DEF Send, Sent, SendFails, HandInv, InTurn
  <2>2. \/ shown' = shown
        \/ shown' = [shown EXCEPT ![hand[1]] = Append(@, hand[2])]
    BY <1>5 DEF Send, Sent, SendFails
  <2>3. \A m : Past(m)' <=> Past(m)
    BY <2>1 DEF Past
  <2>4. hand'[1] = 0 /\ \A c \in chatIDs : c # 0
    BY <1>1, <2>1, MessageFacts
  <2>5. ASSUME NEW c \in chatIDs, NEW i \in DOMAIN shown'[c]
        PROVE  \/ i \in DOMAIN shown[c] /\ shown'[c][i] = shown[c][i]
               \/ c = hand[1] /\ i = Len(shown[c]) + 1 /\ shown'[c][i] = hand[2]
    <3>1. CASE shown'[c] = shown[c]
      BY <2>5, <3>1
    <3>2. CASE c = hand[1] /\ shown'[c] = Append(shown[c], hand[2])
      BY <1>1, <2>5, <3>2, AfterAppend
    <3> QED
      BY <1>1, <2>1, <2>2, <3>1, <3>2
  <2>6. Queued'
    BY <1>1, <2>1, <2>3, <2>4 DEF InTurn, Queued
  <2>7. ASSUME NEW c \in chatIDs, NEW i \in DOMAIN shown'[c]
        PROVE  /\ Past(<<c, shown'[c][i]>>)
               /\ \A j \in DOMAIN msgs : msgs[j][1] = c => shown'[c][i] < msgs[j][2]
    <3>1. CASE i \in DOMAIN shown[c] /\ shown'[c][i] = shown[c][i]
      BY <3>1 DEF InTurn, Seen
    <3>2. CASE c = hand[1] /\ shown'[c][i] = hand[2]
      BY <2>1, <3>2 DEF InTurn, Queued, Past, Over
    <3> QED
      BY <2>5, <2>7, <3>1, <3>2
  <2>8. Seen'
    BY <2>1, <2>3, <2>4, <2>7 DEF Seen
  <2>9. ShownInOrder'
    <3> SUFFICES ASSUME NEW c \in chatIDs, NEW i \in DOMAIN shown'[c], NEW j \in DOMAIN shown'[c],
                        i < j
                 PROVE  shown'[c][i] < shown'[c][j]
      BY DEF ShownInOrder
    <3>1. CASE j \in DOMAIN shown[c] /\ shown'[c][j] = shown[c][j]
      <4>1. i \in DOMAIN shown[c] /\ shown'[c][i] = shown[c][i]
        BY <1>1, <2>5, <3>1
      <4> QED
        BY <3>1, <4>1 DEF ShownInOrder
    <3>2. CASE c = hand[1] /\ j = Len(shown[c]) + 1 /\ shown'[c][j] = hand[2]
      <4>1. i \in DOMAIN shown[c] /\ shown'[c][i] = shown[c][i]
        <5>1. i # Len(shown[c]) + 1
          BY <1>1, <3>2
        <5> QED
          BY <2>5, <5>1
      <4> QED
        BY <3>2, <4>1 DEF InTurn, Seen
    <3> QED
      BY <2>5, <3>1, <3>2
  <2> QED
    BY <2>1, <2>6, <2>8, <2>9 DEF InTurn
<1>6. CASE Stops \/ Shutdown \/ UNCHANGED vars
  <2>1. UNCHANGED <<msgs, hand, shown, alert, next>>
    BY <1>6 DEF Stops, Shutdown, vars
  <2> QED
    BY <2>1 DEF InTurn, Queued, Seen, Past, ShownInOrder
<1> QED
  BY <1>2, <1>3, <1>4, <1>5, <1>6 DEF Next, Run

----------------------------------------------------------------------------
(* Nothing vanishes. *)

Here(m) == hand = m \/ \E i \in DOMAIN msgs : msgs[i] = m

LEMMA KeptInvariance ==
  ASSUME BroadcasterInv, [Next]_vars PROVE NothingVanishes'
<1>1. /\ TypeOK /\ HandInv /\ Raised /\ InTurn
      /\ \A m \in Message : fate[m] = "queued" <=> Here(m)
  BY DEF BroadcasterInv, NothingVanishes, Here
<1>2. /\ msgs \in Seq(Message) /\ DOMAIN msgs = 1 .. Len(msgs) /\ Len(msgs) \in Nat
      /\ \A i \in DOMAIN msgs : msgs[i] \in Message
      /\ fate \in [Message -> {"unsent", "queued", "shown", "failed", "dropped"}]
      /\ \A m \in Message : m # Nothing /\ m[2] \in Nat
      /\ alert \in Nat
  BY <1>1, MessageFacts DEF TypeOK
<1>3. ASSUME \A m \in Message : fate'[m] = "queued" <=> Here(m)' PROVE NothingVanishes'
  BY <1>3 DEF NothingVanishes, Here
<1>4. CASE Enqueue
  <2> DEFINE new == <<next, alert>>
  <2>1. ~Here(new)
    <3>1. ~Past(new)
      <4>1. next # 0 /\ next \in Nat /\ new[1] = next /\ new[2] = alert
        BY <1>1, <1>4 DEF Enqueue, TypeOK
      <4> HIDE DEF new
      <4> QED
        BY <1>2, <4>1 DEF Past, Over
    <3>2. \A i \in DOMAIN msgs : msgs[i] # new
      BY <1>1, <3>1 DEF InTurn, Queued
    <3>3. hand # Nothing => hand # new
      BY <1>1, <3>1 DEF InTurn
    <3>4. new # Nothing
      BY <1>4 DEF Enqueue, Nothing
    <3> QED
      BY <3>2, <3>3, <3>4 DEF Here
  <2>2. CASE Len(msgs) < BufSize
    <3>1. msgs' = Append(msgs, new) /\ fate' = [fate EXCEPT ![new] = "queued"] /\ hand' = hand
      BY <1>4, <2>2 DEF Enqueue, Becomes
    <3>2. /\ DOMAIN msgs' = 1 .. Len(msgs) + 1
          /\ \A i \in 1 .. Len(msgs) : msgs'[i] = msgs[i]
          /\ msgs'[Len(msgs) + 1] = new
      BY <1>2, <3>1, AfterAppend
    <3>3. \A m : Here(m)' <=> Here(m) \/ m = new
      BY <1>2, <3>1, <3>2 DEF Here
    <3> QED
      BY <1>1, <1>2, <1>3, <3>1, <3>3
  <2>3. CASE ~(Len(msgs) < BufSize)
    <3>1. fate' = [fate EXCEPT ![new] = "dropped"] /\ UNCHANGED <<msgs, hand>>
      BY <1>4, <2>3 DEF Enqueue, Becomes
    <3>2. \A m : Here(m)' <=> Here(m)
      BY <3>1 DEF Here
    <3> QED
      BY <1>1, <1>2, <1>3, <2>1, <3>1, <3>2
  <2> QED
    BY <2>2, <2>3
<1>5. CASE Takes
  <2>1. /\ msgs # <<>> /\ hand = Nothing /\ hand' = Head(msgs) /\ msgs' = Tail(msgs) /\ fate' = fate
    BY <1>1, <1>5 DEF Takes, HandInv
  <2>2. /\ hand' = msgs[1] /\ 1 \in DOMAIN msgs
        /\ \A i \in DOMAIN msgs' : i + 1 \in DOMAIN msgs /\ msgs'[i] = msgs[i + 1]
        /\ \A i \in DOMAIN msgs : i # 1 => i - 1 \in DOMAIN msgs' /\ msgs'[i - 1] = msgs[i]
    BY <1>2, <2>1, AfterTake
  <2>3. \A m \in Message : Here(m)' <=> Here(m)
    <3> TAKE m \in Message
    <3>1. Here(m) => Here(m)'
      BY <1>2, <2>1, <2>2 DEF Here
    <3>2. Here(m)' => Here(m)
      BY <1>2, <2>1, <2>2 DEF Here
    <3> QED
      BY <3>1, <3>2
  <2> QED
    BY <1>1, <1>3, <2>1, <2>3
<1>6. CASE Send
  <2>1. /\ hand \in Message /\ hand' = Nothing /\ UNCHANGED msgs
        /\ fate' = [fate EXCEPT ![hand] = "shown"] \/ fate' = [fate EXCEPT ![hand] = "failed"]
    BY <1>1, <1>6 DEF Send, Sent, SendFails, HandInv, Becomes
  <2>2. \A i \in DOMAIN msgs : msgs[i] # hand
    <3> SUFFICES ASSUME NEW i \in DOMAIN msgs, msgs[i] = hand PROVE FALSE
      OBVIOUS
    <3>1. hand[2] < hand[2] /\ hand[2] \in Nat
      BY <1>1, <1>2, <2>1 DEF InTurn, Queued
    <3> QED
      BY <3>1
  <2>3. \A m \in Message : Here(m)' <=> Here(m) /\ m # hand
    BY <1>2, <2>1, <2>2 DEF Here
  <2>4. \A m \in Message : fate'[m] = "queued" <=> fate[m] = "queued" /\ m # hand
    BY <1>2, <2>1
  <2> QED
    BY <1>1, <1>3, <2>3, <2>4
<1>7. CASE Broadcast \/ Stops \/ Shutdown \/ UNCHANGED vars
  <2>1. UNCHANGED <<msgs, hand, fate>>
    BY <1>7 DEF Broadcast, Stops, Shutdown, vars
  <2> QED
    BY <1>1, <1>3, <2>1 DEF Here
<1> QED
  BY <1>4, <1>5, <1>6, <1>7 DEF Next, Run

LEMMA BroadcasterInvariance == BroadcasterInv /\ [Next]_vars => BroadcasterInv'
  BY TypeInvariance, OrderInvariance, KeptInvariance DEF BroadcasterInv

\* broadcast.go:60: no operator sees two alerts in the wrong order, or one twice,
\* whatever the channel drops and Telegram loses.
THEOREM AlertsKeepTheirOrder == Spec => []ShownInOrder
<1>1. BroadcasterInv => ShownInOrder
  BY DEF BroadcasterInv
<1> QED
  BY <1>1, InitBroadcaster, BroadcasterInvariance, PTL DEF Spec

\* broadcast.go:60: a message the monitor put into the channel is there, or in
\* the worker's hand, until it is sent or its failure is logged.
THEOREM AcceptedIsKept == Spec => []NothingVanishes
<1>1. BroadcasterInv => NothingVanishes
  BY DEF BroadcasterInv
<1> QED
  BY <1>1, InitBroadcaster, BroadcasterInvariance, PTL DEF Spec
=============================================================================
