---------------------------- MODULE AgentProofs ----------------------------
(* Proofs about Agent for any containers, suggestions, turns and attempts. *)
EXTENDS Agent, TLAPS


\* ProcessRequest dispatches calls and withRetry waits only while turns and
\* attempts are left.
LoopsInv == /\ stage = "running" => turn < MaxTurns
            /\ stage = "recording" /\ task = Question => turn < MaxTurns
            /\ stage = "acting" => task # Question
            /\ stage = "waiting" => attempt < Attempts

\* The change of the step in hand is one of those not yet recorded.
PendingInv == pending <= unrecorded
TypeInv == TypeOK /\ LoopsInv /\ PendingInv

LEMMA UpdateTypes ==
  /\ Question \in Updates /\ Buttons \subseteq Updates /\ TypedOrders \subseteq Updates
  /\ OfferedByAlerts \subseteq Buttons /\ Intents \subseteq Buttons
  /\ \A u \in Updates : u.target \in Targets
<1>1. /\ Question \in Updates /\ Buttons \subseteq Updates /\ TypedOrders \subseteq Updates
      /\ Consultations \subseteq Buttons /\ Intents \subseteq Buttons
  BY IntentsAssumption, Zenon DEF Updates, Buttons
<1>2. Question.target = Unnamed
  BY DEF Question
<1>3. \A u \in Suggestible : u.target \in Containers \cup {Unnamed}
  BY DEF Suggestible
<1>4. \A u \in TypedOrders \cup Consultations : u.target \in Containers \cup {Unnamed}
  BY DEF TypedOrders, Consultations
<1>5. OfferedByAlerts \subseteq Buttons
  BY <1>1, Zenon DEF OfferedByAlerts, Buttons, Suggestible
<1> QED
  BY <1>1, <1>2, <1>3, <1>4, <1>5, Zenon DEF Updates, Buttons, Targets

LEMMA ReplyTypes ==
  \A cs \in SeqOf(Tools, MaxCalls) : cs \in Seq(Tools)
  BY DEF SeqOf

LEMMA DoneType ==
  ASSUME TypeInv, Done
  PROVE  /\ stage' = "replying" /\ task' = task /\ turn' = 0 /\ attempt' = 0
         /\ stage' \in Stages /\ task' \in Updates \cup {Nothing}
         /\ turn' \in 0 .. MaxTurns /\ attempt' \in 0 .. Attempts
         /\ late' \in BOOLEAN /\ calls' \in Seq(Tools) /\ overtime' \in Nat
         /\ LoopsInv'
<1>1. /\ stage' = "replying" /\ task' = task /\ turn' = 0 /\ attempt' = 0
      /\ late' = FALSE /\ calls' = <<>> /\ overtime' = 0
  BY DEF Done
<1>2. stage' \in Stages /\ task' \in Updates \cup {Nothing} /\ late' \in BOOLEAN
  BY <1>1, Zenon DEF Stages, TypeInv, TypeOK
<1>3. /\ turn' \in 0 .. MaxTurns /\ attempt' \in 0 .. Attempts
      /\ calls' \in Seq(Tools) /\ overtime' \in Nat
  BY <1>1, BoundsAssumption
<1>4. LoopsInv'
  BY <1>1 DEF LoopsInv
<1> QED
  BY <1>1, <1>2, <1>3, <1>4

\* Whatever an update is, its handler starts within the types.
LEMMA HandleType ==
  ASSUME TypeInv, Handle
  PROVE  /\ stage' \in {"replying", "sending", "acting"} /\ task' = task
         /\ turn' \in 0 .. MaxTurns /\ attempt' \in 0 .. Attempts
         /\ late' \in BOOLEAN /\ calls' \in Seq(Tools) /\ overtime' \in Nat
         /\ LoopsInv'
<1>1. CASE Done
  BY <1>1, DoneType
<1>2. CASE StartRequest
  <2>1. /\ stage' = "sending" /\ task' = task /\ turn' \in {0, MaxTurns} /\ attempt' = 1
        /\ late' = FALSE /\ calls' = <<>> /\ overtime' = 0
    BY <1>2 DEF StartRequest
  <2>2. calls' \in Seq(Tools)
    BY <2>1
  <2>3. turn' \in 0 .. MaxTurns /\ attempt' \in 0 .. Attempts /\ overtime' \in Nat
    BY <2>1, BoundsAssumption
  <2>4. LoopsInv'
    BY <2>1 DEF LoopsInv
  <2>5. late' \in BOOLEAN
    BY <2>1, Zenon
  <2> QED
    BY <2>1, <2>2, <2>3, <2>4, <2>5
<1>3. CASE task # Question /\ StartOrder
  <2>1. /\ stage' = "acting" /\ task' = task /\ task' # Question
        /\ UNCHANGED <<turn, attempt, late, calls, overtime>>
    BY <1>3 DEF StartOrder, request
  <2>2. LoopsInv'
    BY <2>1 DEF LoopsInv
  <2> QED
    BY <2>1, <2>2 DEF TypeInv, TypeOK
<1> QED
  BY <1>1, <1>2, <1>3 DEF Handle, OfflineAnswer

LEMMA ChangesType ==
  ASSUME TypeInv, NEW a, Changes(a) \/ ChangesNothing
  PROVE  /\ forced' \in [Containers -> Nat] /\ unrecorded' \in Nat
         /\ unrecorded' \in {unrecorded, unrecorded + 1}
<1>1. forced \in [Containers -> Nat] /\ unrecorded \in Nat
  BY DEF TypeInv, TypeOK
<1>2. unrecorded' \in {unrecorded, unrecorded + 1}
  BY DEF Changes, ChangesNothing
<1>3. \/ UNCHANGED forced
      \/ \E c \in Containers : forced' = [forced EXCEPT ![c] = @ + 1]
  BY Zenon DEF Changes, ChangesNothing
<1> QED
  BY <1>1, <1>2, <1>3

LEMMA InitTypeInv == Init => TypeInv
<1> SUFFICES ASSUME Init PROVE TypeInv
  OBVIOUS
<1>1. /\ allowed \in BOOLEAN /\ chaosOn \in BOOLEAN /\ late \in BOOLEAN
      /\ offered \subseteq Buttons /\ stage \in Stages
      /\ task \in Updates \cup {Nothing} /\ inbox \in Updates \cup {Nothing}
  BY UpdateTypes, Zenon DEF Init, Stages
<1>2. /\ turn \in 0 .. MaxTurns /\ attempt \in 0 .. Attempts /\ calls \in Seq(Tools)
      /\ updates \in 0 .. MaxUpdates /\ crashes \in 0 .. MaxCrashes
  <2>1. turn = 0 /\ attempt = 0 /\ calls = <<>> /\ updates = 0 /\ crashes = 0
    BY DEF Init
  <2> QED
    BY <2>1, BoundsAssumption
<1>3. /\ asked \in [Targets -> Nat] /\ forced \in [Containers -> Nat]
      /\ repeated \in Nat /\ unrecorded \in Nat /\ pending \in {0, 1}
      /\ excused \in Nat /\ overtime \in Nat
  BY DEF Init
<1>4. LoopsInv
  BY DEF Init, LoopsInv
<1> QED
  BY <1>1, <1>2, <1>3, <1>4 DEF Init, TypeInv, TypeOK, PendingInv

\* A step that makes a change, or none, and counts it.
LEMMA ChangeCounts ==
  ASSUME TypeInv, NEW a, NEW changed \in BOOLEAN, NEW logged \in BOOLEAN,
         IF changed THEN Changes(a) ELSE ChangesNothing,
         pending' = IF changed /\ logged THEN 1 ELSE 0
  PROVE  /\ forced' \in [Containers -> Nat] /\ unrecorded' \in Nat
         /\ pending' \in {0, 1} /\ PendingInv'
<1>1. Changes(a) \/ ChangesNothing
  BY Zenon
<1>2. unrecorded \in Nat
  BY DEF TypeInv, TypeOK
<1>3. (changed /\ pending' = 1) \/ pending' = 0
  BY Zenon
<1>4. changed => unrecorded' = unrecorded + 1
  BY Zenon DEF Changes
<1>5. forced' \in [Containers -> Nat] /\ unrecorded' \in Nat
  BY <1>1, ChangesType
<1> QED
  BY <1>2, <1>3, <1>4, <1>5 DEF PendingInv

LEMMA NextTypeInv == TypeInv /\ [Next]_vars => TypeInv'
<1> SUFFICES ASSUME TypeInv, [Next]_vars PROVE TypeInv'
  OBVIOUS
<1> USE DEF env, request, bounds, deeds, orders
<1>1. TypeOK /\ LoopsInv /\ PendingInv
  BY DEF TypeInv
<1>2. ASSUME NEW u \in Updates, Receive(u) PROVE TypeInv'
  <2>1. updates' \in 0 .. MaxUpdates
    BY <1>1, <1>2, BoundsAssumption DEF TypeOK, Receive
  <2>2. asked' \in [Targets -> Nat]
    BY <1>1, <1>2, UpdateTypes DEF TypeOK, Receive
  <2>3. /\ stage' = "received" /\ task' = u
        /\ UNCHANGED <<env, offered, request, inbox, crashes, repeated, deeds, overtime>>
    BY <1>2 DEF Receive, TakeUp
  <2>4. LoopsInv'
    BY <2>3 DEF LoopsInv
  <2> QED
    BY <1>1, <2>1, <2>2, <2>3, <2>4 DEF TypeInv, TypeOK, Stages, PendingInv
<1>3. CASE ReceiveAgain
  <2>1. inbox \in Updates /\ stage' = "received" /\ task' = inbox
    BY <1>1, <1>3 DEF TypeOK, ReceiveAgain, TakeUp
  <2>2. repeated' \in {repeated, repeated + 1} /\ inbox' = Nothing
    BY <1>3, Zenon DEF ReceiveAgain
  <2>3. UNCHANGED <<env, offered, request, bounds, asked, deeds, overtime>>
    BY <1>3 DEF ReceiveAgain
  <2>4. LoopsInv'
    BY <2>1 DEF LoopsInv
  <2> QED
    BY <1>1, <2>1, <2>2, <2>3, <2>4 DEF TypeInv, TypeOK, Stages, PendingInv
<1>4. CASE Act
  <2>1. PICK changed \in BOOLEAN, ok \in BOOLEAN :
          /\ IF changed THEN Changes(task) ELSE ChangesNothing
          /\ pending' = IF changed /\ IsLogged(task, ok) THEN 1 ELSE 0
          /\ excused' = IF changed /\ task.action \in HalfLogged
                        THEN excused + 1 ELSE excused
          /\ IF IsLogged(task, ok)
             THEN stage' = "recording" /\ UNCHANGED <<task, request, overtime>>
             ELSE Done
    BY <1>4, Zenon DEF Act
  <2>2. IsLogged(task, ok) \in BOOLEAN
    BY Zenon DEF IsLogged
  <2>3. /\ forced' \in [Containers -> Nat] /\ unrecorded' \in Nat
        /\ pending' \in {0, 1} /\ PendingInv'
    BY <2>1, <2>2, ChangeCounts
  <2>4. excused' \in {excused, excused + 1}
    BY <2>1, Zenon
  <2>5. UNCHANGED <<allowed, chaosOn, offered, inbox, updates, crashes, asked, repeated>>
    BY <1>4 DEF Act
  <2>6. CASE Done
    BY <1>1, <2>3, <2>4, <2>5, <2>6, DoneType DEF TypeInv, TypeOK
  <2>7. CASE stage' = "recording" /\ UNCHANGED <<task, request, overtime>>
    <3>1. LoopsInv'
      BY <1>1, <1>4, <2>7 DEF LoopsInv, Act
    <3> QED
      BY <1>1, <2>3, <2>4, <2>5, <2>7, <3>1 DEF TypeInv, TypeOK, Stages
  <2> QED
    BY <2>1, <2>6, <2>7
<1>5. CASE RunTool
  <2>1. calls' \in Seq(Tools)
    BY <1>1, <1>5 DEF TypeOK, RunTool
  <2>2. /\ forced' \in [Containers -> Nat] /\ unrecorded' \in Nat
        /\ pending' \in {0, 1} /\ excused' \in Nat /\ PendingInv'
    <3>1. CASE UNCHANGED deeds
      BY <1>1, <3>1 DEF TypeOK, PendingInv
    <3>2. ASSUME NEW changed \in BOOLEAN,
                 IF changed THEN Changes(Head(calls)) ELSE ChangesNothing,
                 pending' = IF changed THEN 1 ELSE 0,
                 UNCHANGED excused
          PROVE  /\ forced' \in [Containers -> Nat] /\ unrecorded' \in Nat
                 /\ pending' \in {0, 1} /\ excused' \in Nat /\ PendingInv'
      <4>1. pending' = IF changed /\ TRUE THEN 1 ELSE 0
        BY <3>2
      <4> QED
        BY <1>1, <3>2, <4>1, ChangeCounts DEF TypeOK
    <3> QED
      BY <1>5, <3>1, <3>2 DEF RunTool
  <2>3. stage' \in Stages /\ LoopsInv'
    BY <1>1, <1>5 DEF TypeOK, RunTool, Stages, LoopsInv
  <2> QED
    BY <1>1, <1>5, <2>1, <2>2, <2>3 DEF TypeInv, TypeOK, RunTool
<1>6. CASE Record
  <2>1. unrecorded' \in Nat /\ pending' \in {0, 1} /\ PendingInv'
    BY <1>1, <1>6 DEF TypeOK, Record, PendingInv
  <2>2. UNCHANGED <<allowed, chaosOn, offered, inbox, bounds, orders, forced, excused>>
    BY <1>6 DEF Record
  <2>3. CASE Done
    BY <1>1, <2>1, <2>2, <2>3, DoneType DEF TypeInv, TypeOK
  <2>4. CASE task = Question /\ stage' = "running" /\ UNCHANGED <<task, request, overtime>>
    <3>1. LoopsInv'
      BY <1>1, <1>6, <2>4 DEF LoopsInv, Record
    <3> QED
      BY <1>1, <2>1, <2>2, <2>4, <3>1 DEF TypeInv, TypeOK, Stages
  <2> QED
    BY <1>6, <2>3, <2>4 DEF Record
<1>7. CASE ReplyCalls
  <2>1. calls' \in Seq(Tools)
    BY <1>7, ReplyTypes DEF ReplyCalls
  <2>2. stage' \in Stages /\ LoopsInv'
    BY <1>1, <1>7 DEF ReplyCalls, MoreTurns, Stages, LoopsInv
  <2> QED
    BY <1>1, <1>7, <2>1, <2>2 DEF TypeInv, TypeOK, ReplyCalls, PendingInv
<1>8. CASE ReplyText
  <2>1. offered' \subseteq Buttons
    BY <1>1, <1>8, UpdateTypes DEF TypeOK, ReplyText
  <2>2. Done /\ UNCHANGED <<env, inbox, bounds, orders, deeds>>
    BY <1>8 DEF ReplyText
  <2> QED
    BY <1>1, <2>1, <2>2, DoneType DEF TypeInv, TypeOK, PendingInv
<1>9. CASE Deliver
  <2>1. turn' \in 0 .. MaxTurns /\ attempt' \in 0 .. Attempts
    BY <1>1, <1>9, BoundsAssumption DEF TypeOK, LoopsInv, Deliver
  <2>2. stage' \in Stages /\ LoopsInv' /\ overtime' \in Nat
    BY <1>1, <1>9 DEF TypeOK, Deliver, Stages, LoopsInv
  <2> QED
    BY <1>1, <1>9, <2>1, <2>2 DEF TypeInv, TypeOK, Deliver, PendingInv
<1>10. CASE SendFails \/ SendTimesOut
  <2>1. UNCHANGED <<env, offered, inbox, bounds, orders, deeds>>
    BY <1>10 DEF SendFails, SendTimesOut
  <2>2. CASE Done
    BY <1>1, <2>1, <2>2, DoneType DEF TypeInv, TypeOK, PendingInv
  <2>3. CASE attempt # Attempts /\ Again
    <3>1. stage' \in Stages /\ LoopsInv'
      BY <1>1, <2>3, BoundsAssumption DEF TypeOK, LoopsInv, Again, Stages
    <3> QED
      BY <1>1, <2>1, <2>3, <3>1 DEF TypeInv, TypeOK, Again, PendingInv
  <2> QED
    BY <1>10, <2>2, <2>3 DEF SendFails, SendTimesOut, GiveUp
<1>11. CASE Retry
  <2>1. UNCHANGED <<env, offered, inbox, bounds, orders, deeds>>
    BY <1>11 DEF Retry
  <2>2. CASE Done
    BY <1>1, <2>1, <2>2, DoneType DEF TypeInv, TypeOK, PendingInv
  <2>3. CASE /\ stage' = "sending" /\ attempt' = attempt + 1
             /\ overtime' = IF late THEN overtime + 1 ELSE overtime
             /\ UNCHANGED <<task, turn, late, calls>>
    <3>1. attempt' \in 0 .. Attempts
      BY <1>1, <1>11, <2>3, BoundsAssumption DEF TypeOK, LoopsInv, Retry
    <3>2. stage' \in Stages /\ LoopsInv' /\ overtime' \in Nat
      BY <1>1, <2>3 DEF TypeOK, Stages, LoopsInv
    <3> QED
      BY <1>1, <2>1, <2>3, <3>1, <3>2 DEF TypeInv, TypeOK, PendingInv
  <2> QED
    BY <1>11, <2>2, <2>3 DEF Retry, GiveUp
<1>12. CASE DeadlinePasses
  <2>1. late' \in BOOLEAN
    BY <1>12, Zenon DEF DeadlinePasses
  <2>2. UNCHANGED <<env, offered, stage, task, turn, attempt, calls, inbox, bounds, orders,
                    deeds, overtime>>
    BY <1>12 DEF DeadlinePasses
  <2> QED
    BY <1>1, <2>1, <2>2 DEF TypeInv, TypeOK, LoopsInv, PendingInv
<1>13. CASE Crash
  <2>1. crashes' \in 0 .. MaxCrashes
    BY <1>1, <1>13, BoundsAssumption DEF TypeOK, Crash
  <2>2. /\ inbox' \in Updates \cup {Nothing} /\ task' \in Updates \cup {Nothing}
        /\ stage' \in Stages /\ late' \in BOOLEAN
    BY <1>1, <1>13, Zenon DEF TypeOK, Crash, Stages
  <2>3. /\ turn' = 0 /\ attempt' = 0 /\ calls' = <<>> /\ pending' = 0 /\ overtime' = 0
        /\ UNCHANGED <<env, offered, updates, orders, forced, unrecorded, excused>>
    BY <1>13 DEF Crash
  <2>4. LoopsInv'
    BY <1>13 DEF Crash, LoopsInv
  <2> QED
    BY <1>1, <2>1, <2>2, <2>3, <2>4, BoundsAssumption DEF TypeInv, TypeOK, PendingInv
<1>14. CASE Boot
  <2>1. stage' \in Stages /\ LoopsInv'
    BY <1>1, <1>14 DEF Boot, Stages, LoopsInv
  <2> QED
    BY <1>1, <1>14, <2>1 DEF TypeInv, TypeOK, Boot, PendingInv
<1>15. CASE Handle
  <2>1. UNCHANGED <<env, offered, inbox, bounds, orders, deeds>>
    BY <1>15 DEF Handle
  <2> QED
    BY <1>1, <1>15, <2>1, HandleType DEF TypeInv, TypeOK, Stages, PendingInv
<1>16. CASE Reply
  <2>1. stage' \in Stages /\ task' \in Updates \cup {Nothing} /\ LoopsInv'
    BY <1>16, Zenon DEF Reply, Stages, LoopsInv
  <2> QED
    BY <1>1, <1>16, <2>1 DEF TypeInv, TypeOK, Reply, PendingInv
<1>17. CASE UNCHANGED vars
  BY <1>1, <1>17 DEF TypeInv, TypeOK, LoopsInv, PendingInv, vars
<1> QED
  BY <1>2, <1>3, <1>4, <1>5, <1>6, <1>7, <1>8, <1>9, <1>10, <1>11, <1>12, <1>13, <1>14,
     <1>15, <1>16, <1>17 DEF Next, Step

LEMMA TypeInvariance == Spec => []TypeInv
  BY InitTypeInv, NextTypeInv, PTL DEF Spec

\* Every variable of the agent keeps to its type: in particular a request makes
\* at most MaxTurns deliveries, each of them in at most Attempts attempts.
THEOREM AgentTypeCorrect == Spec => []TypeOK
<1>1. TypeInv => TypeOK
  BY DEF TypeInv
<1> QED
  BY TypeInvariance, <1>1, PTL

----------------------------------------------------------------------------
(* Human in the loop *)

\* The order in hand may still force containers its target names.
InHand(c) == IF /\ stage \in {"received", "acting"}
                /\ task.action \in Forcing /\ task.target \in {c, Unnamed}
             THEN 1 ELSE 0
OrdersInv ==
  \A c \in Containers : forced[c] + InHand(c) <= asked[c] + asked[Unnamed] + repeated

LEMMA NextOrdersInv == TypeInv /\ TypeInv' /\ OrdersInv /\ [Next]_vars => OrdersInv'
<1> SUFFICES ASSUME TypeInv, TypeInv', OrdersInv, [Next]_vars, NEW c \in Containers
             PROVE  (forced[c] + InHand(c) <= asked[c] + asked[Unnamed] + repeated)'
  BY DEF OrdersInv
<1>1. /\ forced[c] \in Nat /\ forced'[c] \in Nat /\ asked[c] \in Nat /\ asked'[c] \in Nat
      /\ asked[Unnamed] \in Nat /\ asked'[Unnamed] \in Nat /\ repeated \in Nat /\ repeated' \in Nat
  BY DEF TypeInv, TypeOK, Targets
<1>2. InHand(c) \in {0, 1} /\ (stage \notin {"received", "acting"} => InHand(c) = 0)
  BY DEF InHand
<1>3. forced[c] + InHand(c) <= asked[c] + asked[Unnamed] + repeated
  BY DEF OrdersInv
<1>4. ASSUME stage' \notin {"received", "acting"}, forced' = forced, asked' = asked, repeated' = repeated
      PROVE  forced'[c] + InHand(c)' <= asked'[c] + asked'[Unnamed] + repeated'
  <2>1. InHand(c)' = 0
    BY <1>4 DEF InHand
  <2> QED
    BY <1>1, <1>2, <1>3, <1>4, <2>1
<1>5. ASSUME NEW u \in Updates, Receive(u)
      PROVE  forced'[c] + InHand(c)' <= asked'[c] + asked'[Unnamed] + repeated'
  <2>1. InHand(c)' \in {0, 1} /\ (InHand(c)' = 1 => u.action \in Forcing /\ u.target \in {c, Unnamed})
    BY <1>5 DEF Receive, TakeUp, InHand
  <2>2. forced' = forced /\ repeated' = repeated /\ InHand(c) = 0
    BY <1>2, <1>5 DEF Receive, deeds, orders
  <2>3. CASE u.action \in Forcing
    <3>1. asked' = [asked EXCEPT ![u.target] = @ + 1]
      BY <1>5, <2>3 DEF Receive
    <3>2. asked \in [Targets -> Nat] /\ u.target \in Targets /\ c \in Targets /\ Unnamed \in Targets
          /\ c # Unnamed
      BY UpdateTypes, ContainersAssumption DEF TypeInv, TypeOK, Targets
    <3>3. asked'[c] >= asked[c] /\ asked'[Unnamed] >= asked[Unnamed]
      BY <1>1, <3>1, <3>2
    <3>4. u.target \in {c, Unnamed} => asked'[c] + asked'[Unnamed] = asked[c] + asked[Unnamed] + 1
      BY <1>1, <3>1, <3>2
    <3> QED
      BY <1>1, <1>3, <2>1, <2>2, <3>3, <3>4
  <2>4. CASE u.action \notin Forcing
    <3>1. asked' = asked
      BY <1>5, <2>4 DEF Receive
    <3> QED
      BY <1>1, <1>3, <2>1, <2>2, <2>4, <3>1
  <2> QED
    BY <2>3, <2>4
<1>6. CASE ReceiveAgain
  <2>1. InHand(c)' \in {0, 1} /\ (InHand(c)' = 1 => inbox.action \in Forcing)
    BY <1>6 DEF ReceiveAgain, TakeUp, InHand
  <2>2. forced' = forced /\ asked' = asked /\ InHand(c) = 0
    BY <1>2, <1>6 DEF ReceiveAgain, deeds
  <2>3. repeated' = IF inbox.action \in Forcing THEN repeated + 1 ELSE repeated
    BY <1>6 DEF ReceiveAgain
  <2> QED
    BY <1>1, <1>3, <2>1, <2>2, <2>3
<1>7. CASE Act
  <2>1. asked' = asked /\ repeated' = repeated
    BY <1>7 DEF Act, orders
  <2>2. stage' \notin {"received", "acting"}
    BY <1>7 DEF Act, Done
  <2>3. InHand(c)' = 0
    BY <2>2 DEF InHand
  <2>4. Changes(task) \/ ChangesNothing
    BY <1>7, Zenon DEF Act
  <2>5. CASE forced' = forced
    BY <1>1, <1>2, <1>3, <2>1, <2>3, <2>5
  <2>6. CASE /\ task.action \in Forcing
             /\ \E d \in Containers : /\ task.target \in {d, Unnamed}
                                      /\ forced' = [forced EXCEPT ![d] = @ + 1]
    <3>1. PICK d \in Containers : /\ task.target \in {d, Unnamed}
                                  /\ forced' = [forced EXCEPT ![d] = @ + 1]
      BY <2>6
    <3>2. forced \in [Containers -> Nat]
      BY DEF TypeInv, TypeOK
    <3>3. CASE d = c
      <4>1. InHand(c) = 1
        BY <1>7, <2>6, <3>1, <3>3 DEF InHand, Act
      <4>2. forced'[c] = forced[c] + 1
        BY <3>1, <3>2, <3>3
      <4> QED
        BY <1>1, <1>3, <2>1, <2>3, <4>1, <4>2
    <3>4. CASE d # c
      <4>1. forced'[c] = forced[c]
        BY <3>1, <3>2, <3>4
      <4> QED
        BY <1>1, <1>2, <1>3, <2>1, <2>3, <4>1
    <3> QED
      BY <3>3, <3>4
  <2> QED
    BY <2>4, <2>5, <2>6, Zenon DEF Changes, ChangesNothing
\* Of the tools only those that force are gated; those that are not force nothing.
<1>8. CASE RunTool
  <2>1. /\ asked' = asked /\ repeated' = repeated /\ stage' \notin {"received", "acting"}
        /\ calls # <<>> /\ calls \in Seq(Tools)
    BY <1>8 DEF RunTool, orders, TypeInv, TypeOK
  <2>2. Head(calls) \in Tools
    BY <2>1
  <2>3. Head(calls).action \in Forcing => Head(calls).action \in Destructive
    BY <2>2 DEF Tools, Forcing, Chaos, Destructive
  <2>4. forced' = forced
    <3>1. CASE UNCHANGED deeds
      BY <3>1 DEF deeds
    <3>2. CASE /\ ~Blocked(Head(calls))
               /\ Changes(Head(calls)) \/ ChangesNothing
      BY <2>3, <3>2, Zenon DEF Blocked, Changes, ChangesNothing
    <3> QED
      BY <1>8, <3>1, <3>2, Zenon DEF RunTool
  <2> QED
    BY <1>4, <2>1, <2>4
<1>9. CASE \/ Record \/ ReplyCalls \/ ReplyText \/ Deliver \/ SendFails \/ SendTimesOut
           \/ Retry \/ Reply \/ Crash \/ Boot
  <2>1. /\ forced' = forced /\ asked' = asked /\ repeated' = repeated
        /\ stage' \notin {"received", "acting"}
    BY <1>9 DEF Record, ReplyCalls, ReplyText, Deliver, SendFails, SendTimesOut, Retry,
                Reply, Crash, Boot, Done, Again, GiveUp, deeds, orders
  <2> QED
    BY <1>4, <2>1
<1>10. CASE DeadlinePasses \/ UNCHANGED vars
  <2>1. UNCHANGED <<stage, task, orders, deeds>>
    BY <1>10 DEF DeadlinePasses, vars
  <2> QED
    BY <1>3, <2>1 DEF InHand, orders, deeds
\* The order was counted when it was received.
<1>11. CASE Handle
  <2>1. UNCHANGED <<task, orders, deeds>> /\ stage = "received"
    BY <1>11 DEF Handle, OfflineAnswer, Done, StartRequest, StartOrder
  <2>2. InHand(c)' \in {0, InHand(c)}
    BY <2>1 DEF InHand
  <2> QED
    BY <1>1, <1>2, <1>3, <2>1, <2>2 DEF orders, deeds
<1> QED
  BY <1>5, <1>6, <1>7, <1>8, <1>9, <1>10, <1>11 DEF Next, Step

\* README.md:145: without AI_DESTRUCTIVE_ALLOWED the model stops and restarts
\* nothing: every stop and restart is an operator's, one for each order given.
THEOREM HumanInTheLoop == Spec => []OperatorsDecide
<1>1. Init => OrdersInv
  BY DEF Init, OrdersInv, InHand, Targets
<1>2. TypeInv /\ OrdersInv => OperatorsDecide
  <2> SUFFICES ASSUME TypeInv, OrdersInv, NEW c \in Containers
               PROVE  forced[c] <= asked[c] + asked[Unnamed] + repeated
    BY DEF OperatorsDecide
  <2>1. /\ forced[c] \in Nat /\ asked[c] \in Nat /\ asked[Unnamed] \in Nat /\ repeated \in Nat
        /\ InHand(c) \in {0, 1}
    BY DEF TypeInv, TypeOK, Targets, InHand
  <2>2. forced[c] + InHand(c) <= asked[c] + asked[Unnamed] + repeated
    BY DEF OrdersInv
  <2> QED
    BY <2>1, <2>2
<1> QED
  BY TypeInvariance, NextOrdersInv, <1>1, <1>2, PTL DEF Spec

----------------------------------------------------------------------------
(* The audit log *)

\* What is not recorded was cut off, excused, or made by the step in hand.
RecordsInv == /\ unrecorded <= crashes + excused + pending
              /\ pending = 1 => stage = "recording"

LEMMA NextRecordsInv == TypeInv /\ RecordsInv /\ [Next]_vars => RecordsInv'
<1> SUFFICES ASSUME TypeInv, RecordsInv, [Next]_vars PROVE RecordsInv'
  OBVIOUS
<1>1. /\ unrecorded \in Nat /\ crashes \in Nat /\ excused \in Nat /\ pending \in {0, 1}
      /\ pending <= unrecorded
  BY DEF TypeInv, TypeOK, PendingInv
<1>2. unrecorded <= crashes + excused + pending /\ (stage # "recording" => pending = 0)
  BY <1>1 DEF RecordsInv
<1>3. ASSUME stage # "recording", UNCHANGED <<crashes, deeds>> PROVE RecordsInv'
  BY <1>1, <1>2, <1>3 DEF RecordsInv, deeds
<1>4. CASE Act
  <2>1. PICK changed \in BOOLEAN, ok \in BOOLEAN :
          /\ IF changed THEN Changes(task) ELSE ChangesNothing
          /\ pending' = IF changed /\ IsLogged(task, ok) THEN 1 ELSE 0
          /\ excused' = IF changed /\ task.action \in HalfLogged
                        THEN excused + 1 ELSE excused
          /\ IF IsLogged(task, ok)
             THEN stage' = "recording" /\ UNCHANGED <<task, request, overtime>>
             ELSE Done
    BY <1>4, Zenon DEF Act
  <2>2. crashes' = crashes /\ pending = 0
    BY <1>2, <1>4 DEF Act, bounds
  <2>3. CASE changed /\ IsLogged(task, ok)
    <3>1. unrecorded' = unrecorded + 1 /\ pending' = 1 /\ stage' = "recording"
      BY <2>1, <2>3 DEF Changes
    <3>2. excused' = excused \/ excused' = excused + 1
      BY <2>1, Zenon
    <3>3. unrecorded' <= crashes' + excused' + pending'
      BY <1>1, <1>2, <2>2, <3>1, <3>2
    <3> QED
      BY <3>1, <3>3 DEF RecordsInv
  \* HalfLogged holds every order that may go unlogged.
  <2>4. CASE changed /\ ~IsLogged(task, ok)
    <3>1. unrecorded' = unrecorded + 1 /\ pending' = 0
      BY <2>1, <2>4 DEF Changes
    <3>2. excused' = excused + 1
      BY <2>1, <2>4, Zenon DEF IsLogged
    <3> QED
      BY <1>1, <1>2, <2>2, <3>1, <3>2 DEF RecordsInv
  <2>5. CASE ~changed
    <3>1. unrecorded' = unrecorded /\ pending' = 0 /\ excused' = excused
      BY <2>1, <2>5 DEF ChangesNothing
    <3> QED
      BY <1>1, <1>2, <2>2, <3>1 DEF RecordsInv
  <2> QED
    BY <2>3, <2>4, <2>5
<1>5. CASE RunTool
  <2>1. crashes' = crashes /\ pending = 0 /\ stage # "recording"
    BY <1>2, <1>5 DEF RunTool, bounds
  <2>2. CASE UNCHANGED deeds
    BY <1>3, <2>1, <2>2
  <2>3. ASSUME NEW changed \in BOOLEAN,
               IF changed THEN Changes(Head(calls)) ELSE ChangesNothing,
               pending' = IF changed THEN 1 ELSE 0,
               stage' = "recording", UNCHANGED excused
        PROVE  RecordsInv'
    <3>1. CASE changed
      <4>1. unrecorded' = unrecorded + 1 /\ pending' = 1
        BY <2>3, <3>1 DEF Changes
      <4> QED
        BY <1>1, <1>2, <2>1, <2>3, <4>1 DEF RecordsInv
    <3>2. CASE ~changed
      <4>1. unrecorded' = unrecorded /\ pending' = 0
        BY <2>3, <3>2 DEF ChangesNothing
      <4> QED
        BY <1>1, <1>2, <2>1, <2>3, <4>1 DEF RecordsInv
    <3> QED
      BY <3>1, <3>2
  <2> QED
    BY <1>5, <2>2, <2>3 DEF RunTool
<1>6. CASE Record
  BY <1>1, <1>2, <1>6 DEF Record, RecordsInv, bounds
<1>7. CASE Crash
  <2>1. crashes' = crashes + 1 /\ pending' = 0 /\ UNCHANGED <<unrecorded, excused>>
    BY <1>7 DEF Crash
  <2> QED
    BY <1>1, <1>2, <2>1 DEF RecordsInv
<1>8. CASE \/ \E u \in Updates : Receive(u)
           \/ ReceiveAgain \/ ReplyCalls \/ ReplyText \/ Deliver \/ SendFails
           \/ SendTimesOut \/ Retry \/ Handle \/ Reply \/ Boot
  <2>1. stage # "recording" /\ UNCHANGED <<crashes, deeds>>
    BY <1>8 DEF Receive, ReceiveAgain, ReplyCalls, ReplyText, Deliver, SendFails,
                SendTimesOut, Retry, Handle, Reply, Boot, bounds
  <2> QED
    BY <1>3, <2>1
<1>9. CASE DeadlinePasses \/ UNCHANGED vars
  <2>1. UNCHANGED <<stage, crashes, deeds>>
    BY <1>9 DEF DeadlinePasses, vars, bounds
  <2> QED
    BY <2>1 DEF RecordsInv, deeds
<1> QED
  BY <1>4, <1>5, <1>6, <1>7, <1>8, <1>9 DEF Next, Step

\* README.md:144: but for a crash between a change and its record, and the five
\* orders that do not log everything, every change is in the audit log.
THEOREM NothingGoesUnrecorded == Spec => []ChangesAreRecorded
<1>1. Init => RecordsInv
  BY BoundsAssumption DEF Init, RecordsInv
<1>2. TypeInv /\ RecordsInv => ChangesAreRecorded
  BY DEF TypeInv, TypeOK, RecordsInv, ChangesAreRecorded
<1> QED
  BY TypeInvariance, NextRecordsInv, <1>1, <1>2, PTL DEF Spec

----------------------------------------------------------------------------
(* The deadline *)

\* The one call after the deadline is the one whose failure ends the request.
OvertimeInv == /\ overtime \in {0, 1}
               /\ overtime = 1 => late /\ stage = "sending"

LEMMA NextOvertimeInv == TypeInv /\ OvertimeInv /\ [Next]_vars => OvertimeInv'
<1> SUFFICES ASSUME TypeInv, OvertimeInv, [Next]_vars PROVE OvertimeInv'
  OBVIOUS
<1>1. CASE Done \/ Crash
  BY <1>1 DEF Done, Crash, OvertimeInv
<1>2. CASE UNCHANGED <<overtime, late, stage>>
  BY <1>2 DEF OvertimeInv
<1>3. CASE Handle
  <2>1. \/ Done \/ overtime' = 0
        \/ stage = "received" /\ UNCHANGED overtime
    BY <1>3 DEF Handle, OfflineAnswer, StartRequest, StartOrder
  <2> QED
    BY <1>1, <2>1 DEF OvertimeInv
<1>4. CASE Act
  <2>1. Done \/ (stage = "acting" /\ stage' = "recording" /\ UNCHANGED <<late, overtime>>)
    BY <1>4, Zenon DEF Act, request
  <2> QED
    BY <1>1, <2>1 DEF OvertimeInv
<1>5. CASE RunTool
  BY <1>5 DEF RunTool, OvertimeInv
<1>6. CASE Record
  <2>1. Done \/ (stage = "recording" /\ UNCHANGED <<late, overtime>>)
    BY <1>6, Zenon DEF Record, request
  <2> QED
    BY <1>1, <1>6, <2>1 DEF OvertimeInv
<1>7. CASE ReplyCalls \/ ReplyText \/ SendFails \/ SendTimesOut
  <2>1. Done \/ (~late /\ UNCHANGED <<late, overtime>>)
    BY <1>7, Zenon DEF ReplyCalls, ReplyText, SendFails, SendTimesOut, GiveUp, Again, request
  <2> QED
    BY <1>1, <2>1 DEF OvertimeInv
<1>8. CASE Deliver \/ Retry
  <2>1. \/ Done
        \/ /\ stage # "sending" /\ stage' = "sending" /\ late' = late
           /\ overtime' = IF late THEN overtime + 1 ELSE overtime
    BY <1>8 DEF Deliver, Retry, GiveUp
  <2>2. stage # "sending" => overtime = 0
    BY DEF OvertimeInv
  <2> QED
    BY <1>1, <2>1, <2>2 DEF OvertimeInv
<1>9. CASE DeadlinePasses \/ Boot
  BY <1>9 DEF DeadlinePasses, Boot, OvertimeInv
<1>10. CASE ReceiveAgain \/ Reply \/ \E u \in Updates : Receive(u)
  <2>1. stage # "sending" /\ UNCHANGED overtime
    BY <1>10 DEF Receive, ReceiveAgain, Reply
  <2> QED
    BY <2>1 DEF OvertimeInv
<1>11. CASE UNCHANGED vars
  BY <1>2, <1>11 DEF vars, request
<1> QED
  BY <1>1, <1>3, <1>4, <1>5, <1>6, <1>7, <1>8, <1>9, <1>10, <1>11 DEF Next, Step

\* gemini.go:223, retry.go:26-41: once its context has expired a request calls
\* the model once more at most, to learn that it is too late.
THEOREM DeadlineIsKept == Spec => []DeadlineEndsIt
<1>1. Init => OvertimeInv
  BY DEF Init, OvertimeInv
<1>2. OvertimeInv => DeadlineEndsIt
  BY DEF OvertimeInv, DeadlineEndsIt
<1> QED
  BY TypeInvariance, NextOvertimeInv, <1>1, <1>2, PTL DEF Spec
=============================================================================
