------------------------------- MODULE Agent -------------------------------
(***************************************************************************)
(* What the update loop does for an operator: a question put to the model  *)
(* (pkg/ai: the ReAct loop of GeminiAgent, withRetry, the gate before      *)
(* destructive tools, and FallbackAgent around them), the buttons of its   *)
(* answer, and what pressing a button or typing a chaos command carries    *)
(* out (internal/handlers/callback.go, inline.go, commands.go).  The loop  *)
(* handles one update at a time, so one variable holds the one in hand.    *)
(*                                                                         *)
(* LocalAgent is the part of this behaviour in which no reply calls a      *)
(* tool.  The texts, the reading tools and the reading buttons are one     *)
(* tool and one button that change nothing.  A container operation may     *)
(* report an error for what it did: its time-out says nothing of Docker.   *)
(***************************************************************************)
EXTENDS Integers, Sequences, SequencesExt

CONSTANTS
  Containers,
  Intents,      \* the suggestions of the model that the instance uses
  MaxTurns,     \* maxTurns of ProcessRequest
  MaxCalls,     \* bound: tool calls in one reply
  Attempts,     \* aiRetryAttempts
  MaxUpdates,   \* bound: updates from operators
  MaxCrashes    \* bound: crashes of the process

Unnamed == ""         \* the target of what names no container

\* Everything ExtractIntents finds in a text, less the intents that only read.
Suggestible ==
  [action : {"StopContainer", "StartContainer", "RestartContainer", "ChaosKill"},
   target : Containers]
  \cup [action : {"ChaosKillRandom", "TerraformApply", "K8sRestartDeployment", "ViewLogs"},
        target : {Unnamed}]

ASSUME ContainersAssumption == Unnamed \notin Containers
ASSUME IntentsAssumption == Intents \subseteq Suggestible
ASSUME BoundsAssumption == /\ MaxTurns \in Nat \ {0}
                           /\ MaxCalls \in Nat \ {0}
                           /\ Attempts \in Nat \ {0}
                           /\ MaxUpdates \in Nat
                           /\ MaxCrashes \in Nat

Targets  == Containers \cup {Unnamed}
Nothing  == [action |-> "", target |-> Unnamed]
Question == [action |-> "ask", target |-> Unnamed]

\* The buttons under an alert that a container is down; the first sends evidence
\* to the model and runs no tool.
Consultations == [action : {"AnalyzeRCA"}, target : Containers]
OfferedByAlerts == Consultations \cup [action : {"RestartContainer"}, target : Containers]

\* "/chaos", "chaos kill <name>" and "update <name> cpu ... mem ...", typed.
TypedOrders == [action : {"chaos kill", "update"}, target : Containers]
               \cup [action : {"/chaos"}, target : {Unnamed}]

Buttons == Suggestible \cup Consultations
Updates == {Question} \cup Buttons \cup TypedOrders

Chaos   == {"ChaosKill", "ChaosKillRandom", "/chaos", "chaos kill"}
Forcing == {"StopContainer", "RestartContainer"} \cup Chaos
Reading == {"ViewLogs"}

\* The tools of GetLocalTools that act on containers, one for those that do
\* not, and one for all that an MCP server offers.
Destructive == {"StopContainer", "RestartContainer"}
Tools == [action : Destructive, target : Containers]
         \cup [action : {"docker_logs", "mcp"}, target : {Unnamed}]

VARIABLES
  allowed, chaosOn, \* AI_DESTRUCTIVE_ALLOWED and CHAOS_ENABLED of this process
  offered,          \* the buttons in the chat
  stage,            \* where the update loop is
  task,             \* the update in hand
  turn, attempt,    \* the loop variables of ProcessRequest and withRetry
  late,             \* has the request's context expired?
  calls,            \* the tool calls of the last reply still to dispatch
  inbox,            \* an update Telegram delivers again after a crash
  updates, crashes, \* bounds: updates received, crashes
  asked,            \* history: by target, orders that may force a container
  repeated,         \* history: orders delivered again after a crash
  forced,           \* history: by container, stops and restarts carried out
                    \*   while the model was not allowed to
  unrecorded,       \* history: changes that the audit log does not hold
  pending,          \* history: 1 if the step in hand made one, to be logged next
  excused,          \* history: those made by orders that do not log them
  overtime          \* history: API calls begun after the context expired

env     == <<allowed, chaosOn>>
request == <<turn, attempt, late, calls>>
bounds  == <<updates, crashes>>
deeds   == <<forced, unrecorded, pending, excused>>
orders  == <<asked, repeated>>
vars    == <<env, offered, stage, task, request, inbox, bounds, orders, deeds, overtime>>

Stages == {"off", "idle", "received", "sending", "waiting", "running", "acting",
           "recording", "replying"}

Init == /\ allowed \in BOOLEAN
        /\ chaosOn \in BOOLEAN
        /\ offered = OfferedByAlerts
        /\ stage = "idle"
        /\ task = Nothing
        /\ turn = 0 /\ attempt = 0 /\ late = FALSE /\ calls = <<>>
        /\ inbox = Nothing
        /\ updates = 0 /\ crashes = 0
        /\ asked = [t \in Targets |-> 0]
        /\ repeated = 0
        /\ forced = [c \in Containers |-> 0]
        /\ unrecorded = 0 /\ pending = 0 /\ excused = 0
        /\ overtime = 0

----------------------------------------------------------------------------
(* Receiving an update *)

\* The handler has its answer, and sends it.
Done == /\ stage' = "replying"
        /\ UNCHANGED task
        /\ turn' = 0 /\ attempt' = 0 /\ late' = FALSE /\ calls' = <<>>
        /\ overtime' = 0

\* A request to the model begins: context.WithTimeout, then withRetry.
StartRequest == /\ stage' = "sending"
                /\ turn' = IF task = Question THEN 0 ELSE MaxTurns
                /\ attempt' = 1
                /\ late' = FALSE
                /\ calls' = <<>>
                /\ overtime' = 0
                /\ UNCHANGED task

\* FallbackAgent answers by itself while it is offline.
OfflineAnswer == Done

Refused == task.action \in Chaos /\ ~chaosOn

StartOrder == stage' = "acting" /\ UNCHANGED <<task, request, overtime>>

\* The dispatch of an update, up to the first call to the outside that is not
\* Telegram's.  A question and a press were first acknowledged in the chat.
Handle == /\ stage = "received"
          /\ \/ /\ task \in {Question} \cup Consultations
                /\ StartRequest \/ OfflineAnswer
             \/ /\ task.action \in Reading \/ Refused
                /\ Done
             \/ /\ task \notin {Question} \cup Consultations
                /\ task.action \notin Reading
                /\ ~Refused
                /\ StartOrder
          /\ UNCHANGED <<env, offered, inbox, bounds, orders, deeds>>

TakeUp(u) == stage' = "received" /\ task' = u

Presses == offered \cup TypedOrders

Receive(u) == /\ stage = "idle"
              /\ inbox = Nothing
              /\ updates < MaxUpdates
              /\ u = Question \/ u \in Presses
              /\ updates' = updates + 1
              /\ asked' = IF u.action \in Forcing
                          THEN [asked EXCEPT ![u.target] = @ + 1] ELSE asked
              /\ TakeUp(u)
              /\ UNCHANGED <<env, offered, request, inbox, crashes, repeated, deeds, overtime>>

\* The crash came before the update was confirmed to Telegram.
ReceiveAgain == /\ stage = "idle"
                /\ inbox # Nothing
                /\ inbox' = Nothing
                /\ repeated' = IF inbox.action \in Forcing THEN repeated + 1 ELSE repeated
                /\ TakeUp(inbox)
                /\ UNCHANGED <<env, offered, request, bounds, asked, deeds, overtime>>

\* SafeSend: the answer, or the error, is in the chat; the handler returns.
Reply == /\ stage = "replying"
         /\ stage' = "idle"
         /\ task' = Nothing
         /\ UNCHANGED <<env, offered, request, inbox, bounds, orders, deeds, overtime>>

----------------------------------------------------------------------------
(* Carrying something out, and recording it *)

\* A change is made; whether it succeeded is for the caller to say.  Chaos
\* without a name takes any running container.
Changes(a) ==
  /\ unrecorded' = unrecorded + 1
  /\ IF a.action \in Forcing /\ ~allowed
     THEN \E c \in Containers : /\ a.target \in {c, Unnamed}
                                /\ forced' = [forced EXCEPT ![c] = @ + 1]
     ELSE UNCHANGED forced

ChangesNothing == UNCHANGED <<forced, unrecorded>>

\* Orders whose handler returns before its audit.Log when they report an error,
\* and TerraformApply, whose handler has none.
HalfLogged == {"TerraformApply", "K8sRestartDeployment", "/chaos", "chaos kill", "update"}

\* Mutant: no order is logged that reports an error.
LoggedIfOk(u, ok) == ok /\ u.action # "TerraformApply"

IsLogged(u, ok) == \/ u.action \notin HalfLogged
                   \/ ok /\ u.action # "TerraformApply"

\* The handler of an order calls Docker, kubectl or terraform.
Act == /\ stage = "acting"
       /\ \E changed, ok \in BOOLEAN :
            /\ ok => changed
            /\ IF changed THEN Changes(task) ELSE ChangesNothing
            /\ pending' = IF changed /\ IsLogged(task, ok) THEN 1 ELSE 0
            /\ excused' = IF changed /\ task.action \in HalfLogged
                          THEN excused + 1 ELSE excused
            /\ IF IsLogged(task, ok)
               THEN stage' = "recording" /\ UNCHANGED <<task, request, overtime>>
               ELSE Done
       /\ UNCHANGED <<env, offered, inbox, bounds, orders>>

\* Mutant: the gate knows one of the two.
BlockedIfStop(call) == call.action = "StopContainer" /\ ~allowed

Blocked(call) == call.action \in Destructive /\ ~allowed

\* dispatchTool; what it blocks and what only reads changes nothing, and is
\* logged in the same step.
RunTool == /\ stage = "running"
           /\ calls # <<>>
           /\ calls' = Tail(calls)
           /\ \/ /\ Blocked(Head(calls)) \/ Head(calls).action = "docker_logs"
                 /\ UNCHANGED <<stage, deeds>>
              \/ /\ ~Blocked(Head(calls)) /\ Head(calls).action # "docker_logs"
                 /\ \E changed \in BOOLEAN :
                      /\ IF changed THEN Changes(Head(calls)) ELSE ChangesNothing
                      /\ pending' = IF changed THEN 1 ELSE 0
                 /\ stage' = "recording"
                 /\ UNCHANGED excused
           /\ UNCHANGED <<env, offered, task, turn, attempt, late, inbox, bounds, orders,
                          overtime>>

\* audit.Log
Record == /\ stage = "recording"
          /\ unrecorded' = unrecorded - pending
          /\ pending' = 0
          /\ IF task = Question
             THEN stage' = "running" /\ UNCHANGED <<task, request, overtime>>
             ELSE Done
          /\ UNCHANGED <<env, offered, inbox, bounds, orders, forced, excused>>

----------------------------------------------------------------------------
(* The ReAct loop *)

MoreTurns == turn < MaxTurns

\* The model calls tools.
ReplyCalls == /\ stage = "sending"
              /\ ~late
              /\ MoreTurns
              /\ \E cs \in SeqOf(Tools, MaxCalls) \ {<<>>} : calls' = cs
              /\ stage' = "running"
              /\ UNCHANGED <<env, offered, task, turn, attempt, late, inbox, bounds, orders,
                             deeds, overtime>>

\* The reply is text; or it is that of the last turn, whose calls are ignored.
\* AIProcess puts a button under the answer for each intent in the text; one
\* intent stands for all of them.
ReplyText == /\ stage = "sending"
             /\ ~late
             /\ \/ UNCHANGED offered
                \/ /\ task = Question
                   /\ \E i \in Intents : offered' = offered \cup {i}
             /\ Done
             /\ UNCHANGED <<env, inbox, bounds, orders, deeds>>

\* The results go back to the model, which may answer with more calls.
Deliver == /\ stage = "running"
           /\ calls = <<>>
           /\ stage' = "sending"
           /\ turn' = turn + 1
           /\ attempt' = 1
           /\ overtime' = IF late THEN overtime + 1 ELSE overtime
           /\ UNCHANGED <<env, offered, task, late, calls, inbox, bounds, orders, deeds>>

----------------------------------------------------------------------------
(* withRetry, and FallbackAgent when it returns an error *)

Again == /\ stage' = "waiting"
         /\ UNCHANGED <<task, request, overtime>>

\* The operator reads that the model is offline, whatever the tools have done.
GiveUp == Done

SendFails == /\ stage = "sending"
             /\ ~late
             /\ IF attempt = Attempts THEN GiveUp ELSE Again
             /\ UNCHANGED <<env, offered, inbox, bounds, orders, deeds>>

\* Mutant: an expired context is an error like any other.
SendTimesOutAgain == /\ stage = "sending"
                     /\ late
                     /\ IF attempt = Attempts THEN GiveUp ELSE Again
                     /\ UNCHANGED <<env, offered, inbox, bounds, orders, deeds>>

SendTimesOut == /\ stage = "sending"
                /\ late
                /\ GiveUp
                /\ UNCHANGED <<env, offered, inbox, bounds, orders, deeds>>

\* The back-off ends, by its timer or by the context: if both have fired, select
\* takes either.
Retry == /\ stage = "waiting"
         /\ \/ /\ stage' = "sending"
               /\ attempt' = attempt + 1
               /\ overtime' = IF late THEN overtime + 1 ELSE overtime
               /\ UNCHANGED <<task, turn, late, calls>>
            \/ late /\ GiveUp
         /\ UNCHANGED <<env, offered, inbox, bounds, orders, deeds>>

\* Mutant: the request has no deadline.
NoDeadline == FALSE /\ UNCHANGED vars

\* aiTimeout has passed.
DeadlinePasses == /\ task \in {Question} \cup Consultations
                  /\ stage \in {"sending", "waiting", "running", "recording"}
                  /\ ~late
                  /\ late' = TRUE
                  /\ UNCHANGED <<env, offered, stage, task, turn, attempt, calls, inbox,
                                 bounds, orders, deeds, overtime>>

----------------------------------------------------------------------------
(* The process *)

\* The update in hand is delivered again if Telegram had no word of it yet.
Crash == /\ stage # "off"
         /\ crashes < MaxCrashes
         /\ crashes' = crashes + 1
         /\ inbox' \in {inbox, IF task = Nothing THEN inbox ELSE task}
         /\ stage' = "off"
         /\ task' = Nothing
         /\ turn' = 0 /\ attempt' = 0 /\ late' = FALSE /\ calls' = <<>>
         /\ pending' = 0 /\ overtime' = 0
         /\ UNCHANGED <<env, offered, updates, orders, forced, unrecorded, excused>>

\* The environment is read anew; the buttons in the chat are still there.
Boot == /\ stage = "off"
        /\ stage' = "idle"
        /\ allowed' \in BOOLEAN
        /\ chaosOn' \in BOOLEAN
        /\ UNCHANGED <<offered, task, request, inbox, bounds, orders, deeds, overtime>>

Step == \/ Handle \/ Reply \/ Act \/ RunTool \/ Record \/ ReplyCalls \/ ReplyText \/ Deliver
        \/ SendFails \/ SendTimesOut \/ Retry

Next == \/ \E u \in Updates : Receive(u)
        \/ ReceiveAgain
        \/ Step
        \/ DeadlinePasses
        \/ Crash \/ Boot

Spec == Init /\ [][Next]_vars

\* The calls that may never return: Telegram's client has no time-out
\* (bootstrap.go:49), nor does the button ChaosKill set one (callback.go:229).
\* Typed orders are not acknowledged before they are carried out.
Unanswered == \/ stage = "received" /\ task \notin TypedOrders
              \/ stage = "replying"
              \/ stage = "acting" /\ task.action = "ChaosKill"

\* What the process does by itself.  The model need not answer: only the deadline
\* is sure to come.  All other calls to Docker, kubectl, terraform and the MCP
\* servers run under a deadline.
OwnStep == /\ ~Unanswered
           /\ Handle \/ Act \/ RunTool \/ Record \/ Deliver \/ SendTimesOut \/ Retry

FairSpec == Spec /\ WF_vars(OwnStep) /\ WF_vars(DeadlinePasses)

----------------------------------------------------------------------------
TypeOK == /\ allowed \in BOOLEAN /\ chaosOn \in BOOLEAN
          /\ offered \subseteq Buttons
          /\ stage \in Stages
          /\ task \in Updates \cup {Nothing}
          /\ turn \in 0 .. MaxTurns
          /\ attempt \in 0 .. Attempts
          /\ late \in BOOLEAN
          /\ calls \in Seq(Tools)
          /\ inbox \in Updates \cup {Nothing}
          /\ updates \in 0 .. MaxUpdates /\ crashes \in 0 .. MaxCrashes
          /\ asked \in [Targets -> Nat]
          /\ repeated \in Nat
          /\ forced \in [Containers -> Nat]
          /\ unrecorded \in Nat /\ pending \in {0, 1} /\ excused \in Nat
          /\ overtime \in Nat

\* While the model may not act by itself, a container is stopped or restarted
\* only on the order of an operator, and once for each order; unless Telegram
\* delivers an order again after a crash (README.md:117, :145, SECURITY.md:66:
\* "HITL-by-default").
OperatorsDecide ==
  \A c \in Containers : forced[c] <= asked[c] + asked[Unnamed] + repeated

\* Every change the bot makes for an operator or for the model is in the audit
\* log, at the latest when the next step begins, save what a crash cut off and
\* what the five orders did that do not log everything (README.md:144).
ChangesAreRecorded ==
  unrecorded <= crashes + excused + (IF stage = "recording" THEN 1 ELSE 0)

\* Once the time of a request is up, the model is called at most once more,
\* however many turns and attempts it had left.
DeadlineEndsIt == overtime <= 1

\* Whatever the model and the tools do or fail to do, the update loop gets to
\* the end of every update, unless a call without a time-out never returns: one
\* to Telegram, or that of the button ChaosKill to Docker (README.md:142 speaks
\* of every Docker request and every call of the model).
EveryUpdateEnds == task # Nothing ~> (task = Nothing \/ [](Unanswered))

----------------------------------------------------------------------------
(* What the documentation says and the code does not do. *)

\* README.md:142, "every Docker request and LLM round-trip runs under a
\* context.WithTimeout; a stalled daemon or hung API cannot freeze the bot":
\* nothing but Telegram keeps the update loop from the end of an update.
StallsDoNotFreeze ==
  task # Nothing ~> (task = Nothing \/ [](stage \in {"received", "replying"}))
=============================================================================
