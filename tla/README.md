# A verification project for Gopher-Ops

Gopher-Ops is a Telegram bot that watches a Docker host, reports and repairs
what goes wrong, and lets an operator and a language model act on containers.
This directory holds TLA+ models of its code, the TLC configurations that check
them, and proofs that TLAPS checks. `PROJECT.json` lists the runs, the lines of
source that every definition stands for, a mutant of the code for every
property, the hazards the properties are aimed at, and the theorems.

    tlc -config MonitorContainers.cfg MCMonitorDeaths   # a run
    tlapm MonitorProofs.tla                             # the proofs of a module

Contents: 1 the system, 2 the modules, 3 what is checked, 4 what is proved,
5 where code and documentation differ, 6 what is not modelled, 7 the plan.

## 1. The system

One process with a few long-lived goroutines. They share maps, files, two
atomics, a channel of messages and a channel of resets.

    Telegram --> update loop --------------------> actions, chaos --> Docker
                 |  limiter     |  AI agent           ^
                 |              |  (FallbackAgent)    |
                 |  snooze.Set  |  ResetCh            | autopilot
                 v              v                     |
                snooze <--- background monitor -------+----> broadcaster --> Telegram
                 |              |                     |
             snooze.json    state.json            audit.log (everyone)

| Component | State | Operations | Hard behaviour | What makes it correct |
|---|---|---|---|---|
| Background monitor `internal/runner/monitor.go` | restarts, alerts, alertSentAt, crashLoop; previousStates; RCA cache; `state.json` | a tick a minute: container loop, autopilot, alerts, resource checks; reset; load and save | a tick is long and everything may change under it; only edges are acted on; /reset, panics and restarts in mid-tick; some handlers save and some do not | deaths are reported; alerts keep their cooldown; file and memory agree; a reset gets through |
| Snoozes `internal/snooze` | a map, `snooze.json` | Set, Clear, Active, Load | Active and save give the lock up between their accesses; crashes | granted snoozes last as granted, also over restarts; answers are true |
| Audit log `pkg/audit` | the last hash; the active file and its generations | SetPath, Log with rotation, Verify; Recent, Search, ByActor | a rotation is many system calls that fail or are cut off; the readers take no lock | what is kept is in order and chained; only the oldest file is dropped; the last event is the first shown |
| AI offline mode `pkg/ai/fallback.go` | two atomics | isOffline, markFailure, markSuccess | several goroutines, no lock, check then reset | nobody is turned away for longer than the window; the agent is tried again |
| Histories `pkg/ai/gemini.go`, `local.go` | the Gemini session, LocalAgent's messages | send, retry, reply, clear | update loop and autopilot use one session without a lock; failed attempts leave their messages | what was cleared stays away; the history makes sense |
| Agent `pkg/ai`, operator actions `internal/handlers` | the request in hand, the buttons in the chat | ReAct loop, retries, tools, buttons, typed orders | deadline against retry; partial failure; redelivery after a crash; buttons that never expire | no forced container without an operator's order; changes are audited; an update ends unless a call without a time-out never does |
| Update loop and limiter `cmd/main.go`, `pkg/ratelimit` | a bucket per chat | authorize, Allow, dispatch | lazy refill, boundaries | bounded rate; no lockout; no state for strangers |
| Broadcaster `pkg/notify` | a bounded channel | Broadcast, Run | full channel, failed or unanswered sends, shutdown | order, no silent loss, no waiting |
| AI memory `pkg/memory` | a list, `SRE_FACTS.md` | Load, SaveFact, Clear | failed or torn writes, restarts | no duplicates; what was saved is there |
| Skills `pkg/skills` | a map, a directory of files | Reload, SaveSkill, DeleteSkill | names of skills against names of files; torn writes, restarts | the map is what a reload makes of the directory; saved skills survive |
| Incident reports `pkg/report` | a directory of files | Generate, ListRecent | names of one second's resolution; torn writes | a saved report is in its file and on the list |
| System prompt `pkg/ai/gemini.go` | a text | built at boot | facts and skills saved later are not in it | the next boot's prompt has them |
| Metric store, container statistics `pkg/monitor` | a window of points, a cache of samples | PushMetrics, CheckSustainedLoad, CollectContainerStats, snapshots | pruning; the write lock is held while containers are asked | verdicts of all points; old entries only where excused; readers are served |
| Kubernetes, MCP, Docker client, trivy, terraform, health server, Prometheus, configuration | none that the bot reads back | calls to the outside | their failure | inputs of the other modules |

The update loop handles one update at a time and calls the agent synchronously;
the monitor calls the same agent from its own goroutine. Broadcasts go through
the queue, replies to an operator go out directly.

## 2. The modules

**Monitor** has one action for every stretch of code between two points at which
another goroutine, Docker or a crash can be noticed: the tick's listing
(`TickStarts`, `TickFails`), each container of the loop (`AutopilotDiagnose` and
`AutopilotRestart`, `DownAlert`, `DownSuppressed`, `HandleCrashLoop`, `Recover`,
`NothingToDo`), every `Save`, each resource check, `TickEnds`. `mon` is the
program counter. The update loop appears as `PressSnooze` and the two halves of
/reset; Docker as `ContainerChanges`; `MonitorPanics`, `ProcessStops` and
`ProcessBoots` leave the files and what Docker does. Time stamps are ages, which
stop where no comparison of the code tells them apart, so time is unbounded.
`out` is what the last step gave to the broadcaster.
**MonitorHistory** adds three variables no action reads, to state the cooldown;
**MonitorDeaths** two, the deaths that were reported, to state what the crash-loop
history holds.

**Snooze** takes one step for each access under the lock and for each system
call, so that a press may fall between the read and the delete of `Active`.

**AuditLog** takes one step for each system call of `Log`; each may fail, write a
part, or be cut off by a crash. A hash is the line's number: SHA-256 is assumed
injective.

`ReadAll`, `Recent` and `Search` are what /audit reads; a query is the set of
lines it matches.

**Fallback** takes one step per access to an atomic. **CircuitBreaker** is its
abstract specification; `Fallback!IsACircuitBreaker` is the refinement mapping
for one goroutine (with two it does not hold: between the two stores of a reset
another goroutine's failure is forgotten or counted twice).

**Conversation** extends Fallback with what a request does inside the agent that
Fallback wraps: the attempts of `withRetry`, what each appends to the history,
replies that call tools, and `clear`, which only the update loop does. A history
is its last two entries, because no append depends on more; an entry is its kind
and the era it was sent in, eras being separated by clears.
`genai.ChatSession` is external: SendMessage appends the message before the
request and the reply after it, so a failed attempt leaves its message behind.
Each append is a read and a write, between which the other goroutine may come.

**Vitals** is the window of host loads and the cache of container statistics:
the collector lists, fetches in parallel, and gathers the results under the write
lock, in any order; the update loop is the reader that waits for the lock. Of a
sample only its age in rounds is kept.

**Skills**, **Reports** and **MemoryStore** are the three stores the model's
tools write to; **Knowledge** composes them with the system prompt. Tool calls
come one after the other, a crash between any two steps, and a boot reads all of
them again. A file is the name and the text that the parser finds in it; a write
cut short leaves a cut text, or a cut name.

**UpdateLoop** is the gate in front of the handlers: authorization, then the
token bucket, refilled when it is looked at. **TokenBucket** is the bucket that
fills by itself; `IsATokenBucket` is the mapping.

**Broadcaster** is the fan-out, the channel and the worker. A `select` with two
ready cases takes either.

MemoryStore keeps texts as sequences of lines, because the file is read back line
by line: of a text of several lines a restart finds the first, those that start with
"- " as facts of their own, and none of the others. `strays` are the words that came
into the file as such a line, or as what a cut left of a line (`Remains`), which may be
another fact.

**Agent** is what the update loop does with an update that passed the gate: a
question (ReAct loop, `withRetry`, deadline, dispatch of tools, the gate before
destructive ones), a button, or a typed order, with the audit record each handler
writes, and crashes after which Telegram delivers the update again. The stages
"received" and "replying" are the calls to Telegram around it. FallbackAgent
is abstracted here to "answers offline or asks the model". The reading tools and
buttons are one each; a Docker call may report an error for what it did.

The MC modules give constants their values. **MCTelegram** puts UpdateLoop, Snooze and
Broadcaster, which share no variable, into one run in which one of them moves. Modules with proofs are listed in
section 4. No module declares a RECURSIVE operator.

## 3. What is checked

| Run | Instance | Properties |
|---|---|---|
| monitor_containers | one container, cooldown of 1 and crash-loop window of 4 minutes, autopilot on or off, disk works | `SavedMatchesMemory`, `ToldDeathsAreForgotten`, `DownIsReported`, `ResetIsConsumed` |
| monitor_resources | a disk, a memory and a CPU key, writes may fail | `CooldownHolds` |
| monitor_handover | one container, expected to fail | `AutopilotHandsOver` |
| monitor_crashloop | one container, window of 5 minutes, expected to fail | `CrashLoopsAreDetected` |
| telegram | gate: two operators, one stranger, 3 calls a minute of 4 ticks | `MinuteIsBounded`, `RestIsEnough`, `IsATokenBucket` |
| | snoozes: two keys, two durations | `GrantedIsInForce`, `GrantedIsOnDisk`, `AnswersAreHonest` |
| | queue: two chats, four alerts, a channel of two | `ShownInOrder`, `NothingVanishes`, `MonitorNeverWaits`, `AcceptedIsTried` |
| audit_log | files of 2 lines, 3 generations, 9 events | `RetainedInOrder`, `ChainIsUnbroken`, `UnrotatedLogVerifies`, `OnlyTheOldestIsDropped`, `LastEventIsFound` |
| audit_verify | 2 generations, 6 events, expected to fail | `OwnLogVerifies` |
| agent | two containers, 2 turns of 1 call, 3 attempts, 3 updates, 1 crash | `OperatorsDecide`, `ChangesAreRecorded`, `DeadlineEndsIt`, `EveryUpdateEnds` |
| agent_stalled | the same with 2 updates and no crash, expected to fail | `StallsDoNotFreeze` |
| conversation | two goroutines, window of 1 after 2 failures, 2 attempts, 1 turn, 1 clear, either provider | `ClearIsFinal`, `SessionIsInOrder`, `LocalIsInOrder`, `OfflineAnswersAreRecent`, `AgentIsTriedAgain` |
| vitals | two containers, window of 3 for a duration of 2, 5 points | `VerdictIsOfAllPoints`, `StaleOnlyIfUnreached`, `ReadersAreServed` |
| knowledge | two facts of one line, one a cut of the other, and a text of two lines; three names of which one has a space, two files, three seconds, lists of 2, 3 calls | `NoDuplicates`, `RestartKeepsTheList`, `SavedIsDurable`, `SkillsAgree`, `SavedSkillsSurvive`, `ReportsAreKept`, `PromptCatchesUp` |

Type invariants, which carry the bounds (attempts, buckets, backlog), are theorems
and not part of the runs, but for `KnowledgeTypeOK`, which documents the types and
holds when it is added to its run. So are `AlertHasTime`,
`OnlyOperatorsHaveBuckets` and `IsACircuitBreaker`.

*Bounds.* The trackers of two containers meet only in the map and in the file,
and the loop handles one container at a time, so one container shows what a
handler does between the others' steps; the proofs lift it to any number. The
cooldown of one minute is the smallest that can suppress and expire. A death comes
two minutes after the last at the earliest, so a crash-loop window of four lets two
deaths be in the history and age out, and one of five lets three, which is a crash
loop. Three generations of
two lines let a rotation shift, drop and be cut off at each position. A channel
of two and two chats let half of a fan-out be dropped. Two turns and three
attempts exercise each exit of the two loops. In Conversation two goroutines, two
attempts, one turn and one clear let a retry, a call of tools, and a clear fall
between any two steps of a diagnosis; the proofs lift all four. Five points
through a window of three prune twice. In Knowledge the three names are a name, one that a
space turns into it, and one that a cut leaves of it; three calls are enough to
save, delete and save again, with a write torn and the bot restarted after each, and to
push a report off a list of two. In telegram the parts share no variable, and each
property is about one of them, to which the steps of the others are stutterings; so one
part at a time loses nothing. `MaxEntries`, `Alerts`, `MaxUpdates`,
`MaxCrashes`, `MaxClears`, `MaxQuestions`, `MaxCalls` and `Seconds` bound how much
happens, and stand in guards.

*Deadlock* is checked except where the system really stops: after the last alert
or update of the bound (the queue of telegram, agent).

*Fairness.* Goroutines keep running; `SuperviseMonitor` restarts the monitor;
time passes. The monitor's calls to Docker, HTTP and the model end because they carry
time-outs (pkg/monitor/monitor.go:191 for the listing, runner/monitor.go:182 and :417,
pkg/ai/gemini.go:507). Strong fairness is used twice in Monitor: a
`select` with a ready case takes it in the end (Go chooses at random), and Docker
answers time and again. Nothing is assumed of operators, containers, the model or
crashes. Nothing is assumed of calls to Telegram either: the client of
bootstrap.go:49 has no time-out, and broadcast.go:49 passes no context. So in
Broadcaster the worker takes what there is, and `AcceptedIsTried` excepts the send
that is never answered and holds up the others for good. In Agent the model need never
answer, only its deadline is sure to come; Docker, kubectl and terraform end by theirs,
but for the button ChaosKill (callback.go:229). `Unanswered` names the calls that may
never end, and `EveryUpdateEnds` says that nothing else keeps an update in hand.
In Vitals a fetch ends
because its context has a deadline of five seconds, and `sync.RWMutex` starves
neither the writer nor the readers (strong fairness of both locks). In
Conversation each goroutine goes on, because every request has a deadline.

*Some results worth knowing.* `SavedMatchesMemory` needs its exception: a /reset
that meets a save in mid-tick leaves the old record in the file while memory is
blank. `ToldDeathsAreForgotten` says what the recovery's reset of the history makes
of the crash-loop detector: from one run of a container to the next it adds up only
deaths nobody was told of (those that a cooldown or a snooze kept quiet).
`AnswersAreHonest` and `GrantedIsInForce` except the eviction that
overtakes a press. `OperatorsDecide` counts redelivered orders, because after a
crash an order is carried out twice. `ChangesAreRecorded` excepts five orders
that return before they log an error or never log. `MinuteIsBounded` is a bound
of nearly twice the allowance, and tight. `SessionIsInOrder` excepts histories in
which an autopilot diagnosis and a question crossed: then a reply may follow
another's reply, or results of tools a stranger's question, until the next clear.
`ClearIsFinal` holds without exception, because `clear` replaces the session and a
send under way keeps the old one. `SkillsAgree` excepts directories with a file
that bears another skill's name, and torn writes. `PromptCatchesUp` excepts facts
whose last write failed. `LastEventIsFound` is about the moments between two
calls of Log; inside a rotation /audit may find no file. `NoDuplicates` excepts the
strays: a list of "net" and "net-dns" that is cut short in its last line comes back as
"net" twice, and so does a text whose second line is "- net".

## 4. What is proved

For all values of the constants, from the assumptions the modules name.

| Module | Theorem | Statement |
|---|---|---|
| MonitorProofs | `TypeCorrect`, `AlertsHaveTimes`, `SavedStateIsCurrent`, `LoopsAreSilent` | types, times of alerts, and the two invariants of monitor_containers |
| | `CooldownIsKept` | the action property of monitor_resources |
| AgentProofs | `AgentTypeCorrect`, `HumanInTheLoop`, `NothingGoesUnrecorded`, `DeadlineIsKept` | types and the three invariants of agent |
| ConversationProofs | `FallbackTypeCorrect`, `OfflineAnswersAreFresh`, `AloneIsACircuitBreaker` | types; nobody is turned away after the window; one goroutine is a CircuitBreaker |
| | `ConversationIsAFallback`, `TalkAnswersAreFresh` | Conversation implements Fallback, and inherits its promise |
| | `ConversationTypeCorrect`, `ClearedIsGone`, `SessionMakesSense`, `LocalHistoryMakesSense` | types; `ClearIsFinal`; `SessionIsInOrder`; `LocalIsInOrder` |
| TelegramProofs | `StrangersLeaveNoTrace`, `ARestedOperatorIsHeard`, `LimiterIsATokenBucket` | no bucket for strangers, rest earns a grant, the limiter implements TokenBucket |
| | `GateTypeCorrect`, `NoMinuteIsOverdrawn` | types and `MinuteIsBounded` |
| | `BroadcasterTypeCorrect`, `AlertsKeepTheirOrder`, `AcceptedIsKept` | types, `ShownInOrder` and `NothingVanishes` |
| SnoozeProofs | `SnoozeTypeCorrect`, `SnoozesAreInForce`, `SnoozesAreOnDisk`, `AnswersWereTrue` | types, `GrantedIsInForce`, `GrantedIsOnDisk` and `AnswersAreHonest` |
| AuditLogProofs | `AuditTypeCorrect`, `LinesKeepTheirOrder`, `ChainStaysWhole` | types, `RetainedInOrder`, `ChainIsUnbroken` |
| | `UnrotatedVerifies`, `LastEventIsShown`, `OnlyTheOldestGoes` | `UnrotatedLogVerifies`, `LastEventIsFound`, `OnlyTheOldestIsDropped` |
| KnowledgeProofs | `SavedFactsAreDurable`, `NoFactTwice`, `RestartReadsTheList` | the three invariants of the AI memory |
| | `SavedSkillsStand`, `SkillsAreInTheMap`, `ReportsAreKeptAndListed` | those of skills and reports |
| | `PromptIsComplete`, `KnowledgeTypeCorrect` | `PromptCatchesUp`; types |
| VitalsProofs | `VitalsTypeCorrect`, `OldEntriesAreUnreached`, `PruningIsHarmless` | types and the two invariants of vitals |

*Monitor.* `TypeInv` is `TypeOK` and the fact that a container's handler has a
container. `SaveInv` says that, while
the disk works and no reset waits to be adopted, every saved key is as
`state.json` has it or is blank, but for the one in the hand of a handler that has
yet to save. `ToldInv` strengthens `ToldDeathsAreForgotten` to every moment of a tick:
a container with a reported death in its history has an alert on record and has not
been seen running, neither in the last tick nor by the loop of this one; it needs that
the container in the down handler's hand is one the loop has visited and found down.
It is an invariant of the specification with the variables of MonitorDeaths, as
`ReportsInv`, for `CooldownIsKept`, is of that with the variables of MonitorHistory:
while the monitor runs, its memory has the time of every report no restart has
forgotten, and `state.json` has those that the next restart would not forget. Both
specifications implement that of Monitor.

*Fallback.* `RecentInv`: every deadline, stored or loaded, is at most `Window`
less the time since the last store. An expired deadline therefore cannot turn
anyone away, whoever resets what in between.

*UpdateLoop.* `BucketsInv` is the type of the buckets. A step of the limiter is a
step of TokenBucket on the level a bucket would have if it were looked at now.
The theorem assumes `AllowanceOfOne`: with an allowance below one token the
limiter grants a chat its first call and no other, which is no token bucket.
`WindowInv`, for `MinuteIsBounded`: what a bucket holds together with what was
granted in the last n ticks is at most a full bucket and the refill of those
ticks, for every n up to a minute. It has to be stated for every n, since each
tick moves a window into the next longer one.

*Agent.* `OrdersInv` strengthens `OperatorsDecide` by the order in hand, which
has been counted and not yet carried out (an order without a target is in the
hand for any container). `RecordsInv` relates the change in hand to those not
yet recorded. `OvertimeInv` ties the count of late calls to the place in the
retry loop.

*Conversation.* A step of a request is a step of Fallback on its own goroutine, or
leaves Fallback's variables alone; so its promises carry over. `ClearIsFinal`
needs that whatever a call holds as the session of the present era is of that era.
Their order (the lemma `OrderIsKept`) needs, as long as no two requests have
crossed, that the copy of the history which a send holds is the session itself, and that a goroutine that
waits for a reply finds its own message last in it.

*Broadcaster.* `InTurn` strengthens `ShownInOrder` to the order of everything shown,
in the worker's hand and in the channel, all of it before what the fan-out has
still to offer.

*Snooze.* `Keeps`: the map, the snapshot that is being written and the file, unless
its last write failed, agree with what was granted, but for keys whose eviction
overtook a press. `SeenInv`: a call of `Active` that holds a running deadline has
seen the key muted; one that holds none has seen it calm, or is about to evict a
press of meanwhile.

*AuditLog.* `OrderInv`: the lines of all files are ordered by age, and every hash is
below that of the event being logged. A rotation moves every file into a place
that is empty. `ChainInv`: while undisturbed, the hash in memory is that of the
youngest line on disk. `CompactInv`, for `OnlyTheOldestIsDropped`: while undisturbed,
an empty generation has none but empty ones behind it, except for the hole that a
rotation moves down; so what a rotation overwrites is empty, and what it removes is
the last of a full row. `FreshInv` and `FirstLineInv`, for `UnrotatedLogVerifies`:
the first line of all continues the empty chain, and any other first line has an
older generation behind it. The theorem assumes `MaxFiles > 1`, as the code's five
are (audit.go:43): with one generation a rotation removes the only older file before
it renames the active one, and a reader in between finds a chain that does not verify.

*Vitals.* `RoundsInv`: an entry that is not of this round belongs to a container
that is still being asked, or that is unreached. `WindowInv`: the window is a
suffix of all points, of length `MaxSize` once so many were pushed.

*Knowledge.* A step of Knowledge is a step of each of the three stores or leaves it
alone (`KnowledgeIsAMemoryStore`, `KnowledgeIsASkillManager`,
`KnowledgeIsAReportStore`), so each store is proved about by itself and the promises
carry over. `HeldInv` strengthens `SavedIsDurable` to the list: what was saved is in
the list and in the file, and so is what the list has, but for the text in the hand of
`SaveFact` and unless the last write failed. `ListInv` is the form of list and file:
a fact is one line, or all its lines that will be read are strays; none but strays is
twice in the list, or among the lines of the file that are read. It rests on
`LoadedDistinct` and `RenderedDistinct`, that reading and writing keep this.
`RestartReadsTheList` rests on `LoadedConcat`: a file is read line by line, so that a
list is read back as its facts are, each by itself; `AsRead` is that list, and
`OneLinersReadBack` says that it is the list itself if every fact is one line.
`KeptInv` has the file of every saved skill, from which the next
start takes it, beside its place in the map, which a file further down may have
claimed. `AgreeInv` is the map that one file for each name gives. `PromptIsComplete`
needs no invariant of its own: when the bot boots, the list and the map have what the
file and the directory have. What `Load` and `FlattenSeq` compute is defined by
recursion over a file of any length; `LoadedFacts` and `RenderedFacts` say what is in
it, by induction over the numbers of the lines. The induction is not the library's,
whose theorems take an operator, but the lemmas `LeastNumber`, `UpTo` and
`StepByStep`, which speak of sets and functions and rest on the well-foundedness of
the subset ordering.

*Only model-checked:* liveness, which needs fairness and ENABLED and is out of the
prover's reach: `DownIsReported`, `ResetIsConsumed`, `MonitorNeverWaits`,
`AcceptedIsTried`, `EveryUpdateEnds`, `AgentIsTriedAgain`, `ReadersAreServed`. Every
other property of the passing runs is a theorem.

## 5. Where code and documentation differ

Shown by a run that is expected to fail:

- README.md:108 promises a handover to a human after three attempts; a failed
  restart is neither repeated nor handed over (`AutopilotHandsOver`).
- handlers/audit.go:173 reports "Someone touched `audit.log`" for any chain that
  does not verify; the bot's own log does not after a rotation
  (`OwnLogVerifies`).
- monitor.go:295 says crash-loop detection is independent of the autopilot's counter
  and fires without the autopilot; every recovery that resets an alert or a counter
  wipes its history (`CrashLoopsAreDetected`).
- README.md:142 says every Docker request runs under a time-out and a stalled daemon
  cannot freeze the bot; the button ChaosKill has none (`StallsDoNotFreeze`).

Met while modelling, visible in a property's exception or bound:

- limiter.go:25 permits the allowance "over any rolling minute"; it is nearly
  twice that. An allowance below one a minute locks every operator out after the
  first call.
- A send to Telegram that is never answered stops the broadcaster's worker, or the
  update loop, for good.
- README.md:144 says every action is appended to the audit log; see
  `HalfLogged` in Agent.
- A container that stays down is never reported again, although shouldAlert is
  documented to repeat alerts after the cooldown; a flapping one is reported at
  every death, because recovery clears the alert.
- Disk and log alerts are not saved (monitor.go:358, :443), so a restart repeats
  them within the cooldown.
- A fact of several lines is cut, or split into several, when it is read back; it is
  not recognised then, and saved a second time.
- A diagnosis by the autopilot and a question that cross disorder the Gemini
  history. So do a reply to a diagnosis that calls tools, which nobody runs, and a
  reply that calls tools after the last turn: the call stays without results.
- A failed attempt leaves its message in the Gemini history, so a retry shows the
  model the question twice.
- local.go:74 takes the first choice of an answer that may have none; the update
  loop does not recover, so the bot stops.
- ALERT_CPU_DURATION is documented in minutes; the code counts points, which are
  pushed by /status, by questions to the AI and by offline answers, not by the
  monitor. commands.go:171 tells the operator to wait about a minute. A
  METRICS_HISTORY_SIZE below it disables the alert without a word.
- The statistics of a container that is gone are never removed, and a recreated
  container appears twice.
- The CPU and HTTP alerts have no cooldown; the disk and HTTP alerts offer no
  snooze buttons.
- A skill saved under a name with spaces is stored under dashes, so `skill_view`
  with the name that was reported as saved does not find it. Quotes around a
  description are lost at the next start.
- A deleted skill returns at the next start if two files claimed its name. Deleting
  a skill that a hand-written file of another name holds removes that file,
  whichever skill was saved there since.
- Reports are named after local time: when a clock is set back an old report is
  overwritten. The shipped report sorts above every generated one for ever.
- Nothing calls memory.Clear but its test.
- FallbackAgent.DiagnoseIssue reports no error, so the monitor caches the text
  "AI offline" as a diagnosis for ten minutes, and AnalyzeRCA is audited as ok.

## 6. What is not modelled

All texts, prompts and keyboards beyond which buttons exist; rendering of the
audit log and of metrics; Kubernetes, MCP, terraform, trivy, disk usage and log
scanning beyond a call that may fail; the health server, Prometheus and the
reading of the configuration. The data race on the Gemini session is modelled as
reads and writes of whole slice headers, in any order; a torn header is not.
Floating point rounding, jumps of the wall clock and changes of the local time
zone are left out. Read errors of the file system are merged with a missing file.
The JSON that `Verify` reads and marshals once more is taken to give the bytes that
were hashed (audit.go:193).

## 7. The plan

Done, in this order: Monitor and its proofs; Snooze; AuditLog; Fallback with
CircuitBreaker; UpdateLoop with TokenBucket; Broadcaster; MemoryStore; Agent and
its proofs; Vitals; Skills, Reports and Knowledge; Conversation; the search of the
audit log; the proofs of Snooze, AuditLog, Broadcaster, Vitals and Conversation,
of the cooldown of Monitor, of the limiter's bound, of the audit log's search and
rotation, and of Knowledge. Left:

1. The safety halves of the liveness properties, as theorems: what is preserved until
   the promised step comes (a death that is neither reported nor excused stays
   visible to the next tick; a fan-out keeps the channel's room for its worker).
2. Proofs that a failed or torn write of the audit log loses no earlier line, beyond
   the undisturbed log of `OnlyTheOldestIsDropped`.
