------------------------------ MODULE Knowledge -----------------------------
(***************************************************************************)
(* What GeminiAgent keeps on disk between two runs of the bot: facts,      *)
(* skills and incident reports, changed by the model's tool calls one at a *)
(* time (pkg/ai/gemini.go dispatchTool), and the system prompt, which      *)
(* buildSystemPrompt makes of facts and skills when the agent is built and *)
(* nobody changes afterwards.  A crash may come between two calls or       *)
(* inside one; all stores are read again at the next boot.                 *)
(***************************************************************************)
EXTENDS MemoryStore

CONSTANTS
  Names, Clean, Stems, Bodies, Stub,   \* of Skills
  Seconds, Limit,                      \* of Reports
  MaxCalls                             \* bound: tool calls that change a store

VARIABLES
  cache, dir, savedSkills, lag,        \* of Skills
  now, reports, made,                  \* of Reports
  prompt,      \* the facts and the skills of model.SystemInstruction
  calls

Skill  == INSTANCE Skills  WITH Texts <- Bodies, saved <- savedSkills
Report == INSTANCE Reports WITH Texts <- Bodies, files <- reports

skillVars  == <<cache, dir, savedSkills, lag>>
reportVars == <<now, reports, made>>
knowledge  == <<vars, skillVars, reportVars, prompt, calls>>

ASSUME KnowledgeAssumption ==
  /\ Clean \in [Names -> Names] /\ \A n \in Names : Clean[Clean[n]] = Clean[n]
  /\ Stems \in Seq(Range(Stems)) /\ \A n \in Names : Clean[n] \in Range(Stems)
  /\ Stub \in Names /\ Cut \notin Bodies
  /\ Seconds \in Nat /\ Limit \in Nat \ {0, 1} /\ MaxCalls \in Nat

NoPrompt == [facts |-> {}, skills |-> {}]

InitAll == Init /\ Skill!Init /\ Report!Init /\ prompt = NoPrompt /\ calls = 0

----------------------------------------------------------------------------
\* Mutant: the prompt is built before the stores are read.
BuildSystemPromptFirst == [facts |-> Range(facts), skills |-> DOMAIN cache]

BuildSystemPrompt == [facts |-> Range(facts'), skills |-> DOMAIN cache']

\* NewGeminiAgent.
NewAgent == /\ Load /\ Skill!Reload /\ Report!Boot
            /\ prompt' = BuildSystemPrompt
            /\ UNCHANGED calls

\* Clear is what the store offers and no tool calls yet (memory_test.go:49).
MemoryCall == Clear \/ \E text \in Texts : SaveAgain(text) \/ SaveAppends(text)

\* The tools of dispatchTool that change a store; the next begins when the last
\* has ended.
ToolCall == /\ saving = Nothing
            /\ calls < MaxCalls /\ calls' = calls + 1
            /\ \/ MemoryCall  /\ UNCHANGED <<skillVars, reportVars>>
               \/ Skill!Call  /\ UNCHANGED <<vars, reportVars>>
               \/ Report!Call /\ UNCHANGED <<vars, skillVars>>
            /\ UNCHANGED prompt

ToolCallEnds == /\ SaveStores \/ SaveFails
                /\ UNCHANGED <<skillVars, reportVars, prompt, calls>>

TimePasses == Report!NextSecond /\ UNCHANGED <<vars, skillVars, prompt, calls>>

\* Between two calls, inside SaveFact, or inside one of the other stores' calls.
BotCrashes ==
  /\ Crash
  /\ prompt' = NoPrompt
  /\ \/ Skill!Crash /\ Report!Crash /\ UNCHANGED calls
     \/ /\ saving = Nothing /\ calls < MaxCalls /\ calls' = calls + 1
        /\ \/ Skill!CrashInCall /\ Report!Crash
           \/ Report!CrashInCall /\ Skill!Crash

NextAll == NewAgent \/ ToolCall \/ ToolCallEnds \/ TimePasses \/ BotCrashes

SpecAll == InitAll /\ [][NextAll]_knowledge

----------------------------------------------------------------------------
\* Every variable holds a value of its type.
KnowledgeTypeOK == /\ TypeOK /\ Skill!TypeOK /\ Report!TypeOK
                   /\ DOMAIN prompt = {"facts", "skills"}
                   /\ prompt.skills \subseteq Names
                   /\ calls \in 0 .. MaxCalls

\* What Skills and Reports promise, whatever the other stores do.
SkillsAgree        == Skill!SkillsAgree
SavedSkillsSurvive == Skill!SavedSkillsSurvive
ReportsAreKept     == Report!ReportsAreKept /\ Report!NewestAreListed

\* gemini.go:79, "save any new lessons learned": the prompt of the next run has
\* every fact and every skill that was reported as saved, whatever calls failed
\* and wherever the bot crashed, unless the last write of the facts failed.
PromptCatchesUp ==
  [][~up /\ up' =>
       /\ DOMAIN savedSkills \subseteq prompt'.skills
       /\ ~stale => \A text \in saved : \E fact \in prompt'.facts :
                                          fact[1].word = text[1].word]_knowledge
=============================================================================
