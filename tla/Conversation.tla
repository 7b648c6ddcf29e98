---------------------------- MODULE Conversation ----------------------------
(***************************************************************************)
(* What happens inside the agent that Fallback wraps: the messages of a    *)
(* request and the session they are kept in (pkg/ai/gemini.go, local.go).  *)
(* The update loop asks, has things analysed and clears the session; the   *)
(* monitor's autopilot has containers diagnosed at the same time.  Nothing *)
(* locks the session.                                                      *)
(*                                                                         *)
(* GeminiAgent sends everything through one genai.ChatSession, external    *)
(* code: SendMessage appends the message to the session's history before   *)
(* the request and the reply after it, each append a read and a write of   *)
(* the slice.  LocalAgent keeps a history for ProcessRequest only.         *)
(***************************************************************************)
EXTENDS Fallback

CONSTANTS
  Loop,          \* the thread that is the update loop
  MaxAttempts,   \* aiRetryAttempts
  MaxTurns,      \* maxTurns
  MaxClears      \* bound

ASSUME ConversationAssumption ==
  /\ Loop \in Threads
  /\ MaxAttempts \in Nat \ {0} /\ MaxTurns \in Nat /\ MaxClears \in Nat

VARIABLES
  provider,   \* which agent is wrapped
  session,    \* the last two entries of the history, with the era they were sent in
  era,        \* how often the session was replaced
  call,       \* the request every thread has under way inside the agent
  crossed     \* history: since the last clear two requests were under way at once

talk == <<provider, session, era, call, crossed>>
all  == <<vars, talk>>

Kinds     == {"start", "question", "analysis", "call", "result", "answer"}
Entries   == [kind : Kinds, era : 0 .. MaxClears]
Histories == [before : Entries, last : Entries]

Start(e)  == [kind |-> "start", era |-> e]
Opened(e) == [before |-> Start(e), last |-> Start(e)]
Entry(kind) == [kind |-> kind, era |-> era]

\* Of a history only its last two entries are kept track of: what is appended
\* to them, or to an older copy of them, does not depend on the rest.
Appended(history, kind) == [before |-> history.last, last |-> Entry(kind)]

NoCall == [at |-> "send", sends |-> "none", tries |-> 0, turns |-> 0,
           held |-> 0, view |-> Opened(0), reply |-> "none"]

InitC == /\ Init
         /\ provider \in {"gemini", "local"}
         /\ era = 0 /\ session = Opened(0)
         /\ call = [t \in Threads |-> NoCall]
         /\ crossed = FALSE

Inside(t, where) == pc[t] = "inner" /\ call[t].at = where
TwoInside == \E t, u \in Threads : t # u /\ pc[t] = "inner" /\ pc[u] = "inner"
Stays(t, c) == call' = [call EXCEPT ![t] = c] /\ UNCHANGED vars
Ends(t)     == call' = [call EXCEPT ![t] = NoCall]

\* The entry goes into the session that t began its send with; one that was
\* replaced meanwhile is nobody's any more.
Appends(t, kind) ==
  session' = IF call[t].held = era THEN Appended(call[t].view, kind) ELSE session

----------------------------------------------------------------------------
(* withRetry, for either agent: an attempt that failed is followed by another *)
(* one unless it was the last or the deadline has passed.                     *)

Fails(t, again) ==
  /\ UNCHANGED session
  /\ \/ call[t].tries + 1 < MaxAttempts /\ Stays(t, [again EXCEPT !.tries = @ + 1])
     \/ AgentFails(t) /\ Ends(t)

----------------------------------------------------------------------------
\* What the next attempt sends.  A request begins with ProcessRequest's question,
\* or with the prompt of DiagnoseIssue, AuditSecurity or TriageIssue.
Sent(t) == IF call[t].sends # "none" THEN {call[t].sends}
           ELSE IF t = Loop THEN {"question", "analysis"} ELSE {"analysis"}

----------------------------------------------------------------------------
(* GeminiAgent. *)

\* An attempt: a.session is looked up, and SendMessage reads its history.
SendLoads(t) ==
  /\ provider = "gemini" /\ Inside(t, "send")
  /\ \E what \in Sent(t) :
       Stays(t, [call[t] EXCEPT !.at = "append", !.sends = what,
                                !.held = era, !.view = session])
  /\ UNCHANGED session

SendStores(t) ==
  /\ Inside(t, "append")
  /\ Appends(t, call[t].sends)
  /\ Stays(t, [call[t] EXCEPT !.at = "wait", !.view = Opened(0)])

\* Mutant: a failed attempt starts the session afresh.
SendFailsAfresh(t) ==
  /\ provider = "gemini" /\ Inside(t, "wait")
  /\ session' = Opened(era)
  /\ \/ call[t].tries + 1 < MaxAttempts
        /\ Stays(t, [call[t] EXCEPT !.at = "send", !.tries = @ + 1])
     \/ AgentFails(t) /\ Ends(t)

\* The message stays in the history, and the next attempt appends it again.
SendFails(t) ==
  /\ provider = "gemini" /\ Inside(t, "wait")
  /\ Fails(t, [call[t] EXCEPT !.at = "send", !.held = 0])

ReplyLoads(t) ==
  /\ provider = "gemini" /\ Inside(t, "wait")
  /\ \E reply \in {"call", "answer"} :
       Stays(t, [call[t] EXCEPT !.at = "reply", !.reply = reply, !.tries = 0,
                                !.view = IF call[t].held = era THEN session ELSE Opened(0)])
  /\ UNCHANGED session

\* Only ProcessRequest runs the tools that a reply calls, for MaxTurns turns.
ToolsRun(t) == /\ call[t].reply = "call" /\ call[t].sends # "analysis"
               /\ call[t].turns < MaxTurns

ReplyStores(t) ==
  /\ Inside(t, "reply")
  /\ Appends(t, call[t].reply)
  /\ IF ToolsRun(t)
     THEN Stays(t, [NoCall EXCEPT !.at = "send", !.sends = "result",
                                  !.turns = call[t].turns + 1])
     ELSE AgentAnswers(t) /\ Ends(t)

----------------------------------------------------------------------------
(* LocalAgent: an analysis is sent by itself, without the history. *)

LocalSends(t) ==
  /\ provider = "local" /\ Inside(t, "send")
  /\ \E what \in Sent(t) :
       /\ session' = IF what = "question" THEN Appended(session, "question")
                                          ELSE session
       /\ Stays(t, [call[t] EXCEPT !.at = "wait", !.sends = what])

LocalFails(t) ==
  /\ provider = "local" /\ Inside(t, "wait")
  /\ Fails(t, call[t])

\* Mutant: the findings of an analysis are added to the history as well.
LocalAnswersAll(t) ==
  /\ provider = "local" /\ Inside(t, "wait")
  /\ session' = Appended(session, "answer")
  /\ AgentAnswers(t) /\ Ends(t)

LocalAnswers(t) ==
  /\ provider = "local" /\ Inside(t, "wait")
  /\ session' = IF call[t].sends = "question" THEN Appended(session, "answer")
                                              ELSE session
  /\ AgentAnswers(t) /\ Ends(t)

----------------------------------------------------------------------------
\* Mutant: the session is emptied where it is.
ResetSessionInPlace ==
  /\ pc[Loop] = "idle" /\ era < MaxClears
  /\ era' = era + 1 /\ session' = Opened(era')
  /\ crossed' = TwoInside
  /\ call' = [t \in Threads |-> [call[t] EXCEPT !.held = IF @ = era THEN era' ELSE @]]
  /\ UNCHANGED <<vars, provider>>

\* The inline command "clear": ResetSession of either agent, offline or not.
ResetSession ==
  /\ pc[Loop] = "idle" /\ era < MaxClears
  /\ era' = era + 1 /\ session' = Opened(era')
  /\ crossed' = TwoInside
  /\ UNCHANGED <<vars, provider, call>>

Outside(t) == /\ \/ Loads(t) \/ Compares(t) \/ Clears(t) \/ Zeroes(t)
                 \/ GoesOffline(t) \/ GoesOnline(t)
              /\ UNCHANGED <<session, call>>
Gemini(t) == \/ SendLoads(t) \/ SendStores(t) \/ SendFails(t)
             \/ ReplyLoads(t) \/ ReplyStores(t)
Local(t)  == LocalSends(t) \/ LocalFails(t) \/ LocalAnswers(t)

Crosses == crossed' = (crossed \/ TwoInside')

Proceeds(t) == /\ Outside(t) \/ Gemini(t) \/ Local(t)
              /\ Crosses /\ UNCHANGED <<provider, era>>

\* Only the update loop asks for the status.
Comes(t) == Asks(t, "answer") \/ (t = Loop /\ Asks(t, "status"))

NextC == \/ (Clock \/ \E t \in Threads : Comes(t)) /\ UNCHANGED talk
         \/ ResetSession
         \/ \E t \in Threads : Proceeds(t)

SpecC == InitC /\ [][NextC]_all

\* As in Fallback: every request to the model ends, by its deadline at the latest.
FairSpecC == SpecC /\ WF_all(Clock /\ UNCHANGED talk) /\ \A t \in Threads : WF_all(Proceeds(t))

----------------------------------------------------------------------------
\* Every variable holds a value of its type, and a thread that is not inside the
\* agent has no request there.
Calls == [at : {"send", "append", "wait", "reply"},
          sends : {"none", "question", "analysis", "result"},
          tries : 0 .. MaxAttempts - 1, turns : 0 .. MaxTurns,
          held : 0 .. MaxClears, view : Histories,
          reply : {"none", "call", "answer"}]
TalkOK == /\ provider \in {"gemini", "local"}
          /\ session \in Histories
          /\ era \in 0 .. MaxClears
          /\ call \in [Threads -> Calls]
          /\ \A t \in Threads : pc[t] # "inner" => call[t] = NoCall
          /\ crossed \in BOOLEAN

\* inline.go:27, "Chat memory cleared! Token history reset jadi 0": once an
\* operator has cleared the session, nothing sent before comes back into it,
\* though the autopilot may be between any two steps of a diagnosis.
OfEra(history, e) == history.before.era = e /\ history.last.era = e
ClearIsFinal == OfEra(session, era)

\* A reply stands after what it replies to, and the results of tools after the
\* call for them or a copy that a failed attempt left.  Every two entries of the
\* history have been its last two.
MayFollow == [start    |-> {"start"},
              question |-> Kinds, analysis |-> Kinds,
              call     |-> {"question", "analysis", "result"},
              answer   |-> {"question", "analysis", "result"},
              result   |-> {"call", "result"}]
InOrder(history) == history.before.kind \in MayFollow[history.last.kind]

\* The history the model is shown makes sense, over failed attempts, requests
\* given up between a call and its results, calls nobody answers and clears, as
\* long as no two requests have crossed since the session was cleared.
SessionIsInOrder == provider = "gemini" /\ ~crossed => InOrder(session)

\* LocalAgent's history makes sense always: a diagnosis of the autopilot leaves
\* no trace in it, nor does a question that failed break the rest.
LocalIsInOrder == provider = "local" => InOrder(session)
=============================================================================
