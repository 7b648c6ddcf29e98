------------------------- MODULE ConversationProofs -------------------------
(* Proofs about Fallback and Conversation for any number of goroutines,        *)
(* failures, attempts, turns and clears and any window: first the offline mode *)
(* by itself, then what happens inside the agent it wraps.                     *)
EXTENDS Conversation, TLAPS

----------------------------------------------------------------------------
(* Fallback by itself. *)

\* Every deadline, stored or loaded, was set at most Window minutes ago.
Recent(d) == d > 0 => d + sinceOffline <= Window
DeadlinesAreRecent == Recent(offlineUntil) /\ \A t \in Threads : Recent(until[t])
RecentInv == TypeOK /\ DeadlinesAreRecent

LEMMA OlderType ==
  \A d \in Deadlines : Older(d) \in Deadlines
  BY BreakerAssumption DEF Older, Deadlines, Off

\* A minute is added to what has passed exactly when one is taken from what
\* is left.
LEMMA OlderIsRecent ==
  ASSUME NEW since \in 0 .. Window, NEW d \in Deadlines,
         d > 0 => d + since <= Window
  PROVE  Older(d) > 0 =>
           Older(d) + (IF since < Window THEN since + 1 ELSE Window) <= Window
  BY BreakerAssumption DEF Older, Deadlines, Off

LEMMA InitIsRecent == Init => RecentInv
  BY BreakerAssumption DEF Init, RecentInv, TypeOK, DeadlinesAreRecent, Recent, Deadlines, Off

LEMMA RecentInvariance == RecentInv /\ [Next]_vars => RecentInv'
<1> USE BreakerAssumption
<1> SUFFICES ASSUME RecentInv, [Next]_vars PROVE RecentInv'
  OBVIOUS
<1>1. TypeOK /\ DeadlinesAreRecent
  BY DEF RecentInv
<1>2. Window \in Deadlines /\ Off \in Deadlines
  BY DEF Deadlines
<1>3. CASE Clock
  <2>1. TypeOK'
    BY <1>1, <1>3, OlderType DEF TypeOK, Clock
  <2>2. Recent(offlineUntil)'
    BY <1>1, <1>3, OlderIsRecent DEF TypeOK, Clock, DeadlinesAreRecent, Recent
  <2>3. \A t \in Threads : Recent(until[t])'
    <3> TAKE t \in Threads
    <3>1. until[t] \in Deadlines /\ sinceOffline \in 0 .. Window
      BY <1>1 DEF TypeOK
    <3>2. until[t] > 0 => until[t] + sinceOffline <= Window
      BY <1>1 DEF DeadlinesAreRecent, Recent
    <3>3. Older(until[t]) > 0 =>
            Older(until[t]) + (IF sinceOffline < Window THEN sinceOffline + 1 ELSE Window) <= Window
      BY <3>1, <3>2, OlderIsRecent
    <3> QED
      BY <1>3, <3>3 DEF Clock, Recent
  <2> QED
    BY <2>1, <2>2, <2>3 DEF RecentInv, DeadlinesAreRecent
<1>4. ASSUME NEW t \in Threads, Come(t) \/ Within(t) PROVE RecentInv'
  <2>1. CASE \E what \in {"answer", "status"} : Asks(t, what)
    BY <1>1, <2>1 DEF RecentInv, TypeOK, DeadlinesAreRecent, Recent, Asks, Goes
  <2>2. CASE Loads(t)
    <3>1. TypeOK'
      BY <1>1, <2>2 DEF TypeOK, Loads, Goes, Admitted
    <3>2. DeadlinesAreRecent'
      BY <1>1, <2>2 DEF TypeOK, DeadlinesAreRecent, Recent, Loads
    <3> QED
      BY <3>1, <3>2 DEF RecentInv
  <2>3. CASE Compares(t)
    <3>1. TypeOK'
      BY <1>1, <1>2, <2>3 DEF TypeOK, Compares, Goes
    <3>2. DeadlinesAreRecent'
      BY <1>1, <2>3 DEF TypeOK, DeadlinesAreRecent, Recent, Compares, Off
    <3> QED
      BY <3>1, <3>2 DEF RecentInv
  <2>4. CASE Clears(t)
    BY <1>1, <1>2, <2>4 DEF RecentInv, TypeOK, DeadlinesAreRecent, Recent, Clears, Goes, Off
  <2>5. CASE Zeroes(t)
    BY <1>1, <2>5 DEF RecentInv, TypeOK, DeadlinesAreRecent, Recent, Zeroes, Goes, Admitted
  <2>6. CASE AgentFails(t)
    BY <1>1, <2>6 DEF RecentInv, TypeOK, DeadlinesAreRecent, Recent, AgentFails, Goes
  <2>7. CASE GoesOffline(t)
    <3>1. TypeOK'
      BY <1>1, <1>2, <2>7 DEF TypeOK, GoesOffline, Goes
    <3>2. Recent(offlineUntil)'
      BY <2>7 DEF GoesOffline, Recent
    <3>3. \A u \in Threads : Recent(until[u])'
      BY <1>1, <2>7 DEF TypeOK, GoesOffline, Recent, Deadlines, Off
    <3> QED
      BY <3>1, <3>2, <3>3 DEF RecentInv, DeadlinesAreRecent
  <2>8. CASE AgentAnswers(t)
    BY <1>1, <2>8 DEF RecentInv, TypeOK, DeadlinesAreRecent, Recent, AgentAnswers, Goes
  <2>9. CASE GoesOnline(t)
    BY <1>1, <1>2, <2>9 DEF RecentInv, TypeOK, DeadlinesAreRecent, Recent, GoesOnline, Goes, Off
  <2> QED
    BY <1>4, <2>1, <2>2, <2>3, <2>4, <2>5, <2>6, <2>7, <2>8, <2>9 DEF Come, Within
<1>5. CASE UNCHANGED vars
  BY <1>1, <1>5 DEF RecentInv, TypeOK, DeadlinesAreRecent, Recent, vars
<1> QED
  BY <1>3, <1>4, <1>5 DEF Next

\* Every variable of the offline mode keeps to its type.
THEOREM FallbackTypeCorrect == Spec => []TypeOK
<1>1. RecentInv => TypeOK
  BY DEF RecentInv
<1> QED
  BY InitIsRecent, RecentInvariance, <1>1, PTL DEF Spec

\* fallback.go:15: nobody is served offline on account of a failure that is
\* older than the back-off window, however the goroutines interleave.
THEOREM OfflineAnswersAreFresh == Spec => OfflineAnswersAreRecent
<1>1. ASSUME RecentInv, [Next]_vars
      PROVE  [\A t \in Threads :
                pc[t] = "compare" /\ pc'[t] = "idle" => sinceOffline < Window]_vars
  <2> SUFFICES ASSUME Next, NEW t \in Threads, pc[t] = "compare", pc'[t] = "idle"
               PROVE  sinceOffline < Window
    BY <1>1 DEF vars
  <2>1. Compares(t)
    <3>1. pc \in [Threads -> {"idle", "load", "compare", "clear", "zero",
                              "inner", "goOffline", "online"}]
      BY <1>1 DEF RecentInv, TypeOK
    <3>2. ~Clock
      BY DEF Clock
    <3>3. PICK u \in Threads : Come(u) \/ Within(u)
      BY <3>2 DEF Next
    <3>4. \E where : pc' = [pc EXCEPT ![u] = where]
      BY <3>3 DEF Come, Within, Asks, Loads, Compares, Clears, Zeroes, AgentFails,
                  GoesOffline, AgentAnswers, GoesOnline, Goes
    <3>5. u = t
      BY <3>1, <3>4
    <3> QED
      BY <3>3, <3>5 DEF Come, Within, Asks, Loads, Compares, Clears, Zeroes, AgentFails,
                        GoesOffline, AgentAnswers, GoesOnline, Goes
  <2>2. until[t] > 0
    <3>1. pc \in [Threads -> {"idle", "load", "compare", "clear", "zero",
                              "inner", "goOffline", "online"}]
      BY <1>1 DEF RecentInv, TypeOK
    <3> QED
      BY <2>1, <3>1 DEF Compares, Goes, Served
  <2> QED
    BY <1>1, <2>2, BreakerAssumption
    DEF RecentInv, TypeOK, DeadlinesAreRecent, Recent, Deadlines, Off
<1> QED
  BY InitIsRecent, RecentInvariance, <1>1, PTL DEF Spec, OfflineAnswersAreRecent

----------------------------------------------------------------------------
(* One goroutine: the two atomics are a circuit breaker. *)

\* What the goroutine has loaded is still what is stored, and past the breaker
\* the agent is online.
InStep == \A t \in Threads :
  /\ pc[t] = "compare" => until[t] = offlineUntil /\ offlineUntil # Off
  /\ pc[t] = "clear"   => offlineUntil = 0
  /\ pc[t] \in {"zero", "inner", "goOffline", "online"} => offlineUntil = Off
  /\ pc[t] = "goOffline" => failures >= MaxFailures
AloneInv == TypeOK /\ InStep

LEMMA InitAlone == Init => AloneInv
  BY InitIsRecent DEF RecentInv, AloneInv, InStep, Init

LEMMA AloneInvariance ==
  ASSUME NEW loop, Threads = {loop}, RecentInv, AloneInv, [Next]_vars PROVE AloneInv'
<1> USE BreakerAssumption
<1>1. TypeOK'
  BY RecentInvariance DEF RecentInv
<1>2. InStep'
  <2>1. loop \in Threads /\ TypeOK
    BY DEF AloneInv
  <2>2. CASE Clock
    BY <2>1, <2>2 DEF AloneInv, InStep, Clock, Older, Off, TypeOK, Deadlines
  <2>3. CASE Come(loop) \/ Within(loop)
    BY <2>1, <2>3 DEF AloneInv, InStep, TypeOK, Deadlines, Come, Within, Asks, Loads, Compares,
       Clears, Zeroes, AgentFails, GoesOffline, AgentAnswers, GoesOnline, Goes, Admitted, Served, Off
  <2>4. CASE UNCHANGED vars
    BY <2>1, <2>4 DEF AloneInv, InStep, vars
  <2> QED
    BY <2>2, <2>3, <2>4 DEF Next
<1> QED
  BY <1>1, <1>2 DEF AloneInv

\* The failures the breaker has counted: one that is about to open it is not
\* counted yet, and the transition back has forgotten them all at once.
Counted == IF At("goOffline") THEN failures - 1
           ELSE IF At("zero") THEN 0 ELSE failures

LEMMA StepIsABreakerStep ==
  ASSUME NEW loop, Threads = {loop}, AloneInv, [Next]_vars
  PROVE  [Breaker!Next]_<<Counted, offlineUntil>>
<1> USE BreakerAssumption
<1>1. loop \in Threads /\ TypeOK /\ failures \in Nat /\ offlineUntil \in Deadlines
  BY DEF AloneInv, TypeOK
<1>2. \A where : At(where) <=> pc[loop] = where
  BY DEF At
<1>3. \A where : At(where)' <=> pc'[loop] = where
  BY DEF At
<1>5. CASE Clock
  BY <1>1, <1>2, <1>3, <1>5 DEF Clock, Older, Deadlines, Off, Counted, Breaker!Next, Breaker!Clock
<1>6. CASE Come(loop) \/ Loads(loop) \/ Compares(loop)
  <2>1. UNCHANGED <<failures, offlineUntil>>
    BY <1>6 DEF Come, Asks, Loads, Compares
  <2>2. pc[loop] \notin {"goOffline", "zero"} /\ pc'[loop] \notin {"goOffline", "zero"}
    BY <1>1, <1>6 DEF Come, Asks, Loads, Compares, Goes, Admitted, TypeOK
  <2> QED
    BY <1>2, <1>3, <2>1, <2>2 DEF Counted
<1>7. CASE Clears(loop)
  <2>1. pc[loop] = "clear" /\ pc'[loop] = "zero" /\ offlineUntil = 0 /\ offlineUntil' = Off
    BY <1>1, <1>7 DEF Clears, Goes, AloneInv, InStep, TypeOK
  <2>2. Counted' = 0
    BY <1>3, <2>1 DEF Counted
  <2> QED
    BY <2>1, <2>2 DEF Off, Breaker!Next, Breaker!TryAgain, Breaker!Off, Counted
<1>8. CASE Zeroes(loop)
  <2>1. /\ pc[loop] = "zero" /\ pc'[loop] \notin {"goOffline", "zero"}
        /\ failures' = 0 /\ UNCHANGED offlineUntil
    BY <1>1, <1>8 DEF Zeroes, Goes, Admitted, TypeOK
  <2> QED
    BY <1>2, <1>3, <2>1 DEF Counted
<1>9. CASE AgentFails(loop)
  <2>1. /\ pc[loop] = "inner" /\ failures' = failures + 1
        /\ pc'[loop] = IF failures' >= MaxFailures THEN "goOffline" ELSE "idle"
        /\ offlineUntil = Off /\ UNCHANGED offlineUntil
    BY <1>1, <1>9 DEF AgentFails, Goes, AloneInv, InStep, TypeOK
  <2>2. Counted = failures
    BY <1>2, <2>1 DEF Counted
  <2>3. Counted' = IF failures' >= MaxFailures THEN failures' - 1 ELSE failures'
    BY <1>3, <2>1 DEF Counted
  <2> QED
    BY <1>1, <2>1, <2>2, <2>3 DEF Off, Breaker!Next, Breaker!Fails, Breaker!Off, Counted
<1>10. CASE GoesOffline(loop)
  <2>1. /\ pc[loop] = "goOffline" /\ pc'[loop] = "idle" /\ UNCHANGED failures
        /\ offlineUntil = Off /\ offlineUntil' = Window /\ failures >= MaxFailures
    BY <1>1, <1>10 DEF GoesOffline, Goes, AloneInv, InStep, TypeOK
  <2>2. Counted = failures - 1
    BY <1>2, <2>1 DEF Counted
  <2>3. Counted' = failures
    BY <1>3, <2>1 DEF Counted
  <2> QED
    BY <1>1, <2>1, <2>2, <2>3 DEF Off, Breaker!Next, Breaker!Fails, Breaker!Off, Counted
<1>11. CASE AgentAnswers(loop)
  <2>1. /\ pc[loop] = "inner" /\ pc'[loop] = "online" /\ failures' = 0
        /\ offlineUntil = Off /\ UNCHANGED offlineUntil
    BY <1>1, <1>11 DEF AgentAnswers, Goes, AloneInv, InStep, TypeOK
  <2>2. Counted' = 0
    BY <1>3, <2>1 DEF Counted
  <2> QED
    BY <2>1, <2>2 DEF Off, Breaker!Next, Breaker!Succeeds, Breaker!Off, Counted
<1>12. CASE GoesOnline(loop)
  <2>1. /\ pc[loop] = "online" /\ pc'[loop] = "idle"
        /\ offlineUntil = Off /\ UNCHANGED <<failures, offlineUntil>>
    BY <1>1, <1>12 DEF GoesOnline, Goes, AloneInv, InStep, TypeOK, Off
  <2> QED
    BY <1>2, <1>3, <2>1 DEF Counted
<1>13. CASE UNCHANGED vars
  BY <1>2, <1>3, <1>13 DEF vars, Counted
<1> QED
  BY <1>5, <1>6, <1>7, <1>8, <1>9, <1>10, <1>11, <1>12, <1>13 DEF Next, Within, Come

\* fallback.go:12: with one goroutine the atomics implement the breaker that
\* takes every decision at once.
THEOREM AloneIsACircuitBreaker ==
  ASSUME NEW loop, Threads = {loop} PROVE Spec => IsACircuitBreaker
<1>1. Init => Breaker!Init
  BY DEF Init, Breaker!Init, At, Off, Breaker!Off
<1>2. AloneInv /\ [Next]_vars => [Breaker!Next]_<<Counted, offlineUntil>>
  BY StepIsABreakerStep
<1>3. RecentInv /\ AloneInv /\ [Next]_vars => AloneInv'
  BY AloneInvariance
<1> QED
  BY <1>1, <1>2, <1>3, InitAlone, InitIsRecent, RecentInvariance, PTL
  DEF Spec, IsACircuitBreaker, Breaker!Spec, Counted

----------------------------------------------------------------------------
(* Under the conversation the offline mode takes its own steps, or none. *)

LEMMA StepOfFallback == [NextC]_all => [Next]_vars
<1> SUFFICES ASSUME [NextC]_all PROVE [Next]_vars
  OBVIOUS
<1>1. CASE (Clock \/ \E t \in Threads : Comes(t)) /\ UNCHANGED talk
  BY <1>1 DEF Comes, Come, Next
<1>2. CASE ResetSession
  BY <1>2 DEF ResetSession
<1>3. ASSUME NEW t \in Threads, Proceeds(t) PROVE [Next]_vars
  <2>1. CASE Outside(t)
    BY <2>1 DEF Outside, Within, Next
  <2>2. ASSUME NEW again, Fails(t, again) PROVE [Next]_vars
    BY <2>2 DEF Fails, Stays, Within, Next
  <2>3. CASE SendLoads(t) \/ SendStores(t) \/ ReplyLoads(t) \/ LocalSends(t)
    BY <2>3 DEF SendLoads, SendStores, ReplyLoads, LocalSends, Stays
  <2>4. CASE SendFails(t) \/ LocalFails(t)
    BY <2>2, <2>4 DEF SendFails, LocalFails
  <2>5. CASE ReplyStores(t) \/ LocalAnswers(t)
    BY <2>5 DEF ReplyStores, LocalAnswers, Stays, Within, Next
  <2> QED
    BY <1>3, <2>1, <2>3, <2>4, <2>5 DEF Proceeds, Gemini, Local
<1>4. CASE UNCHANGED all
  BY <1>4 DEF all, vars
<1> QED
  BY <1>1, <1>2, <1>3, <1>4 DEF NextC

\* fallback.go:12: whatever the requests do inside the agent, the agent that
\* wraps it behaves as Fallback says.
THEOREM ConversationIsAFallback == SpecC => Spec
<1>1. InitC => Init
  BY DEF InitC
<1> QED
  BY <1>1, StepOfFallback, PTL DEF Spec, SpecC

\* fallback.go:15, for the agent with its requests: no operator is turned away
\* on account of a failure older than the window.
THEOREM TalkAnswersAreFresh == SpecC => OfflineAnswersAreRecent
  BY ConversationIsAFallback, OfflineAnswersAreFresh

----------------------------------------------------------------------------
(* Types. *)

\* A request that is under way has something it sends, and a reply that is about
\* to be stored is one.
Sending(c) == /\ c.at # "send" => c.sends # "none"
              /\ c.at = "reply" => c.reply # "none"
TalkInv == TypeOK /\ TalkOK /\ \A t \in Threads : Sending(call[t])

CallsOK == /\ call \in [Threads -> Calls]
           /\ \A t \in Threads : pc[t] # "inner" => call[t] = NoCall
           /\ \A t \in Threads : Sending(call[t])

LEMMA HistoryTypes ==
  ASSUME TalkOK
  PROVE  /\ Opened(era) \in Histories
         /\ \A h \in Histories, kind \in Kinds : Appended(h, kind) \in Histories
  BY DEF TalkOK, Opened, Start, Histories, Entries, Kinds, Appended, Entry

LEMMA Zeros == 0 \in 0 .. MaxClears /\ 0 \in 0 .. MaxAttempts - 1 /\ 0 \in 0 .. MaxTurns
  BY ConversationAssumption

LEMMA FirstTypes == Opened(0) \in Histories /\ NoCall \in Calls /\ Sending(NoCall)
  BY ConversationAssumption DEF Opened, Start, Histories, Entries, Kinds, NoCall, Calls, Sending

LEMMA TalkFacts ==
  TalkInv <=> /\ TypeOK /\ CallsOK
              /\ provider \in {"gemini", "local"}
              /\ session \in Histories /\ era \in 0 .. MaxClears /\ crossed \in BOOLEAN
  BY DEF TalkInv, TalkOK, CallsOK

LEMMA InitTalk == InitC => TalkInv
<1> SUFFICES ASSUME InitC PROVE TalkInv
  OBVIOUS
<1>1. TypeOK
  BY InitIsRecent DEF InitC, RecentInv
<1>2. /\ provider \in {"gemini", "local"} /\ session = Opened(0) /\ era = 0 /\ crossed = FALSE
      /\ call = [t \in Threads |-> NoCall]
  BY DEF InitC
<1>3. CallsOK
  BY <1>2, FirstTypes DEF CallsOK
<1> QED
  BY <1>1, <1>2, <1>3, FirstTypes, Zeros, TalkFacts

\* A request that goes on or ends leaves every request well-formed.
LEMMA CallTypes ==
  ASSUME NEW t \in Threads, TypeOK, CallsOK,
         \/ \E c \in Calls : Sending(c) /\ Stays(t, c) /\ pc[t] = "inner"
         \/ AgentFails(t) /\ Ends(t)
         \/ AgentAnswers(t) /\ Ends(t)
  PROVE  CallsOK'
<1>1. CASE \E c \in Calls : Sending(c) /\ Stays(t, c) /\ pc[t] = "inner"
  <2>1. PICK c \in Calls : Sending(c) /\ Stays(t, c) /\ pc[t] = "inner"
    BY <1>1
  <2>2. call' = [call EXCEPT ![t] = c] /\ pc' = pc
    BY <2>1 DEF Stays, vars
  <2>3. \A u \in Threads : call'[u] = IF u = t THEN c ELSE call[u]
    BY <2>2 DEF CallsOK
  <2> QED
    BY <2>1, <2>2, <2>3 DEF CallsOK, Sending
<1>2. CASE (AgentFails(t) \/ AgentAnswers(t)) /\ Ends(t)
  <2>1. \A u \in Threads : u # t => pc'[u] = pc[u]
    BY <1>2 DEF AgentFails, AgentAnswers, Goes, TypeOK
  <2>2. call' = [call EXCEPT ![t] = NoCall]
    BY <1>2 DEF Ends
  <2>3. \A u \in Threads : call'[u] = IF u = t THEN NoCall ELSE call[u]
    BY <2>2 DEF CallsOK
  <2> QED
    BY <2>1, <2>2, <2>3, FirstTypes DEF CallsOK, Sending
<1> QED
  BY <1>1, <1>2

LEMMA FailsTypes ==
  ASSUME NEW t \in Threads, TypeOK, CallsOK, NEW again \in Calls, Sending(again),
         again.tries = call[t].tries, pc[t] = "inner", Fails(t, again)
  PROVE  CallsOK'
<1>1. CASE call[t].tries + 1 < MaxAttempts /\ Stays(t, [again EXCEPT !.tries = @ + 1])
  <2>1. [again EXCEPT !.tries = @ + 1] \in Calls
    BY <1>1, ConversationAssumption DEF Calls
  <2>2. Sending([again EXCEPT !.tries = @ + 1])
    BY DEF Calls, Sending
  <2> QED
    BY <1>1, <2>1, <2>2, CallTypes
<1>2. CASE AgentFails(t) /\ Ends(t)
  BY <1>2, CallTypes
<1> QED
  BY <1>1, <1>2 DEF Fails

\* What a step inside the agent does to the session and to the requests.
LEMMA AgentTypes ==
  ASSUME TalkInv, NEW t \in Threads, Gemini(t) \/ Local(t)
  PROVE  session' \in Histories /\ CallsOK'
<1>1. /\ TypeOK /\ CallsOK /\ session \in Histories /\ era \in 0 .. MaxClears /\ TalkOK
      /\ call[t] \in Calls /\ Sending(call[t])
  BY TalkFacts DEF CallsOK, TalkInv
<1>2. CASE SendLoads(t)
  <2>1. PICK what \in Sent(t) :
          Stays(t, [call[t] EXCEPT !.at = "append", !.sends = what,
                                   !.held = era, !.view = session])
    BY <1>2 DEF SendLoads
  <2>2. what \in {"question", "analysis", "result"}
    BY <1>1 DEF Sent, Calls
  <2> DEFINE c == [call[t] EXCEPT !.at = "append", !.sends = what,
                                  !.held = era, !.view = session]
  <2>3. c \in Calls /\ Sending(c)
    BY <1>1, <2>2 DEF Calls, Sending
  <2> QED
    BY <1>1, <1>2, <2>1, <2>3, CallTypes DEF SendLoads, Inside
<1>3. CASE SendStores(t)
  <2> DEFINE c == [call[t] EXCEPT !.at = "wait", !.view = Opened(0)]
  <2>1. c \in Calls /\ Sending(c)
    BY <1>1, <1>3, FirstTypes DEF Calls, Sending, SendStores, Inside
  <2>2. CallsOK'
    BY <1>1, <1>3, <2>1, CallTypes DEF SendStores, Inside
  <2>3. call[t].sends \in Kinds /\ call[t].view \in Histories
    BY <1>1, <1>3 DEF Calls, Sending, Kinds, SendStores, Inside
  <2> QED
    BY <1>1, <1>3, <2>2, <2>3, HistoryTypes DEF SendStores, Appends
<1>4. CASE SendFails(t) \/ LocalFails(t)
  <2> DEFINE c == [call[t] EXCEPT !.at = "send", !.held = 0]
  <2>1. c \in Calls /\ Sending(c) /\ c.tries = call[t].tries
    BY <1>1, Zeros DEF Calls, Sending
  <2>2. CASE SendFails(t)
    BY <1>1, <2>1, <2>2, FailsTypes DEF SendFails, Fails, Inside
  <2>3. CASE LocalFails(t)
    BY <1>1, <2>3, FailsTypes DEF LocalFails, Fails, Inside
  <2> QED
    BY <1>4, <2>2, <2>3
<1>5. CASE ReplyLoads(t)
  <2>1. PICK reply \in {"call", "answer"} :
          Stays(t, [call[t] EXCEPT !.at = "reply", !.reply = reply, !.tries = 0,
                                   !.view = IF call[t].held = era THEN session ELSE Opened(0)])
    BY <1>5 DEF ReplyLoads
  <2> DEFINE c == [call[t] EXCEPT !.at = "reply", !.reply = reply, !.tries = 0,
                                  !.view = IF call[t].held = era THEN session ELSE Opened(0)]
  <2>2. c \in Calls /\ Sending(c)
    BY <1>1, <1>5, FirstTypes, Zeros DEF Calls, Sending, ReplyLoads, Inside
  <2> QED
    BY <1>1, <1>5, <2>1, <2>2, CallTypes DEF ReplyLoads, Inside
<1>6. CASE ReplyStores(t)
  <2>1. call[t].reply \in Kinds /\ call[t].view \in Histories
    BY <1>1, <1>6 DEF Calls, Sending, Kinds, ReplyStores, Inside
  <2>2. session' \in Histories
    BY <1>1, <1>6, <2>1, HistoryTypes DEF ReplyStores, Appends
  <2> DEFINE c == [NoCall EXCEPT !.at = "send", !.sends = "result",
                                 !.turns = call[t].turns + 1]
  <2>3. CASE ToolsRun(t)
    <3>1. call[t].turns + 1 \in 0 .. MaxTurns
      BY <1>1, <2>3, ConversationAssumption DEF ToolsRun, Calls
    <3>2. c \in Calls /\ Sending(c)
      BY <3>1, FirstTypes DEF Calls, Sending, NoCall
    <3> QED
      BY <1>1, <1>6, <2>2, <2>3, <3>2, CallTypes DEF ReplyStores, Inside
  <2>4. CASE ~ToolsRun(t)
    BY <1>1, <1>6, <2>2, <2>4, CallTypes DEF ReplyStores
  <2> QED
    BY <2>3, <2>4
<1>7. CASE LocalSends(t)
  <2>1. PICK what \in Sent(t) :
          /\ session' = IF what = "question" THEN Appended(session, "question") ELSE session
          /\ Stays(t, [call[t] EXCEPT !.at = "wait", !.sends = what])
    BY <1>7 DEF LocalSends
  <2>2. what \in {"question", "analysis", "result"}
    BY <1>1 DEF Sent, Calls
  <2> DEFINE c == [call[t] EXCEPT !.at = "wait", !.sends = what]
  <2>3. c \in Calls /\ Sending(c)
    BY <1>1, <2>2 DEF Calls, Sending
  <2>4. CallsOK'
    BY <1>1, <1>7, <2>1, <2>3, CallTypes DEF LocalSends, Inside
  <2> QED
    BY <1>1, <2>1, <2>4, HistoryTypes DEF Kinds
<1>8. CASE LocalAnswers(t)
  <2>1. CallsOK'
    BY <1>1, <1>8, CallTypes DEF LocalAnswers
  <2> QED
    BY <1>1, <1>8, <2>1, HistoryTypes DEF LocalAnswers, Kinds
<1> QED
  BY <1>2, <1>3, <1>4, <1>5, <1>6, <1>7, <1>8 DEF Gemini, Local

LEMMA TalkInvariance ==
  ASSUME RecentInv, TalkInv, [NextC]_all PROVE TalkInv'
<1>1. TypeOK'
  BY RecentInvariance, StepOfFallback DEF RecentInv
<1>2. /\ TypeOK /\ CallsOK /\ session \in Histories /\ era \in 0 .. MaxClears /\ TalkOK
      /\ provider \in {"gemini", "local"} /\ crossed \in BOOLEAN
  BY TalkFacts DEF TalkInv
<1>3. TwoInside' \in BOOLEAN /\ TwoInside \in BOOLEAN
  BY DEF TwoInside
<1>4. TalkInv' <=> /\ TypeOK' /\ CallsOK'
                   /\ provider' \in {"gemini", "local"}
                   /\ session' \in Histories /\ era' \in 0 .. MaxClears /\ crossed' \in BOOLEAN
  BY DEF TalkInv, TalkOK, CallsOK
<1>5. CASE (Clock \/ \E t \in Threads : Comes(t)) /\ UNCHANGED talk
  <2>1. \A t \in Threads : pc'[t] # "inner" => pc[t] # "inner"
    BY <1>2, <1>5 DEF Clock, Comes, Asks, TypeOK
  <2> QED
    BY <1>1, <1>2, <1>4, <1>5, <2>1 DEF talk, CallsOK, Sending
<1>6. CASE ResetSession
  <2>1. Opened(era') \in Histories /\ era' \in 0 .. MaxClears
    BY <1>2, <1>6, ConversationAssumption
    DEF ResetSession, Opened, Start, Histories, Entries, Kinds
  <2>2. session' = Opened(era') /\ crossed' = TwoInside /\ UNCHANGED <<pc, provider, call>>
    BY <1>6 DEF ResetSession, vars
  <2> QED
    BY <1>1, <1>2, <1>3, <1>4, <2>1, <2>2 DEF CallsOK, Sending
<1>7. ASSUME NEW t \in Threads, Proceeds(t) PROVE TalkInv'
  <2>1. UNCHANGED <<provider, era>> /\ crossed' = (crossed \/ TwoInside')
    BY <1>7 DEF Proceeds, Crosses
  <2>2. crossed' \in BOOLEAN
    BY <1>3, <1>2, <2>1
  <2>3. CASE Outside(t)
    <3>1. \A u \in Threads : pc'[u] # "inner" => pc[u] # "inner"
      BY <1>2, <2>3
      DEF Outside, Loads, Compares, Clears, Zeroes, GoesOffline, GoesOnline, Goes, TypeOK
    <3> QED
      BY <1>1, <1>2, <1>4, <2>1, <2>2, <2>3, <3>1 DEF Outside, CallsOK, Sending
  <2>4. CASE Gemini(t) \/ Local(t)
    BY <1>1, <1>2, <1>4, <2>1, <2>2, <2>4, AgentTypes
  <2> QED
    BY <1>7, <2>3, <2>4 DEF Proceeds
<1>8. CASE UNCHANGED all
  BY <1>1, <1>2, <1>4, <1>8 DEF all, talk, vars, CallsOK, Sending
<1> QED
  BY <1>5, <1>6, <1>7, <1>8 DEF NextC

\* The requests and the session keep to their types, and attempts and turns to
\* their bounds.
THEOREM ConversationTypeCorrect == SpecC => []TalkOK
<1>1. TalkInv => TalkOK
  BY DEF TalkInv
<1>2. InitC => RecentInv
  BY InitIsRecent DEF InitC
<1>3. RecentInv /\ TalkInv /\ [NextC]_all => RecentInv' /\ TalkInv'
  BY RecentInvariance, StepOfFallback, TalkInvariance
<1> QED
  BY <1>1, <1>2, <1>3, InitTalk, PTL DEF SpecC

----------------------------------------------------------------------------
(* Clearing the session. *)

\* What a request is about to store belongs to the session it was begun in: it
\* is of the present era, or the session it goes into is nobody's any more.
OfItsEra(c) == /\ c.held <= era
               /\ c.at \in {"append", "reply"} /\ c.held = era => OfEra(c.view, era)
EraInv == ClearIsFinal /\ \A t \in Threads : OfItsEra(call[t])

\* Appending to a history of the present era gives one of the present era.
LEMMA AppendedEra ==
  \A h, kind : OfEra(h, era) => OfEra(Appended(h, kind), era)
  BY DEF OfEra, Appended, Entry

\* A request that is not storing anything is of no particular era.
LEMMA NoCallEra == ASSUME TalkOK PROVE OfItsEra(NoCall)
  BY DEF OfItsEra, NoCall, TalkOK

LEMMA InitEra == InitC => EraInv
  BY DEF InitC, EraInv, ClearIsFinal, OfEra, Opened, Start, OfItsEra, NoCall

\* Each thread's request is as it was, but for that of t.
LEMMA EraOfCalls ==
  ASSUME TalkInv, EraInv, era' = era, OfEra(session', era),
         NEW t \in Threads, NEW c, OfItsEra(c), call' = [call EXCEPT ![t] = c]
  PROVE  EraInv'
<1>1. \A u \in Threads : call'[u] = IF u = t THEN c ELSE call[u]
  BY DEF TalkInv, TalkOK
<1>2. \A u \in Threads : OfItsEra(call'[u])
  BY <1>1 DEF EraInv
<1>3. \A u \in Threads : OfItsEra(call[u])'
  BY <1>2 DEF OfItsEra, OfEra
<1> QED
  BY <1>3 DEF EraInv, ClearIsFinal, OfEra

LEMMA AgentEra ==
  ASSUME TalkInv, EraInv, NEW t \in Threads, Gemini(t) \/ Local(t), era' = era
  PROVE  EraInv'
<1>1. /\ call[t] \in Calls /\ OfItsEra(call[t]) /\ OfEra(session, era) /\ era \in Nat
      /\ TalkOK /\ OfItsEra(NoCall)
  BY NoCallEra DEF TalkInv, TalkOK, EraInv, ClearIsFinal
<1>2. CASE SendLoads(t)
  <2>1. PICK what \in Sent(t) :
          Stays(t, [call[t] EXCEPT !.at = "append", !.sends = what,
                                   !.held = era, !.view = session])
    BY <1>2 DEF SendLoads
  <2>2. OfItsEra([call[t] EXCEPT !.at = "append", !.sends = what,
                                 !.held = era, !.view = session])
    BY <1>1 DEF OfItsEra, Calls
  <2> QED
    BY <1>1, <1>2, <2>1, <2>2, EraOfCalls DEF SendLoads, Stays
<1>3. CASE SendStores(t)
  <2>1. OfItsEra([call[t] EXCEPT !.at = "wait", !.view = Opened(0)])
    BY <1>1 DEF OfItsEra, Calls
  <2>2. OfEra(session', era)
    BY <1>1, <1>3, AppendedEra DEF SendStores, Inside, Appends, OfItsEra
  <2> QED
    BY <1>3, <2>1, <2>2, EraOfCalls DEF SendStores, Stays
<1>4. ASSUME NEW again, again \in Calls, again.at \in {"send", "wait"}, again.held <= era,
             Fails(t, again)
      PROVE  EraInv'
  <2>1. OfItsEra([again EXCEPT !.tries = @ + 1])
    BY <1>4 DEF OfItsEra, Calls
  <2>2. OfEra(session', era)
    BY <1>1, <1>4 DEF Fails
  <2>3. CASE Stays(t, [again EXCEPT !.tries = @ + 1])
    BY <2>1, <2>2, <2>3, EraOfCalls DEF Stays
  <2>4. CASE Ends(t)
    BY <1>1, <2>2, <2>4, EraOfCalls DEF Ends
  <2> QED
    BY <1>4, <2>3, <2>4 DEF Fails
<1>5. CASE SendFails(t)
  <2> DEFINE c == [call[t] EXCEPT !.at = "send", !.held = 0]
  <2>1. c \in Calls
    BY <1>1, Zeros DEF Calls
  <2>2. c.at = "send" /\ c.held = 0 /\ 0 <= era
    BY <1>1 DEF Calls
  <2> QED
    BY <1>4, <1>5, <2>1, <2>2 DEF SendFails
<1>6. CASE LocalFails(t)
  BY <1>1, <1>4, <1>6 DEF LocalFails, Inside, OfItsEra
<1>7. CASE ReplyLoads(t)
  <2>1. PICK reply \in {"call", "answer"} :
          Stays(t, [call[t] EXCEPT !.at = "reply", !.reply = reply, !.tries = 0,
                                   !.view = IF call[t].held = era THEN session ELSE Opened(0)])
    BY <1>7 DEF ReplyLoads
  <2>2. OfItsEra([call[t] EXCEPT !.at = "reply", !.reply = reply, !.tries = 0,
                                 !.view = IF call[t].held = era THEN session ELSE Opened(0)])
    BY <1>1 DEF OfItsEra, Calls
  <2> QED
    BY <1>1, <1>7, <2>1, <2>2, EraOfCalls DEF ReplyLoads, Stays
<1>8. CASE ReplyStores(t)
  <2>1. OfEra(session', era)
    BY <1>1, <1>8, AppendedEra DEF ReplyStores, Inside, Appends, OfItsEra
  <2>2. OfItsEra([NoCall EXCEPT !.at = "send", !.sends = "result",
                                !.turns = call[t].turns + 1])
    BY <1>1 DEF OfItsEra, NoCall
  <2> QED
    BY <1>1, <1>8, <2>1, <2>2, EraOfCalls DEF ReplyStores, Stays, Ends
<1>9. CASE LocalSends(t)
  <2>1. PICK what \in Sent(t) :
          /\ session' = IF what = "question" THEN Appended(session, "question") ELSE session
          /\ Stays(t, [call[t] EXCEPT !.at = "wait", !.sends = what])
    BY <1>9 DEF LocalSends
  <2>2. OfItsEra([call[t] EXCEPT !.at = "wait", !.sends = what])
    BY <1>1 DEF OfItsEra, Calls
  <2> QED
    BY <1>1, <2>1, <2>2, AppendedEra, EraOfCalls DEF Stays
<1>10. CASE LocalAnswers(t)
  BY <1>1, <1>10, AppendedEra, EraOfCalls DEF LocalAnswers, Ends
<1> QED
  BY <1>2, <1>3, <1>5, <1>6, <1>7, <1>8, <1>9, <1>10 DEF Gemini, Local

LEMMA EraInvariance == ASSUME TalkInv, EraInv, [NextC]_all PROVE EraInv'
<1>1. ASSUME UNCHANGED <<session, era, call>> PROVE EraInv'
  BY <1>1 DEF EraInv, ClearIsFinal, OfEra, OfItsEra
<1>2. CASE ResetSession
  <2>1. era' = era + 1 /\ session' = Opened(era') /\ UNCHANGED call /\ era \in Nat
    BY <1>2 DEF ResetSession, TalkInv, TalkOK
  <2>2. OfEra(session', era')
    BY <2>1 DEF OfEra, Opened, Start
  <2>3. \A t \in Threads : call[t].held \in Nat /\ call[t].held <= era
    BY DEF TalkInv, TalkOK, Calls, EraInv, OfItsEra
  <2>4. \A t \in Threads : call'[t].held < era'
    BY <2>1, <2>3
  <2> QED
    BY <2>1, <2>2, <2>3, <2>4 DEF EraInv, ClearIsFinal, OfEra, OfItsEra
<1>3. ASSUME NEW t \in Threads, Proceeds(t) PROVE EraInv'
  BY <1>1, <1>3, AgentEra DEF Proceeds, Outside
<1> QED
  BY <1>1, <1>2, <1>3 DEF NextC, all, talk

\* inline.go:27: what was sent before the session was cleared never comes back
\* into it, whichever requests were under way.
THEOREM ClearedIsGone == SpecC => []ClearIsFinal
<1>1. EraInv => ClearIsFinal
  BY DEF EraInv
<1>2. InitC => RecentInv
  BY InitIsRecent DEF InitC
<1>3. RecentInv /\ TalkInv /\ EraInv /\ [NextC]_all => RecentInv' /\ TalkInv' /\ EraInv'
  BY RecentInvariance, StepOfFallback, TalkInvariance, EraInvariance
<1> QED
  BY <1>1, <1>2, <1>3, InitTalk, InitEra, PTL DEF SpecC

----------------------------------------------------------------------------
(* The order of the session. *)

\* A request c of thread t, beside the session h of era e; quiet: no two requests
\* have crossed.  Only the loop sends questions and results, and the session is
\* not replaced while it does; what a lone request is storing follows what it
\* has seen, what it waits for an answer to is the last entry, and results are
\* sent after a call for them.
Fits(t, c, h, e, quiet) ==
  /\ c.sends \in {"question", "result"} => t = Loop
  /\ provider = "gemini" =>
       /\ t = Loop /\ c.at # "send" => c.held = e
       /\ quiet /\ c.held = e /\ c.at \in {"append", "reply"} => c.view = h
       /\ quiet /\ c.held = e /\ c.at \in {"wait", "reply"} => h.last.kind = c.sends
       /\ quiet /\ c.sends = "result" /\ c.at \in {"send", "append"}
            => h.last.kind \in {"call", "result"}
  /\ provider = "local" =>
       /\ c.at \in {"send", "wait"}
       /\ c.at = "send" => c.sends = "none"
       /\ c.at = "wait" /\ c.sends = "question" => h.last.kind = "question"

OrderInv == /\ SessionIsInOrder /\ LocalIsInOrder
            /\ TwoInside => crossed
            /\ \A t \in Threads : Fits(t, call[t], session, era, ~crossed)

LEMMA InitOrder == InitC => OrderInv
<1> SUFFICES ASSUME InitC PROVE OrderInv
  OBVIOUS
<1>1. InOrder(session)
  BY DEF InitC, InOrder, Opened, Start, MayFollow
<1>2. ~TwoInside
  BY DEF InitC, Init, TwoInside
<1>3. \A t \in Threads : Fits(t, call[t], session, era, ~crossed)
  BY DEF InitC, Fits, NoCall
<1> QED
  BY <1>1, <1>2, <1>3 DEF OrderInv, SessionIsInOrder, LocalIsInOrder

\* Without a request every session fits, and a request that fits a session fits
\* it when others may have crossed.
LEMMA NoCallFits == \A t, h, e, quiet : Fits(t, NoCall, h, e, quiet)
  BY DEF Fits, NoCall

LEMMA FitsCrossed == \A t, c, h, e, quiet : Fits(t, c, h, e, quiet) => Fits(t, c, h, e, FALSE)
  BY DEF Fits

\* What may be appended to a history that is in order.
LEMMA AppendedOrder ==
  ASSUME NEW h \in Histories, NEW kind
  PROVE  /\ kind \in {"question", "analysis"} => InOrder(Appended(h, kind))
         /\ kind = "result" /\ h.last.kind \in {"call", "result"} => InOrder(Appended(h, kind))
         /\ kind \in {"call", "answer"} /\ h.last.kind \in {"question", "analysis", "result"}
              => InOrder(Appended(h, kind))
         /\ Appended(h, kind).last.kind = kind
<1>1. /\ Appended(h, kind).before.kind = h.last.kind
      /\ Appended(h, kind).last.kind = kind
      /\ h.last.kind \in Kinds
  BY DEF Appended, Entry, Histories, Entries
<1> QED
  BY <1>1 DEF InOrder, MayFollow, Kinds

\* A step of t inside GeminiAgent, as long as nobody has crossed: t's request
\* fits the session that the step leaves.
LEMMA GeminiOrder ==
  ASSUME TalkInv, OrderInv, NEW t \in Threads, Gemini(t), provider = "gemini"
  PROVE  \E c : /\ call' = [call EXCEPT ![t] = c]
                /\ Fits(t, c, session', era, ~crossed)
                /\ ~crossed => InOrder(session')
<1>1. /\ call[t] \in Calls /\ Sending(call[t]) /\ session \in Histories
      /\ Fits(t, call[t], session, era, ~crossed)
      /\ ~crossed => InOrder(session)
  BY DEF TalkInv, TalkOK, OrderInv, SessionIsInOrder
<1>2. CASE SendLoads(t)
  <2>1. PICK what \in Sent(t) :
          Stays(t, [call[t] EXCEPT !.at = "append", !.sends = what,
                                   !.held = era, !.view = session])
    BY <1>2 DEF SendLoads
  <2> DEFINE c == [call[t] EXCEPT !.at = "append", !.sends = what,
                                  !.held = era, !.view = session]
  <2>2. /\ what \in {"question", "result"} => t = Loop
        /\ what = "result" => call[t].sends = "result"
    BY <1>1 DEF Sent, Fits
  <2>3. /\ c.at = "append" /\ c.sends = what /\ c.held = era /\ c.view = session
        /\ call[t].at = "send"
    BY <1>1, <1>2 DEF Calls, SendLoads, Inside
  <2>4. Fits(t, c, session, era, ~crossed)
    BY <1>1, <2>2, <2>3 DEF Fits
  <2> QED
    BY <1>1, <1>2, <2>1, <2>4 DEF SendLoads, Stays
<1>3. CASE SendStores(t)
  <2> DEFINE c == [call[t] EXCEPT !.at = "wait", !.view = Opened(0)]
  <2>1. /\ c.at = "wait" /\ c.sends = call[t].sends /\ c.held = call[t].held
        /\ call[t].at = "append" /\ call[t].sends \in {"question", "analysis", "result"}
    BY <1>1, <1>3 DEF Calls, Sending, SendStores, Inside
  <2>2. ~crossed /\ call[t].held = era =>
          session' = Appended(session, call[t].sends)
    BY <1>1, <1>3, <2>1 DEF SendStores, Appends, Fits
  <2>3. ~crossed /\ call[t].held = era =>
          InOrder(session') /\ session'.last.kind = call[t].sends
    BY <1>1, <2>1, <2>2, AppendedOrder DEF Fits
  <2>4. call[t].held # era => session' = session
    BY <1>3 DEF SendStores, Appends
  <2>5. Fits(t, c, session', era, ~crossed)
    BY <1>1, <2>1, <2>3 DEF Fits
  <2> QED
    BY <1>1, <1>3, <2>3, <2>4, <2>5 DEF SendStores, Stays
<1>4. CASE SendFails(t)
  <2> DEFINE again == [call[t] EXCEPT !.at = "send", !.held = 0]
  <2> DEFINE c == [again EXCEPT !.tries = @ + 1]
  <2>1. /\ c.at = "send" /\ c.sends = call[t].sends /\ c.held = 0 /\ call[t].at = "wait"
        /\ session' = session
    BY <1>1, <1>4 DEF Calls, SendFails, Fails, Inside
  <2>2. Fits(t, c, session, era, ~crossed)
    BY <1>1, <2>1 DEF Fits
  <2>3. CASE Stays(t, c)
    BY <1>1, <2>1, <2>2, <2>3 DEF Stays
  <2>4. CASE Ends(t)
    BY <1>1, <2>1, <2>4, NoCallFits DEF Ends
  <2> QED
    BY <1>4, <2>3, <2>4 DEF SendFails, Fails
<1>5. CASE ReplyLoads(t)
  <2>1. PICK reply \in {"call", "answer"} :
          Stays(t, [call[t] EXCEPT !.at = "reply", !.reply = reply, !.tries = 0,
                                   !.view = IF call[t].held = era THEN session ELSE Opened(0)])
    BY <1>5 DEF ReplyLoads
  <2> DEFINE c == [call[t] EXCEPT !.at = "reply", !.reply = reply, !.tries = 0,
                                  !.view = IF call[t].held = era THEN session ELSE Opened(0)]
  <2>2. /\ c.at = "reply" /\ c.sends = call[t].sends /\ c.held = call[t].held
        /\ c.held = era => c.view = session
        /\ call[t].at = "wait"
    BY <1>1, <1>5 DEF Calls, ReplyLoads, Inside
  <2>3. Fits(t, c, session, era, ~crossed)
    BY <1>1, <2>2 DEF Fits
  <2> QED
    BY <1>1, <1>5, <2>1, <2>3 DEF ReplyLoads, Stays
<1>6. CASE ReplyStores(t)
  <2>1. /\ call[t].at = "reply" /\ call[t].reply \in {"call", "answer"}
        /\ call[t].sends \in {"question", "analysis", "result"}
    BY <1>1, <1>6 DEF Calls, Sending, ReplyStores, Inside
  <2>2. ~crossed /\ call[t].held = era =>
          /\ session' = Appended(session, call[t].reply)
          /\ session.last.kind = call[t].sends
    BY <1>1, <1>6, <2>1 DEF ReplyStores, Appends, Fits
  <2>3. ~crossed /\ call[t].held = era =>
          InOrder(session') /\ session'.last.kind = call[t].reply
    BY <1>1, <2>1, <2>2, AppendedOrder
  <2>4. ~crossed => InOrder(session')
    BY <1>1, <1>6, <2>3 DEF ReplyStores, Appends
  <2> DEFINE c == [NoCall EXCEPT !.at = "send", !.sends = "result",
                                 !.turns = call[t].turns + 1]
  <2>5. CASE ToolsRun(t)
    <3>1. t = Loop /\ call[t].held = era /\ call[t].reply = "call"
      BY <1>1, <2>1, <2>5 DEF ToolsRun, Fits
    <3>2. c.at = "send" /\ c.sends = "result"
      BY DEF NoCall
    <3>3. Fits(t, c, session', era, ~crossed)
      BY <2>3, <3>1, <3>2 DEF Fits
    <3> QED
      BY <1>6, <2>4, <2>5, <3>3 DEF ReplyStores, Stays
  <2>6. CASE ~ToolsRun(t)
    BY <1>6, <2>4, <2>6, NoCallFits DEF ReplyStores, Ends
  <2> QED
    BY <2>5, <2>6
<1> QED
  BY <1>2, <1>3, <1>4, <1>5, <1>6 DEF Gemini

\* A step of t inside LocalAgent; only the loop's changes the history.
LEMMA LocalOrder ==
  ASSUME TalkInv, OrderInv, NEW t \in Threads, Local(t), provider = "local"
  PROVE  \E c : /\ call' = [call EXCEPT ![t] = c]
                /\ Fits(t, c, session', era, ~crossed)
                /\ InOrder(session')
                /\ session' = session \/ t = Loop
<1>1. /\ call[t] \in Calls /\ session \in Histories /\ InOrder(session)
      /\ Fits(t, call[t], session, era, ~crossed)
  BY DEF TalkInv, TalkOK, OrderInv, LocalIsInOrder
<1>2. CASE LocalSends(t)
  <2>1. PICK what \in Sent(t) :
          /\ session' = IF what = "question" THEN Appended(session, "question") ELSE session
          /\ Stays(t, [call[t] EXCEPT !.at = "wait", !.sends = what])
    BY <1>2 DEF LocalSends
  <2> DEFINE c == [call[t] EXCEPT !.at = "wait", !.sends = what]
  <2>2. what \in {"question", "analysis"} /\ (what = "question" => t = Loop)
    BY <1>1, <1>2 DEF Sent, Fits, LocalSends, Inside
  <2>3. c.at = "wait" /\ c.sends = what
    BY <1>1 DEF Calls
  <2>4. InOrder(session') /\ (what = "question" => session'.last.kind = "question")
    BY <1>1, <2>1, AppendedOrder
  <2>5. Fits(t, c, session', era, ~crossed)
    BY <2>2, <2>3, <2>4 DEF Fits
  <2> QED
    BY <2>1, <2>2, <2>4, <2>5 DEF Stays
<1>3. CASE LocalFails(t)
  <2> DEFINE c == [call[t] EXCEPT !.tries = @ + 1]
  <2>1. c.at = "wait" /\ c.sends = call[t].sends /\ call[t].at = "wait" /\ session' = session
    BY <1>1, <1>3 DEF Calls, LocalFails, Inside, Fails
  <2>2. Fits(t, c, session, era, ~crossed)
    BY <1>1, <2>1 DEF Fits
  <2>3. CASE Stays(t, c)
    BY <1>1, <2>1, <2>2, <2>3 DEF Stays
  <2>4. CASE Ends(t)
    BY <1>1, <2>1, <2>4, NoCallFits DEF Ends
  <2> QED
    BY <1>3, <2>3, <2>4 DEF LocalFails, Fails
<1>4. CASE LocalAnswers(t)
  <2>1. call[t].sends = "question" => t = Loop /\ session.last.kind = "question"
    BY <1>1, <1>4 DEF LocalAnswers, Inside, Fits
  <2>2. InOrder(session') /\ (session' = session \/ t = Loop)
    BY <1>1, <1>4, <2>1, AppendedOrder DEF LocalAnswers
  <2> QED
    BY <1>4, <2>2, NoCallFits DEF LocalAnswers, Ends
<1> QED
  BY <1>2, <1>3, <1>4 DEF Local

LEMMA AgentStepOrder ==
  ASSUME TalkInv, OrderInv, NEW t \in Threads, Gemini(t) \/ Local(t), Crosses,
         UNCHANGED <<provider, era>>
  PROVE  OrderInv'
<1>1. PICK c : /\ call' = [call EXCEPT ![t] = c]
               /\ Fits(t, c, session', era, ~crossed)
               /\ (provider = "gemini" /\ ~crossed) \/ provider = "local" => InOrder(session')
               /\ provider = "local" => session' = session \/ t = Loop
  <2>1. CASE Gemini(t) /\ provider = "gemini"
    BY <2>1, GeminiOrder
  <2>2. CASE Local(t) /\ provider = "local"
    BY <2>2, LocalOrder
  <2>3. CASE (SendStores(t) \/ ReplyStores(t)) /\ provider = "local"
    BY <2>3 DEF SendStores, ReplyStores, Inside, OrderInv, Fits
  <2> QED
    BY <2>1, <2>2, <2>3
    DEF Gemini, Local, SendLoads, SendFails, ReplyLoads, LocalSends, LocalFails, LocalAnswers,
        TalkInv, TalkOK
<1>2. \A u \in Threads : call'[u] = IF u = t THEN c ELSE call[u]
  BY <1>1 DEF TalkInv, TalkOK
<1>3. pc[t] = "inner"
  BY DEF Gemini, Local, SendLoads, SendStores, SendFails, ReplyLoads, ReplyStores,
         LocalSends, LocalFails, LocalAnswers, Inside
<1>4. (TwoInside' => crossed') /\ (crossed => crossed')
  BY DEF Crosses
<1>5. ASSUME NEW u \in Threads PROVE Fits(u, call'[u], session', era, ~crossed')
  <2>1. CASE u = t
    BY <1>1, <1>2, <1>4, <2>1, FitsCrossed DEF Fits
  <2>2. CASE u # t /\ ~crossed'
    <3>1. pc[u] # "inner"
      BY <1>3, <1>4, <2>2 DEF OrderInv, TwoInside
    <3> QED
      BY <1>2, <2>2, <3>1, NoCallFits DEF TalkInv, TalkOK
  <2>3. CASE u # t /\ crossed'
    <3>1. Fits(u, call[u], session, era, ~crossed)
      BY DEF OrderInv
    <3> QED
      BY <1>1, <1>2, <2>3, <3>1 DEF Fits
  <2> QED
    BY <2>1, <2>2, <2>3
<1>6. (SessionIsInOrder /\ LocalIsInOrder)'
  BY <1>1, <1>4 DEF SessionIsInOrder, LocalIsInOrder, InOrder
<1>7. \A u \in Threads : Fits(u, call[u], session, era, ~crossed)'
  BY <1>5 DEF Fits
<1> QED
  BY <1>4, <1>6, <1>7 DEF OrderInv

LEMMA OrderInvariance ==
  ASSUME TalkInv, EraInv, OrderInv, [NextC]_all PROVE OrderInv'
<1>1. ASSUME UNCHANGED <<session, era, call, provider>>,
             TwoInside' => crossed', crossed => crossed', crossed \in BOOLEAN, crossed' \in BOOLEAN
      PROVE  OrderInv'
  <2>1. (SessionIsInOrder /\ LocalIsInOrder)'
    BY <1>1 DEF OrderInv, SessionIsInOrder, LocalIsInOrder, InOrder
  <2>2. ASSUME NEW u \in Threads PROVE Fits(u, call[u], session, era, ~crossed)'
    BY <1>1 DEF OrderInv, Fits
  <2> QED
    BY <1>1, <2>1, <2>2 DEF OrderInv
<1>2. crossed \in BOOLEAN
  BY DEF TalkInv, TalkOK
<1>3. CASE (Clock \/ \E t \in Threads : Comes(t)) /\ UNCHANGED talk
  <2>1. TwoInside' => TwoInside
    BY <1>3 DEF Clock, Comes, Asks, TwoInside, TalkInv, TypeOK
  <2> QED
    BY <1>1, <1>2, <1>3, <2>1 DEF talk, OrderInv
<1>4. CASE ResetSession
  <2>1. /\ session' = Opened(era') /\ era' = era + 1 /\ crossed' = TwoInside
        /\ UNCHANGED <<pc, provider, call>> /\ pc[Loop] = "idle" /\ era \in Nat
    BY <1>4 DEF ResetSession, vars, TalkInv, TalkOK
  <2>2. InOrder(session')
    BY <2>1 DEF InOrder, Opened, Start, MayFollow
  <2>3. ASSUME NEW u \in Threads PROVE Fits(u, call[u], session', era', ~crossed')
    <3>1. /\ Fits(u, call[u], session, era, ~crossed) /\ call[u] \in Calls
          /\ call[u].held # era'
      BY <2>1 DEF OrderInv, EraInv, OfItsEra, TalkInv, TalkOK, Calls
    <3>2. CASE u = Loop
      BY <2>1, <3>2, NoCallFits DEF TalkInv, TalkOK
    <3>3. CASE u # Loop
      BY <3>1, <3>3 DEF Fits
    <3> QED
      BY <3>2, <3>3
  <2>4. TwoInside' <=> TwoInside
    BY <2>1 DEF TwoInside
  <2>5. (SessionIsInOrder /\ LocalIsInOrder)'
    BY <2>2 DEF SessionIsInOrder, LocalIsInOrder, InOrder
  <2>6. \A u \in Threads : Fits(u, call[u], session, era, ~crossed)'
    BY <2>1, <2>3 DEF Fits
  <2> QED
    BY <2>1, <2>4, <2>5, <2>6 DEF OrderInv
<1>5. ASSUME NEW t \in Threads, Proceeds(t) PROVE OrderInv'
  <2>1. CASE Outside(t)
    <3>1. crossed' = (crossed \/ TwoInside') /\ UNCHANGED <<session, era, call, provider>>
      BY <1>5, <2>1 DEF Proceeds, Crosses, Outside
    <3>2. crossed' \in BOOLEAN
      BY <1>2, <3>1 DEF TwoInside
    <3> QED
      BY <1>1, <1>2, <3>1, <3>2
  <2>2. CASE Gemini(t) \/ Local(t)
    BY <1>5, <2>2, AgentStepOrder DEF Proceeds
  <2> QED
    BY <1>5, <2>1, <2>2 DEF Proceeds
<1>6. CASE UNCHANGED all
  BY <1>1, <1>2, <1>6 DEF all, talk, vars, TwoInside, OrderInv
<1> QED
  BY <1>3, <1>4, <1>5, <1>6 DEF NextC

LEMMA OrderIsKept == SpecC => []OrderInv
<1>1. InitC => RecentInv
  BY InitIsRecent DEF InitC
<1>2. RecentInv /\ TalkInv /\ EraInv /\ OrderInv /\ [NextC]_all
        => RecentInv' /\ TalkInv' /\ EraInv' /\ OrderInv'
  BY RecentInvariance, StepOfFallback, TalkInvariance, EraInvariance, OrderInvariance
<1> QED
  BY <1>1, <1>2, InitTalk, InitEra, InitOrder, PTL DEF SpecC

\* gemini.go:277: Gemini's history makes sense whatever fails, is given up or is
\* cleared, as long as no two requests cross.
THEOREM SessionMakesSense == SpecC => []SessionIsInOrder
<1>1. OrderInv => SessionIsInOrder
  BY DEF OrderInv
<1> QED
  BY <1>1, OrderIsKept, PTL

\* local.go:55: the local model's history is questions with their answers,
\* whichever requests reach it and whatever fails or is cleared.
THEOREM LocalHistoryMakesSense == SpecC => []LocalIsInOrder
<1>1. OrderInv => LocalIsInOrder
  BY DEF OrderInv
<1> QED
  BY <1>1, OrderIsKept, PTL
=============================================================================
