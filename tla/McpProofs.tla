------------------------------ MODULE McpProofs ------------------------------
(***************************************************************************)
(* Theorems about McpQuery, for every set of queries and providers, every    *)
(* limit of rounds, every table of polling times and every deadline: the     *)
(* types, the status that clients poll, what the search tool reports, and    *)
(* that the API of the provider accepts what the loop sends.                *)
(*                                                                         *)
(* The loop is unfolded along the phases of a query: what is in its locals   *)
(* (Looping), what the store says of it by then (Recorded), and which search *)
(* the results it has collected are about (Searching).  The conversation     *)
(* (IsConversation) and the calls still to be made for its last message      *)
(* (Outstanding) are an invariant of their own, on top of the others; what   *)
(* each API makes of a conversation of any length follows from the lemmas    *)
(* of SequenceLemmas.tla about Select and FlattenSeq.                       *)
(***************************************************************************)
EXTENDS McpQuery, SequenceLemmas

-----------------------------------------------------------------------------
(***************************************************************************)
(* Sequences of anything                                                    *)
(***************************************************************************)

IsSequence(s) == \E S : s \in Seq(S)

LEMMA AppendAny ==
  ASSUME NEW s, IsSequence(s), NEW e
  PROVE  /\ IsSequence(Append(s, e))
         /\ Len(s) \in Nat /\ Len(Append(s, e)) = Len(s) + 1
         /\ \A i \in DOMAIN Append(s, e) :
               (i \in DOMAIN s /\ Append(s, e)[i] = s[i]) \/ Append(s, e)[i] = e
<1>1. PICK S : s \in Seq(S)
  BY DEF IsSequence
<1>2. s \in Seq(S \cup {e}) /\ e \in S \cup {e}
  BY <1>1
<1>3. Append(s, e) \in Seq(S \cup {e})
  BY <1>2
<1>4. Len(s) \in Nat /\ Len(Append(s, e)) = Len(s) + 1
  BY <1>2
<1>5. \A i \in 1 .. (Len(s) + 1) : Append(s, e)[i] = IF i <= Len(s) THEN s[i] ELSE e
  BY <1>2
<1>6. DOMAIN Append(s, e) = 1 .. (Len(s) + 1) /\ DOMAIN s = 1 .. Len(s)
  BY <1>2, <1>3, <1>4
<1>7. \A i \in DOMAIN Append(s, e) :
         (i \in DOMAIN s /\ Append(s, e)[i] = s[i]) \/ Append(s, e)[i] = e
  BY <1>4, <1>5, <1>6
<1> QED
  BY <1>3, <1>4, <1>7 DEF IsSequence

LEMMA Singles ==
  /\ IsSequence(<<>>) /\ Len(<<>>) = 0
  /\ \A e : IsSequence(<<e>>) /\ Len(<<e>>) = 1
<1>1. <<>> \in Seq({}) /\ Len(<<>>) = 0
  OBVIOUS
<1>2. ASSUME NEW e PROVE <<e>> \in Seq({e}) /\ Len(<<e>>) = 1
  OBVIOUS
<1> QED
  BY <1>1, <1>2 DEF IsSequence

-----------------------------------------------------------------------------
(***************************************************************************)
(* The invariant                                                            *)
(***************************************************************************)

Locals == {"tools", "iteration", "messages", "pending", "results"}

\* The locals of the loop: none before and after it; in it, a conversation to which every
\* round has added two messages.
Looping(q) ==
    /\ DOMAIN loop[q] = Locals
    /\ IsSequence(loop[q].messages) /\ IsSequence(loop[q].results)
    /\ loop[q].tools \subseteq ToolName
    /\ loop[q].iteration \in 0 .. MaxIterations
    /\ phase[q] \notin {"asking"} \cup InCall => loop[q] = NoLoop
    /\ phase[q] = "asking" =>
          Len(loop[q].messages) = 1 + 2 * loop[q].iteration /\ loop[q].pending = <<>>
    /\ phase[q] \in InCall =>
          Len(loop[q].messages) = 2 * loop[q].iteration
    /\ \A i \in DOMAIN loop[q].results : loop[q].results[i].outcome \in Outcome

\* The locals of the search tool.
Polling(q) ==
    /\ poll[q] \in [count : 0 .. (Len(PollTimes) - 1), late : BOOLEAN]
    /\ poll[q] # NoPoll => phase[q] = "polling"

\* What the store says of a query.
Recorded(q) ==
    /\ phase[q] = "new" => queryStatus[q] = "unknown"
    /\ phase[q] \in {"starting", "asking", "succeeded", "failed"} \cup InCall
          => queryStatus[q] = "RUNNING"

\* A search has a number, and what was reported of one is in the store.
Searching(q) ==
    /\ phase[q] \in {"submitting", "polling"} => searches[q] \in 1 .. MaxSearches
    /\ \A i \in DOMAIN loop[q].results :
          LET r == loop[q].results[i]
          IN  /\ r.outcome \in {"answer", "failed"} => r.search \in 1 .. MaxSearches
              /\ r.outcome = "answer" => searchStatus[<<q, r.search>>] = "COMPLETE"
              /\ r.outcome = "failed" => searchStatus[<<q, r.search>>] = "Error"

QueryInv(q) == Looping(q) /\ Polling(q) /\ Recorded(q) /\ Searching(q)

Plain ==
    /\ provider \in Provider
    /\ session \in {"none", "connected", "closed"}
    /\ mcpTools \subseteq ToolName
    /\ phase \in [Query -> Phase]
    /\ searches \in [Query -> 0 .. MaxSearches]
    /\ queryStatus \in [Query -> {"unknown", "RUNNING", "COMPLETE", "Error"}]
    /\ searchStatus \in [Search -> {"unknown", "RUNNING", "COMPLETE", "Error"}]
    /\ DOMAIN loop = Query /\ DOMAIN poll = Query

McpInv == Plain /\ \A q \in Query : QueryInv(q)

LEMMA PollTimesTyped == Len(PollTimes) \in Nat \ {0}
<1>1. PollTimes \in Seq(Nat \ {0}) /\ PollTimes # <<>>
  BY McpAssumption
<1> QED
  BY <1>1

LEMMA OneMoreRound ==
  \A k \in 0 .. MaxIterations :
      k < MaxIterations => k + 1 \in 0 .. MaxIterations /\ (1 + 2 * k) + 1 = 2 * (k + 1)
<1>1. MaxIterations \in Nat
  BY McpAssumption
<1> QED
  BY <1>1

LEMMA McpInitially == McpInit => McpInv
<1> SUFFICES ASSUME McpInit PROVE McpInv
  OBVIOUS
<1>1. Plain
  BY McpAssumption DEF McpInit, Plain, Phase
<1>2. ASSUME NEW q \in Query PROVE QueryInv(q)
  <2>1. /\ loop[q] = NoLoop /\ poll[q] = NoPoll /\ phase[q] = "new" /\ searches[q] = 0
        /\ queryStatus[q] = "unknown"
    BY DEF McpInit
  <2>2. Looping(q)
    BY <2>1, Singles, McpAssumption DEF Looping, NoLoop, InCall, Locals
  <2>3. Polling(q)
    BY <2>1, PollTimesTyped DEF Polling, NoPoll
  <2>4. Recorded(q) /\ Searching(q)
    BY <2>1 DEF Recorded, Searching, NoLoop, InCall
  <2> QED
    BY <2>2, <2>3, <2>4 DEF QueryInv
<1> QED
  BY <1>1, <1>2 DEF McpInv

\* The other queries, in a step of q.
OnlyQuery(q) ==
    /\ DOMAIN loop' = Query /\ DOMAIN poll' = Query
    /\ phase' \in [Query -> Phase] /\ searches' \in [Query -> 0 .. MaxSearches]
    /\ queryStatus' \in [Query -> {"unknown", "RUNNING", "COMPLETE", "Error"}]
    /\ \A p \in Query \ {q} :
          /\ phase'[p] = phase[p] /\ loop'[p] = loop[p] /\ poll'[p] = poll[p]
          /\ searches'[p] = searches[p] /\ queryStatus'[p] = queryStatus[p]

LEMMA QueryStep ==
  ASSUME McpInv, NEW q \in Query, OnlyQuery(q), UNCHANGED <<sessionVars, searchStatus>>,
         QueryInv(q)'
  PROVE  McpInv'
<1>1. Plain'
  BY DEF McpInv, Plain, OnlyQuery, sessionVars
<1>2. ASSUME NEW p \in Query, p # q PROVE QueryInv(p)'
  <2>1. QueryInv(p)
    BY DEF McpInv
  <2>2. Looping(p)'
    BY <1>2, <2>1 DEF QueryInv, Looping, OnlyQuery
  <2>3. Polling(p)' /\ Recorded(p)'
    BY <1>2, <2>1 DEF QueryInv, Polling, Recorded, OnlyQuery
  <2>4. Searching(p)'
    BY <1>2, <2>1 DEF QueryInv, Searching, OnlyQuery
  <2> QED
    BY <2>2, <2>3, <2>4 DEF QueryInv
<1> QED
  BY <1>1, <1>2 DEF McpInv

-----------------------------------------------------------------------------
(***************************************************************************)
(* The steps of the loop                                                    *)
(***************************************************************************)

LEMMA HandleRequestStep ==
  ASSUME McpInv, NEW q \in Query, HandleRequest(q)
  PROVE  McpInv'
<1>1. /\ QueryInv(q) /\ Plain /\ phase[q] = "new"
      /\ loop' = loop /\ poll' = poll /\ searches' = searches
      /\ UNCHANGED <<sessionVars, searchStatus>>
  BY DEF McpInv, HandleRequest
<1>2. \/ queryStatus'[q] = "RUNNING" /\ phase'[q] = "starting"
      \/ phase'[q] = "refused"
  BY <1>1 DEF HandleRequest, Goes, Plain, QueryInv, Recorded
<1>3. OnlyQuery(q)
  BY <1>1 DEF HandleRequest, Goes, Plain, OnlyQuery, Phase
<1>4. Looping(q)'
  BY <1>1, <1>2 DEF QueryInv, Looping, InCall
<1>5. Polling(q)' /\ Recorded(q)' /\ Searching(q)'
  BY <1>1, <1>2 DEF QueryInv, Polling, Recorded, Searching, InCall
<1> QED
  BY <1>1, <1>3, <1>4, <1>5, QueryStep DEF QueryInv

LEMMA StartLoopStep ==
  ASSUME McpInv, NEW q \in Query, StartLoop(q)
  PROVE  McpInv'
<1>1. /\ QueryInv(q) /\ Plain /\ phase[q] = "starting" /\ phase'[q] = "asking"
      /\ poll' = poll /\ searches' = searches
      /\ queryStatus' = queryStatus
      /\ UNCHANGED <<sessionVars, searchStatus>>
  BY DEF McpInv, StartLoop, Goes, Plain, storeVars
<1>2. loop[q] = NoLoop
  BY <1>1 DEF QueryInv, Looping, InCall
<1>3. /\ DOMAIN loop' = Query /\ \A p \in Query \ {q} : loop'[p] = loop[p]
      /\ DOMAIN loop'[q] = Locals /\ loop'[q].tools = mcpTools /\ loop'[q].iteration = 0
      /\ loop'[q].messages = <<Message("user", <<Text>>)>>
      /\ loop'[q].pending = <<>> /\ loop'[q].results = <<>>
  BY <1>1, <1>2 DEF StartLoop, Plain, NoLoop, Locals
<1>4. OnlyQuery(q)
  BY <1>1, <1>3 DEF StartLoop, Goes, Plain, OnlyQuery, Phase
<1>5. /\ IsSequence(loop'[q].messages) /\ Len(loop'[q].messages) = 1
      /\ IsSequence(loop'[q].results) /\ DOMAIN loop'[q].results = {}
  BY <1>3, Singles
<1>6. Looping(q)'
  BY <1>1, <1>3, <1>5, McpAssumption DEF Looping, InCall, Plain
<1>7. Polling(q)' /\ Recorded(q)' /\ Searching(q)'
  BY <1>1, <1>5 DEF QueryInv, Polling, Recorded, Searching, InCall
<1> QED
  BY <1>1, <1>4, <1>6, <1>7, QueryStep DEF QueryInv

\* What the loop knew is gone when it ends.
LEMMA EndLoopStep ==
  ASSUME McpInv, NEW q \in Query, NEW p \in {"succeeded", "failed"},
         phase[q] = "asking", EndLoop(q, p),
         UNCHANGED <<sessionVars, poll, searches, storeVars>>
  PROVE  McpInv'
<1>1. /\ QueryInv(q) /\ Plain /\ phase'[q] = p
      /\ poll' = poll /\ searches' = searches /\ queryStatus' = queryStatus
      /\ UNCHANGED <<sessionVars, searchStatus>>
      /\ DOMAIN loop' = Query /\ loop'[q] = NoLoop
  BY DEF McpInv, EndLoop, Goes, Plain, storeVars
<1>2. OnlyQuery(q)
  BY <1>1 DEF EndLoop, Goes, Plain, OnlyQuery, Phase
<1>3. Looping(q)'
  BY <1>1, Singles, McpAssumption DEF Looping, NoLoop, Locals, InCall
<1>4. Polling(q)' /\ Recorded(q)' /\ Searching(q)'
  BY <1>1, Singles DEF QueryInv, Polling, Recorded, Searching, InCall, NoLoop
<1> QED
  BY <1>1, <1>2, <1>3, <1>4, QueryStep DEF QueryInv

\* A round adds the message of the assistant.
LEMMA UseToolsStep ==
  ASSUME McpInv, NEW q \in Query, NEW response,
         phase[q] = "asking", loop[q].iteration < MaxIterations, UseTools(q, response),
         UNCHANGED <<sessionVars, poll, searches, storeVars>>
  PROVE  McpInv'
<1> DEFINE message == Message("assistant", response.content)
<1>1. /\ QueryInv(q) /\ Plain /\ phase'[q] = "calling"
      /\ poll' = poll /\ searches' = searches /\ queryStatus' = queryStatus
      /\ UNCHANGED <<sessionVars, searchStatus>>
  BY DEF McpInv, UseTools, Goes, Plain, storeVars
<1>2. DOMAIN loop[q] = Locals
  BY <1>1 DEF QueryInv, Looping
<1>3. /\ DOMAIN loop' = Query /\ \A p \in Query \ {q} : loop'[p] = loop[p]
      /\ DOMAIN loop'[q] = Locals /\ loop'[q].tools = loop[q].tools
      /\ loop'[q].iteration = loop[q].iteration + 1
      /\ loop'[q].messages = Append(loop[q].messages, message)
      /\ loop'[q].results = <<>>
  BY <1>1, <1>2 DEF UseTools, Plain, Locals
<1>4. OnlyQuery(q)
  BY <1>1, <1>3 DEF UseTools, Goes, Plain, OnlyQuery, Phase
<1>5. /\ IsSequence(loop[q].messages) /\ Len(loop[q].messages) = 1 + 2 * loop[q].iteration
      /\ loop[q].iteration \in 0 .. MaxIterations /\ loop[q].tools \subseteq ToolName
  BY <1>1 DEF QueryInv, Looping
<1> HIDE DEF message
<1>6. /\ IsSequence(loop'[q].messages)
      /\ Len(loop'[q].messages) = 2 * (loop[q].iteration + 1)
      /\ loop[q].iteration + 1 \in 0 .. MaxIterations
  <2>1. /\ IsSequence(loop'[q].messages)
        /\ Len(loop'[q].messages) = Len(loop[q].messages) + 1
    BY <1>3, <1>5, AppendAny
  <2>2. loop[q].iteration \in 0 .. MaxIterations /\ loop[q].iteration < MaxIterations
    BY <1>5
  <2> QED
    BY <1>5, <2>1, <2>2, OneMoreRound
<1>7. IsSequence(loop'[q].results) /\ DOMAIN loop'[q].results = {}
  BY <1>3, Singles
<1>8. Looping(q)'
  BY <1>1, <1>3, <1>5, <1>6, <1>7 DEF Looping, InCall
<1>9. Polling(q)' /\ Recorded(q)' /\ Searching(q)'
  BY <1>1, <1>7 DEF QueryInv, Polling, Recorded, Searching, InCall
<1> QED
  BY <1>1, <1>4, <1>8, <1>9, QueryStep DEF QueryInv

LEMMA GiveUpStep ==
  ASSUME McpInv, NEW q \in Query, GiveUp(q)
  PROVE  McpInv'
BY EndLoopStep DEF GiveUp

LEMMA AskLlmStep ==
  ASSUME McpInv, NEW q \in Query, AskLlm(q)
  PROVE  McpInv'
<1>1. /\ phase[q] = "asking" /\ loop[q].iteration < MaxIterations
      /\ UNCHANGED <<sessionVars, poll, searches, storeVars>>
  BY DEF AskLlm
<1>2. CASE EndLoop(q, "failed")
  BY <1>1, <1>2, EndLoopStep
<1>3. CASE \E r \in ApiResponse(q) :
              /\ Plausible(r)
              /\ LET response == FromApi(provider, r)
                 IN  EndTurn(q, response) \/ UseTools(q, response)
  <2>1. PICK r : EndTurn(q, FromApi(provider, r)) \/ UseTools(q, FromApi(provider, r))
    BY <1>3
  <2>2. CASE EndTurn(q, FromApi(provider, r))
    <3>1. PICK p \in {"succeeded", "failed"} : EndLoop(q, p)
      BY <2>2 DEF EndTurn
    <3> QED
      BY <1>1, <3>1, EndLoopStep
  <2>3. CASE UseTools(q, FromApi(provider, r))
    BY <1>1, <2>3, UseToolsStep
  <2> QED
    BY <2>1, <2>2, <2>3
<1> QED
  BY <1>2, <1>3 DEF AskLlm

LEMMA ReturnResultsStep ==
  ASSUME McpInv, NEW q \in Query, ReturnResults(q)
  PROVE  McpInv'
<1>1. /\ QueryInv(q) /\ Plain /\ phase[q] = "calling" /\ phase'[q] = "asking"
      /\ poll' = poll /\ searches' = searches /\ queryStatus' = queryStatus
      /\ UNCHANGED <<sessionVars, searchStatus>> /\ loop[q].pending = <<>>
  BY DEF McpInv, ReturnResults, Goes, Plain, storeVars
<1>2. /\ DOMAIN loop[q] = Locals /\ IsSequence(loop[q].messages)
      /\ Len(loop[q].messages) = 2 * loop[q].iteration
      /\ loop[q].iteration \in 0 .. MaxIterations /\ loop[q].tools \subseteq ToolName
  BY <1>1 DEF QueryInv, Looping, InCall
<1>3. PICK message :
         loop' = [loop EXCEPT ![q].messages = Append(@, message), ![q].results = <<>>]
  BY DEF ReturnResults
<1>4. /\ DOMAIN loop' = Query /\ \A p \in Query \ {q} : loop'[p] = loop[p]
      /\ DOMAIN loop'[q] = Locals /\ loop'[q].tools = loop[q].tools
      /\ loop'[q].iteration = loop[q].iteration
      /\ loop'[q].messages = Append(loop[q].messages, message)
      /\ loop'[q].pending = <<>> /\ loop'[q].results = <<>>
  BY <1>1, <1>2, <1>3 DEF Plain, Locals
<1>5. OnlyQuery(q)
  BY <1>1, <1>4 DEF ReturnResults, Goes, Plain, OnlyQuery, Phase
<1>6. /\ IsSequence(loop'[q].messages)
      /\ Len(loop'[q].messages) = 1 + 2 * loop[q].iteration
  <2>1. /\ IsSequence(loop'[q].messages)
        /\ Len(loop'[q].messages) = Len(loop[q].messages) + 1
    BY <1>2, <1>4, AppendAny
  <2> QED
    BY <1>2, <2>1, McpAssumption
<1>7. IsSequence(loop'[q].results) /\ DOMAIN loop'[q].results = {}
  BY <1>4, Singles
<1>8. Looping(q)'
  BY <1>1, <1>2, <1>4, <1>6, <1>7 DEF Looping, InCall
<1>9. Polling(q)' /\ Recorded(q)' /\ Searching(q)'
  BY <1>1, <1>7 DEF QueryInv, Polling, Recorded, Searching, InCall
<1> QED
  BY <1>1, <1>5, <1>8, <1>9, QueryStep DEF QueryInv

LEMMA SaveOutcomeStep ==
  ASSUME McpInv, NEW q \in Query, SaveOutcome(q)
  PROVE  McpInv'
<1>1. /\ QueryInv(q) /\ Plain /\ phase[q] \in {"succeeded", "failed"} /\ phase'[q] = "ended"
      /\ loop' = loop /\ poll' = poll /\ searches' = searches
      /\ UNCHANGED <<sessionVars, searchStatus>>
  BY DEF McpInv, SaveOutcome, Goes, Plain
<1>2. OnlyQuery(q)
  BY <1>1 DEF SaveOutcome, Goes, Plain, OnlyQuery, Phase
<1>3. Looping(q)'
  BY <1>1 DEF QueryInv, Looping, InCall
<1>4. Polling(q)' /\ Recorded(q)' /\ Searching(q)'
  BY <1>1 DEF QueryInv, Polling, Recorded, Searching, InCall
<1> QED
  BY <1>1, <1>2, <1>3, <1>4, QueryStep DEF QueryInv

-----------------------------------------------------------------------------
(***************************************************************************)
(* The calls of tools                                                       *)
(***************************************************************************)

\* A call leaves a result, and the result of a search is what the store says of its job.
LEMMA ReturnStep ==
  ASSUME McpInv, NEW q \in Query, NEW o \in Outcome, phase[q] \in InCall, Return(q, o),
         UNCHANGED <<sessionVars, searches, storeVars>>,
         o \in {"answer", "failed"} => searches[q] \in 1 .. MaxSearches,
         o = "answer" => searchStatus[CurrentSearch(q)] = "COMPLETE",
         o = "failed" => searchStatus[CurrentSearch(q)] = "Error"
  PROVE  McpInv'
<1>1. /\ QueryInv(q) /\ Plain /\ phase'[q] = "calling" /\ poll'[q] = NoPoll
      /\ searches' = searches /\ queryStatus' = queryStatus
      /\ UNCHANGED <<sessionVars, searchStatus>>
  BY DEF McpInv, Return, Goes, Plain, storeVars
<1>2. /\ DOMAIN loop[q] = Locals /\ IsSequence(loop[q].messages)
      /\ IsSequence(loop[q].results)
      /\ Len(loop[q].messages) = 2 * loop[q].iteration
      /\ loop[q].iteration \in 0 .. MaxIterations /\ loop[q].tools \subseteq ToolName
      /\ \A i \in DOMAIN loop[q].results : loop[q].results[i].outcome \in Outcome
  BY <1>1 DEF QueryInv, Looping
<1> DEFINE report == Report(q, o)
<1>3. /\ DOMAIN loop' = Query /\ \A p \in Query \ {q} : loop'[p] = loop[p]
      /\ DOMAIN loop'[q] = Locals /\ loop'[q].tools = loop[q].tools
      /\ loop'[q].iteration = loop[q].iteration
      /\ loop'[q].messages = loop[q].messages
      /\ loop'[q].results = Append(loop[q].results, report)
  BY <1>1, <1>2 DEF Return, Plain, Locals
<1>4. OnlyQuery(q)
  BY <1>1, <1>3 DEF Return, Goes, Plain, OnlyQuery, Phase
<1>5. report.outcome = o /\ report.search = searches[q]
  BY DEF Report
<1> HIDE DEF report
<1>6. /\ IsSequence(loop'[q].results)
      /\ \A i \in DOMAIN loop'[q].results :
            \/ i \in DOMAIN loop[q].results /\ loop'[q].results[i] = loop[q].results[i]
            \/ loop'[q].results[i] = report
  BY <1>2, <1>3, AppendAny
<1>7. Looping(q)'
  BY <1>1, <1>2, <1>3, <1>5, <1>6 DEF Looping, InCall
<1>8. Polling(q)'
  BY <1>1, PollTimesTyped DEF Polling, NoPoll
<1>9. Recorded(q)'
  BY <1>1 DEF QueryInv, Recorded, InCall
<1>10. Searching(q)'
  <2>1. ASSUME NEW i \in DOMAIN loop'[q].results
        PROVE  LET r == loop'[q].results[i]
               IN  /\ r.outcome \in {"answer", "failed"} => r.search \in 1 .. MaxSearches
                   /\ r.outcome = "answer" => searchStatus[<<q, r.search>>] = "COMPLETE"
                   /\ r.outcome = "failed" => searchStatus[<<q, r.search>>] = "Error"
    <3>1. CASE i \in DOMAIN loop[q].results /\ loop'[q].results[i] = loop[q].results[i]
      BY <1>1, <3>1 DEF QueryInv, Searching
    <3>2. CASE loop'[q].results[i] = report
      BY <1>5, <3>2 DEF CurrentSearch
    <3> QED
      BY <1>6, <3>1, <3>2
  <2> QED
    BY <1>1, <2>1 DEF Searching
<1> QED
  BY <1>1, <1>4, <1>7, <1>8, <1>9, <1>10, QueryStep DEF QueryInv

LEMMA FailCallStep ==
  ASSUME McpInv, NEW q \in Query, FailCall(q)
  PROVE  McpInv'
<1>1. phase[q] \in InCall /\ Return(q, "error") /\ UNCHANGED <<sessionVars, searches, storeVars>>
  BY DEF FailCall, InCall
<1> QED
  BY <1>1, ReturnStep DEF Outcome

LEMMA GetSystemMessageStep ==
  ASSUME McpInv, NEW q \in Query, GetSystemMessage(q)
  PROVE  McpInv'
<1>1. /\ phase[q] \in InCall /\ Return(q, "message")
      /\ UNCHANGED <<sessionVars, searches, storeVars>>
  BY DEF GetSystemMessage, InCall
<1> QED
  BY <1>1, ReturnStep DEF Outcome

LEMMA TimeOutStep ==
  ASSUME McpInv, NEW q \in Query, TimeOut(q)
  PROVE  McpInv'
<1>1. /\ phase[q] \in InCall /\ Return(q, "empty")
      /\ UNCHANGED <<sessionVars, searches, storeVars>>
  BY DEF TimeOut, InCall
<1> QED
  BY <1>1, ReturnStep DEF Outcome

LEMMA StartSearchStep ==
  ASSUME McpInv, NEW q \in Query, StartSearch(q)
  PROVE  McpInv'
<1>1. /\ QueryInv(q) /\ Plain /\ phase[q] = "calling" /\ phase'[q] = "submitting"
      /\ loop' = loop /\ poll' = poll /\ queryStatus' = queryStatus
      /\ UNCHANGED <<sessionVars, searchStatus>>
      /\ searches[q] \in 0 .. MaxSearches /\ searches[q] < MaxSearches
      /\ searches'[q] = searches[q] + 1
  BY DEF McpInv, StartSearch, Calls, Goes, Plain, storeVars
<1>2. searches'[q] \in 1 .. MaxSearches
  BY <1>1, McpAssumption
<1>3. /\ searches' \in [Query -> 0 .. MaxSearches]
      /\ \A p \in Query \ {q} : searches'[p] = searches[p]
  BY <1>1, McpAssumption DEF StartSearch, Plain
<1>4. OnlyQuery(q)
  BY <1>1, <1>3 DEF StartSearch, Goes, Plain, OnlyQuery, Phase
<1>5. Looping(q)'
  BY <1>1 DEF QueryInv, Looping, InCall
<1>6. Polling(q)' /\ Recorded(q)' /\ Searching(q)'
  BY <1>1, <1>2 DEF QueryInv, Polling, Recorded, Searching, InCall
<1> QED
  BY <1>1, <1>4, <1>5, <1>6, QueryStep DEF QueryInv

LEMMA WaitStep ==
  ASSUME McpInv, NEW q \in Query, CallApi(q) \/ InsertJob(q)
  PROVE  McpInv'
<1>1. /\ QueryInv(q) /\ Plain /\ phase[q] \in InCall
      /\ \/ phase[q] = "calling" /\ phase'[q] = "requesting"
         \/ phase[q] = "submitting" /\ phase'[q] = "polling"
      /\ loop' = loop /\ poll' = poll /\ searches' = searches /\ queryStatus' = queryStatus
      /\ UNCHANGED <<sessionVars, searchStatus>>
  BY DEF McpInv, CallApi, Calls, InsertJob, Goes, Plain, storeVars, InCall
<1>2. OnlyQuery(q)
  BY <1>1 DEF CallApi, InsertJob, Goes, Plain, OnlyQuery, Phase
<1>3. Looping(q)'
  BY <1>1 DEF QueryInv, Looping, InCall
<1>4. Polling(q)' /\ Recorded(q)' /\ Searching(q)'
  BY <1>1 DEF QueryInv, Polling, Recorded, Searching, InCall
<1> QED
  BY <1>1, <1>2, <1>3, <1>4, QueryStep DEF QueryInv

\* A step of the polls alone.
LEMMA PollsStep ==
  ASSUME McpInv, NEW q \in Query, phase[q] = "polling",
         DOMAIN poll' = Query, \A p \in Query \ {q} : poll'[p] = poll[p],
         poll'[q] \in [count : 0 .. (Len(PollTimes) - 1), late : BOOLEAN],
         UNCHANGED <<sessionVars, phase, loop, searches, storeVars>>
  PROVE  McpInv'
<1>1. /\ QueryInv(q) /\ Plain /\ phase' = phase /\ loop' = loop
      /\ searches' = searches /\ queryStatus' = queryStatus
      /\ UNCHANGED <<sessionVars, searchStatus>>
  BY DEF McpInv, storeVars
<1>2. OnlyQuery(q)
  BY <1>1 DEF Plain, OnlyQuery
<1>3. Looping(q)' /\ Recorded(q)' /\ Searching(q)'
  BY <1>1 DEF QueryInv, Looping, Recorded, Searching
<1>4. Polling(q)'
  BY <1>1 DEF Polling
<1> QED
  BY <1>1, <1>2, <1>3, <1>4, QueryStep DEF QueryInv

LEMMA DeadlinePassesStep ==
  ASSUME McpInv, NEW q \in Query, DeadlinePasses(q)
  PROVE  McpInv'
<1>1. phase[q] = "polling" /\ UNCHANGED <<sessionVars, phase, loop, searches, storeVars>>
  BY DEF DeadlinePasses
<1>2. DOMAIN poll = Query /\ poll[q] \in [count : 0 .. (Len(PollTimes) - 1), late : BOOLEAN]
  BY DEF McpInv, Plain, QueryInv, Polling
<1>3. /\ DOMAIN poll' = Query /\ \A p \in Query \ {q} : poll'[p] = poll[p]
      /\ poll'[q] \in [count : 0 .. (Len(PollTimes) - 1), late : BOOLEAN]
  BY <1>2 DEF DeadlinePasses
<1> QED
  BY <1>1, <1>3, PollsStep

LEMMA PollStep ==
  ASSUME McpInv, NEW q \in Query, Poll(q)
  PROVE  McpInv'
<1> DEFINE n == poll[q].count + 1
<1>1. phase[q] = "polling" /\ UNCHANGED <<sessionVars, searches, storeVars>>
  BY DEF Poll
<1>2. /\ searches[q] \in 1 .. MaxSearches
      /\ DOMAIN poll = Query
      /\ poll[q] \in [count : 0 .. (Len(PollTimes) - 1), late : BOOLEAN]
  BY <1>1 DEF McpInv, Plain, QueryInv, Polling, Searching
<1>3. ASSUME NEW o \in {"answer", "failed", "none", "invalid"}, Return(q, o),
             o = "answer" => searchStatus[CurrentSearch(q)] = "COMPLETE",
             o = "failed" => searchStatus[CurrentSearch(q)] = "Error"
      PROVE  McpInv'
  <2>1. o \in Outcome /\ phase[q] \in InCall
    BY <1>1 DEF Outcome, InCall
  <2> QED
    BY <1>1, <1>2, <1>3, <2>1, ReturnStep
<1>4. ASSUME n # Len(PollTimes), poll' = [poll EXCEPT ![q].count = n], UNCHANGED <<loop, phase>>
      PROVE  McpInv'
  <2>1. n \in 0 .. (Len(PollTimes) - 1)
    BY <1>2, <1>4, PollTimesTyped
  <2>2. /\ DOMAIN poll' = Query /\ \A p \in Query \ {q} : poll'[p] = poll[p]
        /\ poll'[q] \in [count : 0 .. (Len(PollTimes) - 1), late : BOOLEAN]
    BY <1>2, <1>4, <2>1
  <2> QED
    BY <1>1, <1>4, <2>2, PollsStep
<1>5. CASE IsDone(q) /\ Return(q, IF searchStatus[CurrentSearch(q)] = "Error"
                                    THEN "failed" ELSE "answer")
  <2>1. CASE searchStatus[CurrentSearch(q)] = "Error"
    BY <1>3, <1>5, <2>1
  <2>2. CASE searchStatus[CurrentSearch(q)] # "Error"
    BY <1>3, <1>5, <2>2 DEF IsDone
  <2> QED
    BY <2>1, <2>2
<1>6. CASE IF n = Len(PollTimes)
             THEN Return(q, "none")
             ELSE poll' = [poll EXCEPT ![q].count = n] /\ UNCHANGED <<loop, phase>>
  BY <1>3, <1>4, <1>6
<1>7. CASE Return(q, "invalid")
  BY <1>3, <1>7
<1> QED
  BY <1>5, <1>6, <1>7 DEF Poll

-----------------------------------------------------------------------------
(***************************************************************************)
(* The session and the other side of the channel                            *)
(***************************************************************************)

LEMMA SessionStep ==
  ASSUME McpInv, ConnectSession \/ ListTools \/ CloseSession
  PROVE  McpInv'
<1>1. Plain'
  BY DEF McpInv, Plain, ConnectSession, ListTools, CloseSession, storeVars
<1>2. ASSUME NEW q \in Query PROVE QueryInv(q)'
  <2>1. QueryInv(q) /\ UNCHANGED <<phase, loop, poll, searches, storeVars>>
    BY DEF McpInv, ConnectSession, ListTools, CloseSession
  <2> QED
    BY <2>1 DEF QueryInv, Looping, Polling, Recorded, Searching, storeVars
<1> QED
  BY <1>1, <1>2 DEF McpInv

\* The execution of a job leaves an outcome alone.
LEMMA ExecuteSearchStep ==
  ASSUME McpInv, ExecuteSearch
  PROVE  McpInv'
<1>1. /\ UNCHANGED <<sessionVars, phase, loop, poll, searches, queryStatus>>
      /\ \E j \in Search : Searches!Run(j) \/ Searches!End(j)
  BY DEF ExecuteSearch
<1>2. searchStatus \in [Search -> {"unknown", "RUNNING", "COMPLETE", "Error"}]
  BY DEF McpInv, Plain
<1>3. /\ searchStatus' \in [Search -> {"unknown", "RUNNING", "COMPLETE", "Error"}]
      /\ \A j \in Search :
            searchStatus[j] \in {"COMPLETE", "Error"} => searchStatus'[j] = searchStatus[j]
  BY <1>1, <1>2 DEF Searches!Run, Searches!End, Searches!Final
<1>4. Plain'
  BY <1>1, <1>3 DEF McpInv, Plain, sessionVars
<1>5. ASSUME NEW q \in Query PROVE QueryInv(q)'
  <2>1. QueryInv(q)
    BY DEF McpInv
  <2>2. Looping(q)' /\ Polling(q)' /\ Recorded(q)'
    BY <1>1, <2>1 DEF QueryInv, Looping, Polling, Recorded
  <2>3. Searching(q)'
    <3>1. \A n \in 1 .. MaxSearches : <<q, n>> \in Search
      BY DEF Search
    <3> QED
      BY <1>1, <1>3, <2>1, <3>1 DEF QueryInv, Searching
  <2> QED
    BY <2>1, <2>2, <2>3 DEF QueryInv
<1> QED
  BY <1>4, <1>5 DEF McpInv

-----------------------------------------------------------------------------
(***************************************************************************)
(* Every step                                                               *)
(***************************************************************************)

LEMMA McpStep == McpInv /\ [McpNext]_mcpVars => McpInv'
<1> SUFFICES ASSUME McpInv, [McpNext]_mcpVars PROVE McpInv'
  OBVIOUS
<1>1. CASE ConnectSession \/ ListTools \/ CloseSession
  BY <1>1, SessionStep
<1>2. CASE ExecuteSearch
  BY <1>2, ExecuteSearchStep
<1>3. ASSUME NEW q \in Query, HandleRequest(q) \/ LoopStep(q) \/ DeadlinePasses(q)
      PROVE  McpInv'
  <2>1. CASE HandleRequest(q)
    BY <2>1, HandleRequestStep
  <2>2. CASE StartLoop(q)
    BY <2>2, StartLoopStep
  <2>3. CASE AskLlm(q)
    BY <2>3, AskLlmStep
  <2>4. CASE ReturnResults(q)
    BY <2>4, ReturnResultsStep
  <2>5. CASE SaveOutcome(q)
    BY <2>5, SaveOutcomeStep
  <2>6. CASE FailCall(q)
    BY <2>6, FailCallStep
  <2>7. CASE GetSystemMessage(q)
    BY <2>7, GetSystemMessageStep
  <2>8. CASE StartSearch(q)
    BY <2>8, StartSearchStep
  <2>9. CASE CallApi(q) \/ InsertJob(q)
    BY <2>9, WaitStep
  <2>10. CASE TimeOut(q)
    BY <2>10, TimeOutStep
  <2>11. CASE Poll(q)
    BY <2>11, PollStep
  <2>12. CASE DeadlinePasses(q)
    BY <2>12, DeadlinePassesStep
  <2>13. CASE GiveUp(q)
    BY <2>13, GiveUpStep
  <2> QED
    BY <1>3, <2>1, <2>2, <2>3, <2>4, <2>5, <2>6, <2>7, <2>8, <2>9, <2>10, <2>11, <2>12,
       <2>13 DEF LoopStep, OwnStep, LoseSession
<1>4. CASE UNCHANGED mcpVars
  <2>1. Plain'
    BY <1>4 DEF McpInv, Plain, mcpVars, sessionVars, storeVars
  <2>2. ASSUME NEW q \in Query PROVE QueryInv(q)'
    BY <1>4 DEF McpInv, QueryInv, Looping, Polling, Recorded, Searching,
                mcpVars, sessionVars, storeVars
  <2> QED
    BY <2>1, <2>2 DEF McpInv
<1> QED
  BY <1>1, <1>2, <1>3, <1>4 DEF McpNext

LEMMA McpInvariant == McpSpec => []McpInv
BY McpInitially, McpStep, PTL DEF McpSpec

-----------------------------------------------------------------------------
(***************************************************************************)
(* Contents                                                                 *)
(***************************************************************************)

Name == ToolName \cup {""}
Id == Seq(Nat) \cup Seq(Name)
Block == [type : {"text", "tool_use", "tool_result"}, id : Id, name : Name]
Content == Seq(Block)
Role == {"user", "assistant"}
Turn == [role : Role, content : Content]
Messages == Seq(Turn)

HasNoUse(content) == \A k \in 1 .. Len(content) : ~ IsUse(content[k])
HasNoResult(content) == \A k \in 1 .. Len(content) : ~ IsResult(content[k])

\* The content has the results of calls, in order.
IsAnswer(content, calls) ==
    /\ Len(content) = Len(calls)
    /\ \A k \in 1 .. Len(calls) : content[k] = Result(calls[k])

LEMMA UsesOf ==
  ASSUME NEW content \in Content
  PROVE  /\ Uses(content) \in Content /\ Len(Uses(content)) \in Nat
         /\ HasNoUse(content) => Uses(content) = <<>>
         /\ \A k \in 1 .. Len(Uses(content)) : Uses(content)[k] \in Block
<1> DEFINE S == {b \in ToSet(content) : IsUse(b)}
<1>1. Uses(content) = Select(content, S)
  BY DEF Uses
<1>2. content \in Seq(Block)
  BY DEF Content
<1>3. DOMAIN content = 1 .. Len(content)
  BY <1>2
<1>4. HasNoUse(content) => \A i \in DOMAIN content : content[i] \notin S
  BY <1>3 DEF HasNoUse
<1> HIDE DEF S
<1>5. /\ Select(content, S) \in Seq(Block \cap S)
      /\ (\A i \in DOMAIN content : content[i] \notin S) => Select(content, S) = <<>>
  BY <1>2, Selections
<1>6. /\ Select(content, S) \in Seq(Block) /\ Len(Select(content, S)) \in Nat
      /\ \A k \in 1 .. Len(Select(content, S)) : Select(content, S)[k] \in Block
  <2> HIDE DEF Block
  <2> QED
    BY <1>5
<1> QED
  BY <1>1, <1>4, <1>5, <1>6 DEF Content

LEMMA ResultsOf ==
  ASSUME NEW content \in Content
  PROVE  /\ HasNoResult(content) => Results(content) = <<>>
         /\ (\A k \in 1 .. Len(content) : IsResult(content[k])) => Results(content) = content
<1> DEFINE S == {b \in ToSet(content) : IsResult(b)}
<1>1. Results(content) = Select(content, S)
  BY DEF Results
<1>2. content \in Seq(Block)
  BY DEF Content
<1>3. DOMAIN content = 1 .. Len(content)
  BY <1>2
<1>4. HasNoResult(content) => \A i \in DOMAIN content : content[i] \notin S
  BY <1>3 DEF HasNoResult
<1>5. (\A k \in 1 .. Len(content) : IsResult(content[k])) => \A i \in DOMAIN content : content[i] \in S
  BY <1>3 DEF ToSet
<1> HIDE DEF S
<1>6. /\ (\A i \in DOMAIN content : content[i] \in S) => Select(content, S) = content
      /\ (\A i \in DOMAIN content : content[i] \notin S) => Select(content, S) = <<>>
  BY <1>2, Selections
<1> QED
  BY <1>1, <1>4, <1>5, <1>6

\* An answer is made of results only.
LEMMA AnswerOf ==
  ASSUME NEW content \in Content, NEW calls \in Content, IsAnswer(content, calls)
  PROVE  /\ HasNoUse(content) /\ Results(content) = content
         /\ \A k \in 1 .. Len(calls) :
               content[k].type = "tool_result" /\ content[k].id = calls[k].id
               /\ content[k].name = calls[k].name
<1>1. ASSUME NEW k \in 1 .. Len(calls)
      PROVE  content[k].type = "tool_result" /\ content[k].id = calls[k].id
             /\ content[k].name = calls[k].name
  <2>1. content[k] = Result(calls[k])
    BY DEF IsAnswer
  <2>2. \A c : Result(c).type = "tool_result" /\ Result(c).id = c.id /\ Result(c).name = c.name
    BY DEF Result
  <2> QED
    BY <2>1, <2>2
<1>2. \A k \in 1 .. Len(content) : IsResult(content[k]) /\ ~ IsUse(content[k])
  BY <1>1 DEF IsAnswer, IsResult, IsUse
<1> QED
  BY <1>1, <1>2, ResultsOf DEF HasNoUse

LEMMA TextBlock == Text \in Block /\ ~ IsUse(Text) /\ ~ IsResult(Text)
<1>1. <<>> \in Id
  BY DEF Id
<1> HIDE DEF Id
<1>2. Text \in Block
  <2>1. "" \in Name
    BY DEF Name
  <2> HIDE DEF Name
  <2> QED
    BY <1>1, <2>1 DEF Text, NoId, Block
<1>3. ~ IsUse(Text) /\ ~ IsResult(Text)
  BY DEF Text, IsUse, IsResult
<1> QED
  BY <1>2, <1>3

\* A call has an id made of numbers, or of the name of its tool, or none.
LEMMA UseBlock ==
  ASSUME NEW id \in Id, NEW name \in Name
  PROVE  Use(id, name) \in Block /\ ~ IsResult(Use(id, name))
BY DEF Use, Block, IsResult

LEMMA ResponseParts ==
  ASSUME NEW q \in Query, NEW r \in ApiResponse(q)
  PROVE  \E names \in BoundedSeq(loop[q].tools, MaxCalls), given \in BOOLEAN :
            \/ r.parts = CallsWith(q, names, given)
            \/ r.parts = <<Text>> \o CallsWith(q, names, given)
<1>1. r.parts \in NewCalls(q) \/ r.parts \in {<<Text>> \o calls : calls \in NewCalls(q)}
  BY DEF ApiResponse
<1>2. PICK calls \in NewCalls(q) : r.parts = calls \/ r.parts = <<Text>> \o calls
  BY <1>1
<1>3. PICK names \in CallNames(q), given \in IdsGiven : calls = CallsWith(q, names, given)
  BY DEF NewCalls
<1>4. names \in BoundedSeq(loop[q].tools, MaxCalls) /\ given \in BOOLEAN
  BY Zenon DEF CallNames, IdsGiven
<1> QED
  BY <1>2, <1>3, <1>4

\* Whatever an API answers, the program's response has texts and calls only.
LEMMA ResponseHasNoResult ==
  ASSUME provider \in Provider, NEW q \in Query, loop[q].tools \subseteq ToolName,
         loop[q].iteration \in Nat, NEW r \in ApiResponse(q)
  PROVE  /\ FromApi(provider, r).content \in Content
         /\ HasNoResult(FromApi(provider, r).content)
<1> DEFINE A == {b \in Block : ~ IsResult(b)}
<1> HIDE DEF A
<1>1. PICK names \in BoundedSeq(loop[q].tools, MaxCalls), given \in BOOLEAN :
         \/ r.parts = CallsWith(q, names, given)
         \/ r.parts = <<Text>> \o CallsWith(q, names, given)
  BY ResponseParts
<1>2. names \in Seq(Name)
  <2>1. PICK z \in {[1 .. m -> loop[q].tools] : m \in 0 .. MaxCalls} : names \in z
    BY <1>1, Zenon DEF BoundedSeq, SeqOf
  <2>2. PICK m \in 0 .. MaxCalls : z = [1 .. m -> loop[q].tools]
    BY <2>1, Zenon
  <2>3. m \in Nat
    BY McpAssumption
  <2>4. loop[q].tools \subseteq Name
    BY DEF Name
  <2> HIDE DEF Name
  <2> QED
    BY <2>1, <2>2, <2>3, <2>4
<1>3. DOMAIN names = 1 .. Len(names) /\ Len(names) \in Nat
  BY <1>2
<1>5. CallsWith(q, names, given) \in Seq(A)
  <2> DEFINE call(k) == Use(IF given THEN <<loop[q].iteration + 1, k>> ELSE NoId, names[k])
  <2>1. ASSUME NEW k \in 1 .. Len(names) PROVE call(k) \in A
    <3>1. names[k] \in Name
      BY <1>2
    <3>2. <<loop[q].iteration + 1, k>> \in Seq(Nat) /\ <<>> \in Seq(Nat)
      <4>1. loop[q].iteration + 1 \in Nat /\ k \in Nat
        BY <1>3
      <4> QED
        BY <4>1
    <3>3. <<loop[q].iteration + 1, k>> \in Id /\ NoId \in Id
      BY <3>2 DEF Id, NoId
    <3> HIDE DEF Name, Id
    <3>4. \A id \in Id : Use(id, names[k]) \in A
      BY <3>1, UseBlock DEF A
    <3> QED
      BY <3>3, <3>4
  <2> HIDE DEF call
  <2>2. [k \in DOMAIN names |-> call(k)] \in Seq(A)
    BY <1>3, <2>1
  <2>3. CallsWith(q, names, given) = [k \in DOMAIN names |-> call(k)]
    BY DEF CallsWith, call
  <2> QED
    BY <2>2, <2>3
<1>6. <<Text>> \in Seq(A)
  <2>1. Text \in A
    BY TextBlock DEF A
  <2> QED
    BY <2>1
<1>7. r.parts \in Seq(A)
  <2>1. \A s, t \in Seq(A) : s \o t \in Seq(A)
    OBVIOUS
  <2>2. <<Text>> \o CallsWith(q, names, given) \in Seq(A)
    BY <1>5, <1>6, <2>1
  <2> QED
    BY <1>1, <1>5, <2>2
<1>8. \A s \in Seq(A) : s \in Content /\ HasNoResult(s)
  <2> TAKE s \in Seq(A)
  <2>1. \A k \in 1 .. Len(s) : s[k] \in A
    OBVIOUS
  <2>2. A \subseteq Block
    BY DEF A
  <2>3. s \in Seq(Block)
    BY <2>2
  <2> QED
    BY <2>1, <2>3 DEF Content, HasNoResult, A
<1>9. FromAnthropic(r).content \in Seq(A)
  BY <1>7 DEF FromAnthropic
<1>10. FromGemini(r).content \in Seq(A)
  <2> DEFINE g(i) == IF IsUse(r.parts[i]) /\ r.parts[i].id = NoId
                       THEN Use(<<r.parts[i].name>>, r.parts[i].name)
                       ELSE r.parts[i]
  <2>1. FromGemini(r).content = [i \in DOMAIN r.parts |-> g(i)]
    BY DEF FromGemini
  <2>2. \A i \in DOMAIN r.parts : g(i) \in A
    <3> TAKE i \in DOMAIN r.parts
    <3>1. r.parts[i] \in A
      BY <1>7
    <3>2. r.parts[i].name \in Name
      BY <3>1 DEF Block, A
    <3> HIDE DEF Name
    <3>3. <<r.parts[i].name>> \in Id
      BY <3>2 DEF Id
    <3>4. Use(<<r.parts[i].name>>, r.parts[i].name) \in A
      BY <3>2, <3>3, UseBlock DEF A
    <3> QED
      BY <3>1, <3>4
  <2> HIDE DEF g
  <2>3. DOMAIN r.parts = 1 .. Len(r.parts) /\ Len(r.parts) \in Nat
    BY <1>7
  <2> QED
    BY <2>1, <2>2, <2>3
<1>11. FromOpenAI(r).content \in Seq(A)
  <2>1. Uses(r.parts) \in Seq(A)
    <3> DEFINE S == {b \in ToSet(r.parts) : IsUse(b)}
    <3>1. Uses(r.parts) = Select(r.parts, S)
      BY DEF Uses
    <3> HIDE DEF S
    <3>2. Select(r.parts, S) \in Seq(A \cap S)
      BY <1>7, Selections
    <3> QED
      BY <3>1, <3>2
  <2>2. <<Text>> \in Seq(A)
    <3>1. Text \in A
      BY TextBlock DEF A
    <3> QED
      BY <3>1
  <2> QED
    BY <2>1, <2>2 DEF FromOpenAI
<1>12. FromApi(provider, r).content \in Seq(A)
  <2>1. provider \in {"claude", "gemini", "openai"}
    BY McpAssumption
  <2>2. CASE provider = "claude"
    BY <1>9, <2>2 DEF FromApi
  <2>3. CASE provider = "gemini"
    BY <1>10, <2>3 DEF FromApi
  <2>4. CASE provider = "openai"
    BY <1>11, <2>4 DEF FromApi
  <2> QED
    BY <2>1, <2>2, <2>3, <2>4
<1> QED
  BY <1>8, <1>12

-----------------------------------------------------------------------------
(***************************************************************************)
(* Conversations                                                            *)
(***************************************************************************)

\* The messages of a loop: the question, then in turns what the assistant said and, in
\* the user's name, the results of all its calls.
IsConversation(M) ==
    /\ M \in Messages /\ M # <<>>
    /\ M[1].content = <<Text>>
    /\ \A i \in 1 .. Len(M) :
          IF i % 2 = 1
            THEN /\ M[i].role = "user"
                 /\ i > 1 => IsAnswer(M[i].content, Uses(M[i - 1].content))
            ELSE M[i].role = "assistant" /\ HasNoResult(M[i].content)

LastCalls(M) == Uses(M[Len(M)].content)

\* Of these calls, the first have results and the others are pending.
Outstanding(calls, results, pending) ==
    /\ calls \in Content /\ pending \in Content /\ IsSequence(results)
    /\ Len(results) + Len(pending) = Len(calls)
    /\ \A k \in 1 .. Len(results) : results[k].call = calls[k]
    /\ \A k \in 1 .. Len(pending) : pending[k] = calls[Len(results) + k]

LEMMA MessagesOf ==
  ASSUME NEW M \in Messages
  PROVE  /\ Len(M) \in Nat /\ DOMAIN M = 1 .. Len(M) /\ (M # <<>> => Len(M) > 0)
         /\ \A i \in 1 .. Len(M) : M[i] \in Turn /\ M[i].content \in Content
<1>1. M \in Seq(Turn)
  BY DEF Messages
<1>2. \A m \in Turn : m.content \in Content
  BY DEF Turn
<1> HIDE DEF Turn
<1>3. /\ Len(M) \in Nat /\ DOMAIN M = 1 .. Len(M) /\ (M # <<>> => Len(M) > 0)
      /\ \A i \in 1 .. Len(M) : M[i] \in Turn
  BY <1>1
<1> QED
  BY <1>2, <1>3

\* N is M and one more message.
IsLonger(N, M, role, content) ==
    /\ N \in Messages /\ N # <<>> /\ Len(N) = Len(M) + 1
    /\ \A i \in 1 .. Len(M) : N[i] = M[i]
    /\ N[Len(N)].role = role /\ N[Len(N)].content = content

LEMMA OneMoreMessage ==
  ASSUME NEW M \in Messages, NEW role \in Role, NEW content \in Content
  PROVE  IsLonger(Append(M, Message(role, content)), M, role, content)
<1> DEFINE m == Message(role, content)
<1>1. M \in Seq(Turn)
  BY DEF Messages
<1>2. m \in Turn /\ m.role = role /\ m.content = content
  BY DEF Message, Turn
<1> HIDE DEF m, Turn
<1>3. Append(M, m) \in Seq(Turn)
  BY <1>1, <1>2
<1>4. Len(Append(M, m)) = Len(M) + 1 /\ Append(M, m) # <<>>
  <2>1. Len(M) \in Nat /\ Len(Append(M, m)) = Len(M) + 1
    BY <1>1, <1>2
  <2> QED
    BY <2>1, Singles
<1>5. /\ \A i \in 1 .. Len(M) : Append(M, m)[i] = M[i]
      /\ Append(M, m)[Len(M) + 1] = m
  BY <1>1, <1>2
<1> DEFINE N == Append(M, m)
<1> HIDE DEF N
<1>6. IsLonger(N, M, role, content)
  BY <1>2, <1>3, <1>4, <1>5 DEF Messages, IsLonger, N
<1> QED
  BY <1>6 DEF N, m

LEMMA TheQuestion == IsConversation(<<Message("user", <<Text>>)>>)
<1> DEFINE m == Message("user", <<Text>>)
<1>1. <<Text>> \in Content
  <2>1. Text \in Block
    BY TextBlock
  <2> HIDE DEF Block
  <2> QED
    BY <2>1 DEF Content
<1>2. m \in Turn /\ m.role = "user" /\ m.content = <<Text>>
  BY <1>1 DEF Message, Turn, Role
<1> HIDE DEF m, Turn
<1>3. <<m>> \in Seq(Turn) /\ Len(<<m>>) = 1 /\ <<m>> # <<>> /\ <<m>>[1] = m
  BY <1>2
<1> DEFINE M == <<m>>
<1>4. M \in Messages /\ Len(M) = 1 /\ M # <<>> /\ M[1] = m
  BY <1>3 DEF Messages
<1> HIDE DEF M
<1>5. IsConversation(M)
  <2>1. \A i \in 1 .. Len(M) : i = 1 /\ i % 2 = 1
    BY <1>4
  <2> QED
    BY <1>2, <1>4, <2>1 DEF IsConversation
<1> QED
  BY <1>5 DEF M, m

\* The parity of a place.
LEMMA NextParity ==
  ASSUME NEW n \in Nat
  PROVE  /\ n % 2 \in {0, 1}
         /\ (n + 1) % 2 = 1 <=> n % 2 # 1
         /\ (1 + 2 * n) % 2 = 1 /\ (2 * n) % 2 = 0
OBVIOUS

LEMMA SaidByAssistant ==
  ASSUME NEW M, IsConversation(M), Len(M) % 2 = 1,
         NEW content \in Content, HasNoResult(content)
  PROVE  LET N == Append(M, Message("assistant", content))
         IN  IsConversation(N) /\ LastCalls(N) = Uses(content)
<1> DEFINE N == Append(M, Message("assistant", content))
<1>1. M \in Messages /\ Len(M) \in Nat /\ Len(M) > 0
  BY MessagesOf DEF IsConversation
<1>2. /\ N \in Messages /\ N # <<>> /\ Len(N) = Len(M) + 1
      /\ \A i \in 1 .. Len(M) : N[i] = M[i]
      /\ N[Len(N)].role = "assistant" /\ N[Len(N)].content = content
  <2>1. "assistant" \in Role
    BY DEF Role
  <2>2. IsLonger(N, M, "assistant", content)
    BY <1>1, <2>1, OneMoreMessage
  <2> HIDE DEF N
  <2> QED
    BY <2>2 DEF IsLonger
<1> HIDE DEF N
<1>3. N[1].content = <<Text>>
  BY <1>1, <1>2 DEF IsConversation
<1>4. ASSUME NEW i \in 1 .. Len(N)
      PROVE  IF i % 2 = 1
               THEN /\ N[i].role = "user"
                    /\ i > 1 => IsAnswer(N[i].content, Uses(N[i - 1].content))
               ELSE N[i].role = "assistant" /\ HasNoResult(N[i].content)
  <2>1. CASE i = Len(N)
    <3>1. i % 2 # 1
      BY <1>1, <1>2, <2>1, NextParity
    <3> QED
      BY <1>2, <2>1, <3>1
  <2>2. CASE i # Len(N)
    <3>1. i \in 1 .. Len(M) /\ (i > 1 => i - 1 \in 1 .. Len(M))
      BY <1>1, <1>2, <2>2
    <3>2. N[i] = M[i] /\ (i > 1 => N[i - 1] = M[i - 1])
      BY <1>2, <3>1
    <3> QED
      BY <3>1, <3>2 DEF IsConversation
  <2> QED
    BY <2>1, <2>2
<1>5. IsConversation(N) /\ LastCalls(N) = Uses(content)
  BY <1>2, <1>3, <1>4 DEF IsConversation, LastCalls
<1> QED
  BY <1>5 DEF N

LEMMA AnsweredByUser ==
  ASSUME NEW M, IsConversation(M), Len(M) % 2 = 0,
         NEW content \in Content, IsAnswer(content, LastCalls(M))
  PROVE  IsConversation(Append(M, Message("user", content)))
<1> DEFINE N == Append(M, Message("user", content))
<1>1. M \in Messages /\ Len(M) \in Nat /\ Len(M) > 0
  BY MessagesOf DEF IsConversation
<1>2. /\ N \in Messages /\ N # <<>> /\ Len(N) = Len(M) + 1
      /\ \A i \in 1 .. Len(M) : N[i] = M[i]
      /\ N[Len(N)].role = "user" /\ N[Len(N)].content = content
  <2>1. "user" \in Role
    BY DEF Role
  <2>2. IsLonger(N, M, "user", content)
    BY <1>1, <2>1, OneMoreMessage
  <2> HIDE DEF N
  <2> QED
    BY <2>2 DEF IsLonger
<1> HIDE DEF N
<1>3. N[1].content = <<Text>>
  BY <1>1, <1>2 DEF IsConversation
<1>4. ASSUME NEW i \in 1 .. Len(N)
      PROVE  IF i % 2 = 1
               THEN /\ N[i].role = "user"
                    /\ i > 1 => IsAnswer(N[i].content, Uses(N[i - 1].content))
               ELSE N[i].role = "assistant" /\ HasNoResult(N[i].content)
  <2>1. CASE i = Len(N)
    <3>1. i % 2 = 1
      <4>1. Len(M) % 2 # 1
        OBVIOUS
      <4> QED
        BY <1>1, <1>2, <2>1, <4>1, NextParity
    <3>2. i - 1 = Len(M) /\ N[i - 1] = M[Len(M)]
      BY <1>1, <1>2, <2>1
    <3>3. IsAnswer(N[i].content, Uses(N[i - 1].content))
      BY <1>2, <2>1, <3>2 DEF LastCalls
    <3> QED
      BY <1>2, <2>1, <3>1, <3>3
  <2>2. CASE i # Len(N)
    <3>1. i \in 1 .. Len(M) /\ (i > 1 => i - 1 \in 1 .. Len(M))
      BY <1>1, <1>2, <2>2
    <3>2. N[i] = M[i] /\ (i > 1 => N[i - 1] = M[i - 1])
      BY <1>2, <3>1
    <3> QED
      BY <3>1, <3>2 DEF IsConversation
  <2> QED
    BY <2>1, <2>2
<1>5. IsConversation(N)
  BY <1>2, <1>3, <1>4 DEF IsConversation
<1> QED
  BY <1>5 DEF N

LEMMA NothingReturned ==
  ASSUME NEW content \in Content
  PROVE  Outstanding(Uses(content), <<>>, Uses(content))
<1> DEFINE calls == Uses(content)
<1>1. calls \in Content /\ Len(calls) \in Nat
  BY UsesOf
<1> HIDE DEF calls
<1>2. Outstanding(calls, <<>>, calls)
  <2>1. IsSequence(<<>>) /\ Len(<<>>) = 0
    BY Singles
  <2>2. 0 + Len(calls) = Len(calls) /\ \A k \in 1 .. Len(calls) : 0 + k = k
    BY <1>1
  <2> QED
    BY <1>1, <2>1, <2>2 DEF Outstanding
<1> QED
  BY <1>2 DEF calls

LEMMA OneReturned ==
  ASSUME NEW calls, NEW results, NEW pending, Outstanding(calls, results, pending),
         pending # <<>>, NEW e, e.call = Head(pending)
  PROVE  Outstanding(calls, Append(results, e), Tail(pending))
<1>1. /\ calls \in Content /\ pending \in Content /\ IsSequence(results)
      /\ Len(results) + Len(pending) = Len(calls)
      /\ \A k \in 1 .. Len(results) : results[k].call = calls[k]
      /\ \A k \in 1 .. Len(pending) : pending[k] = calls[Len(results) + k]
  BY DEF Outstanding
<1>2. /\ Tail(pending) \in Content /\ Len(pending) \in Nat /\ Len(pending) > 0
      /\ Len(Tail(pending)) = Len(pending) - 1 /\ Head(pending) = pending[1]
      /\ \A k \in 1 .. Len(Tail(pending)) : Tail(pending)[k] = pending[k + 1]
  <2>1. pending \in Seq(Block)
    BY <1>1 DEF Content
  <2> HIDE DEF Block
  <2> QED
    BY <2>1 DEF Content
<1>3. PICK S : results \in Seq(S) /\ e \in S
  <2>1. PICK R : results \in Seq(R)
    BY <1>1 DEF IsSequence
  <2>2. results \in Seq(R \cup {e}) /\ e \in R \cup {e}
    BY <2>1
  <2> QED
    BY <2>2
<1>4. /\ Len(results) \in Nat /\ Len(Append(results, e)) = Len(results) + 1
      /\ \A k \in 1 .. Len(results) : Append(results, e)[k] = results[k]
      /\ Append(results, e)[Len(results) + 1] = e
      /\ IsSequence(Append(results, e))
  BY <1>3 DEF IsSequence
<1> DEFINE R == Append(results, e)
           P == Tail(pending)
<1>5. ASSUME NEW k \in 1 .. Len(R) PROVE R[k].call = calls[k]
  <2>1. CASE k \in 1 .. Len(results)
    BY <1>1, <1>4, <2>1
  <2>2. CASE k \notin 1 .. Len(results)
    <3>1. k = Len(results) + 1
      BY <1>4, <2>2
    <3>2. pending[1] = calls[Len(results) + 1]
      BY <1>1, <1>2
    <3> QED
      BY <1>2, <1>4, <3>1, <3>2
  <2> QED
    BY <2>1, <2>2
<1>6. ASSUME NEW k \in 1 .. Len(P) PROVE P[k] = calls[Len(R) + k]
  <2>1. k + 1 \in 1 .. Len(pending) /\ Len(results) + (k + 1) = Len(R) + k
    BY <1>2, <1>4
  <2>2. P[k] = pending[k + 1] /\ pending[k + 1] = calls[Len(results) + (k + 1)]
    BY <1>1, <1>2, <2>1
  <2> QED
    BY <2>1, <2>2
<1>7. Len(R) + Len(P) = Len(calls)
  BY <1>1, <1>2, <1>4
<1> QED
  BY <1>1, <1>2, <1>4, <1>5, <1>6, <1>7 DEF Outstanding

LEMMA AllReturned ==
  ASSUME NEW calls, NEW results, Outstanding(calls, results, <<>>)
  PROVE  LET blocks == [i \in DOMAIN results |-> Result(results[i].call)]
         IN  blocks \in Content /\ IsAnswer(blocks, calls)
<1>1. /\ calls \in Content /\ IsSequence(results)
      /\ Len(results) + Len(<<>>) = Len(calls)
      /\ \A k \in 1 .. Len(results) : results[k].call = calls[k]
  BY DEF Outstanding
<1>2. DOMAIN results = 1 .. Len(results) /\ Len(results) \in Nat
  <2>1. PICK R : results \in Seq(R)
    BY <1>1 DEF IsSequence
  <2> QED
    BY <2>1
<1>3. Len(results) = Len(calls)
  BY <1>1, <1>2, Singles
<1>4. \A k \in 1 .. Len(calls) : Result(calls[k]) \in Block
  <2> TAKE k \in 1 .. Len(calls)
  <2>1. calls[k] \in Block
    <3>1. calls \in Seq(Block)
      BY <1>1 DEF Content
    <3> HIDE DEF Block
    <3> QED
      BY <3>1
  <2>2. calls[k].id \in Id /\ calls[k].name \in Name
    BY <2>1 DEF Block
  <2> HIDE DEF Id, Name
  <2> QED
    BY <2>2 DEF Result, Block
<1> DEFINE blocks == [i \in DOMAIN results |-> Result(results[i].call)]
<1>5. blocks = [k \in 1 .. Len(calls) |-> Result(calls[k])]
  BY <1>1, <1>2, <1>3
<1>6. blocks \in Seq(Block) /\ Len(blocks) = Len(calls)
  <2> HIDE DEF Block, blocks
  <2>1. Len(calls) \in Nat
    BY <1>2, <1>3
  <2> QED
    BY <1>4, <1>5, <2>1
<1>7. \A k \in 1 .. Len(calls) : blocks[k] = Result(calls[k])
  BY <1>5
<1> HIDE DEF blocks
<1>8. blocks \in Content /\ IsAnswer(blocks, calls)
  BY <1>6, <1>7 DEF Content, IsAnswer
<1> QED
  BY <1>8 DEF blocks

-----------------------------------------------------------------------------
(***************************************************************************)
(* The conversation of a loop                                               *)
(***************************************************************************)

\* In the loop there is a conversation; while calls are made, each call of its last message
\* has a result or is pending, and the one under way is the first of those pending.
Conversing(q) ==
    /\ phase[q] \in {"asking"} \cup InCall => IsConversation(loop[q].messages)
    /\ phase[q] \in InCall =>
          Outstanding(LastCalls(loop[q].messages), loop[q].results, loop[q].pending)
    /\ phase[q] \in {"requesting", "submitting", "polling"} => loop[q].pending # <<>>

ConversationInv == McpInv /\ \A q \in Query : Conversing(q)

\* A step that leaves the locals of the loop of q alone, or one that ends it.
Quiet(q) ==
    \/ phase'[q] \notin {"asking"} \cup InCall
    \/ phase'[q] = phase[q] /\ loop'[q] = loop[q]
    \/ /\ phase[q] \in InCall /\ phase'[q] \in InCall /\ loop[q].pending # <<>>
       /\ loop'[q] = loop[q]

\* A call of q returns.
Returns(q) ==
    /\ phase[q] \in InCall /\ loop[q].pending # <<>>
    /\ \E o : Return(q, o)

LEMMA OtherQueries ==
  ASSUME McpInv, NEW p \in Query, NEW q \in Query, p # q,
         HandleRequest(p) \/ LoopStep(p) \/ DeadlinePasses(p)
  PROVE  phase'[q] = phase[q] /\ loop'[q] = loop[q]
<1>1. phase \in [Query -> Phase] /\ DOMAIN loop = Query
  BY DEF McpInv, Plain
<1>2. \A to : Goes(p, to) => phase'[q] = phase[q]
  BY <1>1 DEF Goes
<1>3. \A o : Return(p, o) => phase'[q] = phase[q] /\ loop'[q] = loop[q]
  BY <1>1, <1>2 DEF Return
<1>4. CASE HandleRequest(p)
  BY <1>2, <1>4 DEF HandleRequest
<1>5. CASE StartLoop(p)
  BY <1>1, <1>2, <1>5 DEF StartLoop
<1>6. CASE AskLlm(p) \/ GiveUp(p)
  <2>1. \A to : EndLoop(p, to) => phase'[q] = phase[q] /\ loop'[q] = loop[q]
    BY <1>1, <1>2 DEF EndLoop
  <2>2. \A response : EndTurn(p, response) => phase'[q] = phase[q] /\ loop'[q] = loop[q]
    BY <2>1 DEF EndTurn
  <2>3. \A response : UseTools(p, response) => phase'[q] = phase[q] /\ loop'[q] = loop[q]
    BY <1>1, <1>2 DEF UseTools
  <2> QED
    BY <1>6, <2>1, <2>2, <2>3 DEF AskLlm, GiveUp
<1>7. CASE ReturnResults(p)
  BY <1>1, <1>2, <1>7 DEF ReturnResults
<1>8. CASE SaveOutcome(p)
  BY <1>2, <1>8 DEF SaveOutcome
<1>9. CASE FailCall(p)
  BY <1>3, <1>9 DEF FailCall
<1>10. CASE GetSystemMessage(p)
  BY <1>3, <1>10 DEF GetSystemMessage
<1>11. CASE StartSearch(p)
  BY <1>2, <1>11 DEF StartSearch
<1>12. CASE CallApi(p) \/ InsertJob(p)
  BY <1>2, <1>12 DEF CallApi, InsertJob
<1>13. CASE TimeOut(p)
  BY <1>3, <1>13 DEF TimeOut
<1>14. CASE Poll(p)
  <2>1. (\E o : Return(p, o)) \/ UNCHANGED <<loop, phase>>
    BY <1>14 DEF Poll
  <2> QED
    BY <1>3, <2>1
<1>15. CASE DeadlinePasses(p)
  BY <1>15 DEF DeadlinePasses
<1> QED
  BY <1>4, <1>5, <1>6, <1>7, <1>8, <1>9, <1>10, <1>11, <1>12, <1>13, <1>14, <1>15
     DEF LoopStep, OwnStep, LoseSession

LEMMA Moves ==
  ASSUME McpInv, [McpNext]_mcpVars, NEW q \in Query, Conversing(q)
  PROVE  Quiet(q) \/ Returns(q) \/ StartLoop(q) \/ AskLlm(q) \/ ReturnResults(q)
<1>1. phase \in [Query -> Phase]
  BY DEF McpInv, Plain
<1>2. \A to : Goes(q, to) => phase'[q] = to
  BY <1>1 DEF Goes
<1>3. CASE UNCHANGED <<phase, loop>>
  BY <1>3 DEF Quiet
<1>4. CASE ConnectSession \/ ListTools \/ CloseSession \/ ExecuteSearch
  BY <1>3, <1>4 DEF ConnectSession, ListTools, CloseSession, ExecuteSearch
<1>5. ASSUME NEW p \in Query, HandleRequest(p) \/ LoopStep(p) \/ DeadlinePasses(p)
      PROVE  Quiet(q) \/ Returns(q) \/ StartLoop(q) \/ AskLlm(q) \/ ReturnResults(q)
  <2>1. CASE p # q
    BY <1>5, <2>1, OtherQueries DEF Quiet
  <2>2. CASE HandleRequest(q)
    BY <1>2, <2>2 DEF HandleRequest, Quiet, InCall
  <2>3. CASE SaveOutcome(q)
    BY <1>2, <2>3 DEF SaveOutcome, Quiet, InCall
  <2>4. CASE FailCall(q)
    BY <2>4 DEF FailCall, Returns, InCall, Conversing
  <2>5. CASE GetSystemMessage(q)
    BY <2>5 DEF GetSystemMessage, Returns, InCall, Conversing
  <2>6. CASE StartSearch(q)
    BY <1>2, <2>6 DEF StartSearch, Calls, Quiet, InCall
  <2>7. CASE InsertJob(q)
    BY <1>2, <2>7 DEF InsertJob, Quiet, InCall, Conversing
  <2>8. CASE TimeOut(q)
    BY <2>8 DEF TimeOut, Returns, InCall, Conversing
  <2>9. CASE Poll(q)
    <3>1. phase[q] = "polling" /\ ((\E o : Return(q, o)) \/ UNCHANGED <<loop, phase>>)
      BY <2>9 DEF Poll
    <3> QED
      BY <1>3, <3>1 DEF Returns, InCall, Conversing
  <2>10. CASE DeadlinePasses(q)
    BY <1>3, <2>10 DEF DeadlinePasses
  <2>11. CASE GiveUp(q)
    BY <1>2, <2>11 DEF GiveUp, EndLoop, Quiet, InCall
  <2>12. CASE CallApi(q)
    BY <1>2, <2>12 DEF CallApi, Calls, Quiet, InCall
  <2> QED
    BY <1>5, <2>1, <2>2, <2>3, <2>4, <2>5, <2>6, <2>7, <2>8, <2>9, <2>10, <2>11, <2>12
       DEF LoopStep, OwnStep, LoseSession
<1>6. CASE UNCHANGED mcpVars
  BY <1>3, <1>6 DEF mcpVars
<1> QED
  BY <1>4, <1>5, <1>6 DEF McpNext

LEMMA QuietStep ==
  ASSUME NEW q \in Query, Conversing(q), Quiet(q)
  PROVE  Conversing(q)'
<1>1. CASE phase'[q] \notin {"asking"} \cup InCall
  BY <1>1 DEF Conversing, InCall
<1>2. CASE phase'[q] = phase[q] /\ loop'[q] = loop[q]
  BY <1>2 DEF Conversing
<1>3. CASE /\ phase[q] \in InCall /\ phase'[q] \in InCall /\ loop[q].pending # <<>>
           /\ loop'[q] = loop[q]
  BY <1>3 DEF Conversing
<1> QED
  BY <1>1, <1>2, <1>3 DEF Quiet

LEMMA ReturnsStep ==
  ASSUME McpInv, NEW q \in Query, Conversing(q), Returns(q)
  PROVE  Conversing(q)'
<1>1. PICK o : Return(q, o)
  BY DEF Returns
<1>2. Plain /\ DOMAIN loop[q] = Locals
  BY DEF McpInv, QueryInv, Looping
<1>3. /\ phase'[q] = "calling"
      /\ loop'[q].messages = loop[q].messages
      /\ loop'[q].results = Append(loop[q].results, Report(q, o))
      /\ loop'[q].pending = Tail(loop[q].pending)
  BY <1>1, <1>2 DEF Return, Goes, Plain, Locals
<1>4. Report(q, o).call = Head(loop[q].pending)
  BY DEF Report
<1>5. /\ IsConversation(loop[q].messages) /\ loop[q].pending # <<>>
      /\ Outstanding(LastCalls(loop[q].messages), loop[q].results, loop[q].pending)
  BY DEF Returns, Conversing
<1>6. Outstanding(LastCalls(loop[q].messages), loop'[q].results, loop'[q].pending)
  BY <1>3, <1>4, <1>5, OneReturned
<1> QED
  BY <1>3, <1>5, <1>6 DEF Conversing, InCall

LEMMA StartLoopConverses ==
  ASSUME McpInv, NEW q \in Query, StartLoop(q)
  PROVE  Conversing(q)'
<1>1. Plain /\ DOMAIN loop[q] = Locals
  BY DEF McpInv, QueryInv, Looping
<1>2. phase'[q] = "asking" /\ loop'[q].messages = <<Message("user", <<Text>>)>>
  BY <1>1 DEF StartLoop, Goes, Plain, Locals
<1> QED
  BY <1>2, TheQuestion DEF Conversing, InCall

LEMMA AskLlmConverses ==
  ASSUME McpInv, NEW q \in Query, Conversing(q), AskLlm(q)
  PROVE  Conversing(q)'
<1>1. /\ Plain /\ Looping(q) /\ phase[q] = "asking"
      /\ IsConversation(loop[q].messages)
  BY DEF McpInv, QueryInv, AskLlm, Conversing
<1>2. /\ DOMAIN loop[q] = Locals /\ loop[q].tools \subseteq ToolName
      /\ loop[q].iteration \in Nat /\ Len(loop[q].messages) = 1 + 2 * loop[q].iteration
  BY <1>1, McpAssumption DEF Looping
<1>3. ASSUME NEW to \in {"succeeded", "failed"}, EndLoop(q, to) PROVE Conversing(q)'
  <2>1. phase'[q] = to
    BY <1>1, <1>3 DEF EndLoop, Goes, Plain
  <2> QED
    BY <1>3, <2>1 DEF Conversing, InCall
<1>4. ASSUME NEW r \in ApiResponse(q), UseTools(q, FromApi(provider, r))
      PROVE  Conversing(q)'
  <2> DEFINE content == FromApi(provider, r).content
  <2>1. content \in Content /\ HasNoResult(content)
    BY <1>1, <1>2, ResponseHasNoResult DEF Plain
  <2>2. /\ phase'[q] = "calling"
        /\ loop'[q].messages = Append(loop[q].messages, Message("assistant", content))
        /\ loop'[q].results = <<>>
        /\ loop'[q].pending = Uses(content)
    BY <1>1, <1>2, <1>4 DEF UseTools, Goes, Plain, Locals
  <2> HIDE DEF content
  <2>3. Len(loop[q].messages) % 2 = 1
    BY <1>2, NextParity
  <2>4. /\ IsConversation(loop'[q].messages)
        /\ LastCalls(loop'[q].messages) = Uses(content)
    BY <1>1, <2>1, <2>2, <2>3, SaidByAssistant
  <2>5. Outstanding(LastCalls(loop'[q].messages), loop'[q].results, loop'[q].pending)
    BY <2>1, <2>2, <2>4, NothingReturned
  <2> QED
    BY <2>2, <2>4, <2>5 DEF Conversing, InCall
<1>5. CASE EndLoop(q, "failed")
  BY <1>3, <1>5
<1>6. CASE \E r \in ApiResponse(q) :
              EndTurn(q, FromApi(provider, r)) \/ UseTools(q, FromApi(provider, r))
  BY <1>3, <1>4, <1>6 DEF EndTurn
<1> QED
  BY <1>5, <1>6 DEF AskLlm

LEMMA ReturnResultsConverses ==
  ASSUME McpInv, NEW q \in Query, Conversing(q), ReturnResults(q)
  PROVE  Conversing(q)'
<1> DEFINE results == loop[q].results
           blocks == [i \in DOMAIN results |-> Result(results[i].call)]
           M == loop[q].messages
<1>1. /\ Plain /\ Looping(q) /\ phase[q] = "calling" /\ loop[q].pending = <<>>
      /\ IsConversation(M)
      /\ Outstanding(LastCalls(M), results, <<>>)
  BY DEF McpInv, QueryInv, ReturnResults, Conversing, InCall
<1>2. /\ DOMAIN loop[q] = Locals /\ loop[q].iteration \in Nat
      /\ Len(M) = 2 * loop[q].iteration
  BY <1>1, McpAssumption DEF Looping, InCall
<1>3. blocks \in Content /\ IsAnswer(blocks, LastCalls(M))
  <2> HIDE DEF results, M
  <2> QED
    BY <1>1, AllReturned
<1>4. phase'[q] = "asking" /\ loop'[q].messages = Append(M, Message("user", blocks))
  BY <1>1, <1>2 DEF ReturnResults, Goes, Plain, Locals
<1> HIDE DEF M, blocks, results
<1>5. Len(M) % 2 = 0
  BY <1>2, NextParity
<1>6. IsConversation(Append(M, Message("user", blocks)))
  BY <1>1, <1>3, <1>5, AnsweredByUser
<1> QED
  BY <1>4, <1>6 DEF Conversing, InCall

LEMMA ConversationStep ==
  ConversationInv /\ [McpNext]_mcpVars => ConversationInv'
<1> SUFFICES ASSUME ConversationInv, [McpNext]_mcpVars PROVE ConversationInv'
  OBVIOUS
<1>1. McpInv /\ McpInv'
  BY McpStep DEF ConversationInv
<1>2. ASSUME NEW q \in Query PROVE Conversing(q)'
  <2>1. Conversing(q)
    BY DEF ConversationInv
  <2>2. Quiet(q) \/ Returns(q) \/ StartLoop(q) \/ AskLlm(q) \/ ReturnResults(q)
    BY <1>1, <2>1, Moves
  <2> QED
    BY <1>1, <2>1, <2>2, QuietStep, ReturnsStep, StartLoopConverses, AskLlmConverses,
       ReturnResultsConverses
<1> QED
  BY <1>1, <1>2 DEF ConversationInv

LEMMA ConversationInvariant == McpSpec => []ConversationInv
<1>1. McpInit => ConversationInv
  <2>1. McpInit => \A q \in Query : Conversing(q)
    BY DEF McpInit, Conversing, InCall
  <2> QED
    BY <2>1, McpInitially DEF ConversationInv
<1> QED
  BY <1>1, ConversationStep, PTL DEF McpSpec

-----------------------------------------------------------------------------
(***************************************************************************)
(* What the APIs accept                                                     *)
(***************************************************************************)

\* A message of the user calls nothing, one of the assistant has no results, and the
\* message after it has the results of its calls.
LEMMA InTurns ==
  ASSUME NEW M, IsConversation(M), Len(M) % 2 = 1, NEW i \in 1 .. Len(M)
  PROVE  /\ M[i].content \in Content
         /\ i % 2 = 1 => M[i].role = "user" /\ HasNoUse(M[i].content)
         /\ i % 2 # 1 =>
               /\ M[i].role = "assistant" /\ HasNoResult(M[i].content)
               /\ i + 1 \in 1 .. Len(M) /\ (i + 1) % 2 = 1
               /\ IsAnswer(M[i + 1].content, Uses(M[i].content))
<1>1. /\ M \in Messages /\ Len(M) \in Nat /\ i \in Nat
      /\ \A j \in 1 .. Len(M) : M[j].content \in Content
  BY MessagesOf DEF IsConversation
<1>2. ASSUME i % 2 = 1 PROVE M[i].role = "user" /\ HasNoUse(M[i].content)
  <2>1. M[i].role = "user"
    BY <1>2 DEF IsConversation
  <2>2. CASE i = 1
    <3>1. M[i].content = <<Text>>
      BY <2>2 DEF IsConversation
    <3>2. \A k \in 1 .. Len(<<Text>>) : <<Text>>[k] = Text
      OBVIOUS
    <3> QED
      BY <2>1, <3>1, <3>2, TextBlock DEF HasNoUse
  <2>3. CASE i # 1
    <3>1. i - 1 \in 1 .. Len(M) /\ i > 1
      BY <1>1, <2>3
    <3>2. IsAnswer(M[i].content, Uses(M[i - 1].content))
      BY <1>2, <3>1 DEF IsConversation
    <3>3. M[i].content \in Content /\ Uses(M[i - 1].content) \in Content
      BY <1>1, <3>1, UsesOf
    <3> QED
      BY <2>1, <3>2, <3>3, AnswerOf
  <2> QED
    BY <2>2, <2>3
<1>3. ASSUME i % 2 # 1
      PROVE  /\ M[i].role = "assistant" /\ HasNoResult(M[i].content)
             /\ i + 1 \in 1 .. Len(M) /\ (i + 1) % 2 = 1
             /\ IsAnswer(M[i + 1].content, Uses(M[i].content))
  <2>1. M[i].role = "assistant" /\ HasNoResult(M[i].content)
    BY <1>3 DEF IsConversation
  <2>2. i # Len(M)
    BY <1>3
  <2>3. i + 1 \in 1 .. Len(M) /\ i + 1 > 1 /\ (i + 1) - 1 = i
    BY <1>1, <2>2
  <2>4. (i + 1) % 2 = 1
    BY <1>1, <1>3, NextParity
  <2>5. IsAnswer(M[i + 1].content, Uses(M[(i + 1) - 1].content))
    BY <2>3, <2>4 DEF IsConversation
  <2> QED
    BY <2>1, <2>3, <2>4, <2>5
<1> QED
  BY <1>1, <1>2, <1>3

\* The labels of the results of calls are those of the calls.
LEMMA LabelsOfAnswers ==
  ASSUME NEW content \in Content, NEW calls \in Content, IsAnswer(content, calls),
         NEW label \in {"id", "name"}
  PROVE  Labels(calls, label) = Labels(content, label)
<1>1. DOMAIN content = 1 .. Len(calls) /\ DOMAIN calls = 1 .. Len(calls)
  BY DEF IsAnswer, Content
<1>2. ASSUME NEW k \in 1 .. Len(calls) PROVE calls[k][label] = content[k][label]
  <2>1. content[k] = Result(calls[k])
    BY DEF IsAnswer
  <2>2. \A c : Result(c)["id"] = c["id"] /\ Result(c)["name"] = c["name"]
    BY DEF Result
  <2> QED
    BY <2>1, <2>2
<1> QED
  BY <1>1, <1>2 DEF Labels

\* Claude and Gemini.
LEMMA TurnsAreAnswered ==
  ASSUME NEW M, IsConversation(M), Len(M) % 2 = 1,
         NEW wire, NEW model, NEW label \in {"id", "name"},
         wire # <<>>, Len(wire) = Len(M), DOMAIN wire = 1 .. Len(M),
         \A i \in 1 .. Len(M) :
            /\ wire[i].content = M[i].content
            /\ wire[i].role = IF M[i].role = "assistant" THEN model ELSE "user"
  PROVE  TurnsAnswered(wire, model, label)
<1>1. Len(M) \in Nat /\ Len(M) > 0
  BY MessagesOf DEF IsConversation
<1>2. \A i \in 1 .. Len(M) : wire[i].role = IF i % 2 = 1 THEN "user" ELSE model
  <2> TAKE i \in 1 .. Len(M)
  <2>1. M[i].role = IF i % 2 = 1 THEN "user" ELSE "assistant"
    BY InTurns
  <2> QED
    BY <2>1
<1>3. wire[Len(wire)].role = "user"
  BY <1>1, <1>2
<1>4. ASSUME NEW i \in 1 .. (Len(wire) - 1)
      PROVE  Labels(Uses(wire[i].content), label) = Labels(Results(wire[i + 1].content), label)
  <2>1. i \in 1 .. Len(M) /\ i + 1 \in 1 .. Len(M) /\ i \in Nat
    BY <1>1
  <2>2. wire[i].content = M[i].content /\ wire[i + 1].content = M[i + 1].content
    BY <2>1
  <2>3. M[i].content \in Content /\ M[i + 1].content \in Content
    BY <2>1, InTurns
  <2>4. CASE i % 2 = 1
    <3>1. (i + 1) % 2 # 1
      BY <2>1, <2>4, NextParity
    <3>2. HasNoUse(M[i].content) /\ HasNoResult(M[i + 1].content)
      BY <2>1, <2>4, <3>1, InTurns
    <3> QED
      BY <2>2, <2>3, <3>2, UsesOf, ResultsOf
  <2>5. CASE i % 2 # 1
    <3>1. IsAnswer(M[i + 1].content, Uses(M[i].content)) /\ Uses(M[i].content) \in Content
      BY <2>1, <2>3, <2>5, InTurns, UsesOf
    <3>2. Results(M[i + 1].content) = M[i + 1].content
      BY <2>3, <3>1, AnswerOf
    <3> QED
      BY <2>2, <2>3, <3>1, <3>2, LabelsOfAnswers
  <2> QED
    BY <2>4, <2>5
<1> QED
  BY <1>2, <1>3, <1>4 DEF TurnsAnswered

\* OpenAI, whose messages are in pieces, one for each message of the conversation: those
\* of the user have no calls, those of the assistant are one message, and the next piece
\* has the results of its calls.
InPieces(ss) ==
    \A i \in 1 .. Len(ss) :
        /\ i % 2 = 1 =>
              \A k \in 1 .. Len(ss[i]) :
                  ss[i][k].role # "assistant" /\ (ss[i][k].role = "tool" => i > 1)
        /\ i % 2 # 1 =>
              /\ Len(ss[i]) = 1 /\ ss[i][1].role = "assistant"
              /\ i + 1 \in 1 .. Len(ss)
              /\ DOMAIN ss[i][1].content = 1 .. Len(ss[i + 1])
              /\ \A k \in 1 .. Len(ss[i + 1]) :
                    /\ ss[i + 1][k].role = "tool"
                    /\ ss[i + 1][k].content[1].id = ss[i][1].content[k].id

LEMMA PiecesAreAnswered ==
  ASSUME NEW T, NEW ss \in Seq(Seq(T)), InPieces(ss)
  PROVE  CallsAnswered(FlattenSeq(ss))
<1> DEFINE wire == FlattenSeq(ss)
<1>1. wire \in Seq(T)
  BY Flattening
<1>2. PICK off \in [0 .. Len(ss) -> Nat] : PlacesIn(off, ss, wire)
  BY Flattening
<1> HIDE DEF wire
<1>3. /\ Len(ss) \in Nat /\ Len(wire) \in Nat /\ DOMAIN wire = 1 .. Len(wire)
      /\ \A i \in 1 .. Len(ss) : Len(ss[i]) \in Nat
  <2>1. \A i \in 1 .. Len(ss) : ss[i] \in Seq(T)
    OBVIOUS
  <2> QED
    BY <1>1, <2>1
<1>4. /\ \A i \in 1 .. Len(ss) : off[i] = off[i - 1] + Len(ss[i])
      /\ \A i \in 1 .. Len(ss) : \A k \in 1 .. Len(ss[i]) :
            off[i - 1] + k \in 1 .. Len(wire) /\ wire[off[i - 1] + k] = ss[i][k]
      /\ \A n \in 1 .. Len(wire) : \E i \in 1 .. Len(ss) : n - off[i - 1] \in 1 .. Len(ss[i])
  BY <1>2 DEF PlacesIn
<1>5. \A i \in 1 .. Len(ss) : off[i - 1] \in Nat /\ off[i] \in Nat /\ i \in Nat
  <2> TAKE i \in 1 .. Len(ss)
  <2>1. i - 1 \in 0 .. Len(ss) /\ i \in 0 .. Len(ss) /\ i \in Nat
    BY <1>3
  <2> QED
    BY <1>2, <2>1
\* The message of an assistant is a piece.
<1>6. ASSUME NEW i \in 1 .. Len(ss), i % 2 # 1
      PROVE  off[i] \in 1 .. Len(wire) /\ wire[off[i]] = ss[i][1]
  <2>1. Len(ss[i]) = 1
    BY <1>6 DEF InPieces
  <2>2. off[i] = off[i - 1] + 1
    BY <1>4, <2>1
  <2>3. 1 \in 1 .. Len(ss[i])
    BY <2>1
  <2> QED
    BY <1>4, <2>2, <2>3
<1>7. ASSUME NEW n \in 1 .. Len(wire)
      PROVE  \E i \in 1 .. Len(ss) : \E k \in 1 .. Len(ss[i]) :
                n = off[i - 1] + k /\ wire[n] = ss[i][k]
  <2>1. PICK i \in 1 .. Len(ss) : n - off[i - 1] \in 1 .. Len(ss[i])
    BY <1>4
  <2> DEFINE k == n - off[i - 1]
  <2>2. n = off[i - 1] + k
    BY <1>3, <1>5
  <2>3. k \in 1 .. Len(ss[i])
    BY <2>1
  <2> HIDE DEF k
  <2>4. wire[n] = ss[i][k]
    BY <1>4, <2>2, <2>3
  <2> QED
    BY <2>2, <2>3, <2>4
<1>8. ASSUME NEW n \in 1 .. Len(wire), wire[n].role = "assistant"
      PROVE  \A k \in DOMAIN wire[n].content :
                /\ n + k \in DOMAIN wire
                /\ wire[n + k].role = "tool"
                /\ wire[n + k].content[1].id = wire[n].content[k].id
  <2>0. PICK i \in 1 .. Len(ss) : \E k \in 1 .. Len(ss[i]) :
           n = off[i - 1] + k /\ wire[n] = ss[i][k]
    BY <1>7
  <2>1. PICK j \in 1 .. Len(ss[i]) : n = off[i - 1] + j /\ wire[n] = ss[i][j]
    BY <2>0
  <2>2. i % 2 # 1
    BY <1>8, <2>1 DEF InPieces
  <2>3. /\ Len(ss[i]) = 1 /\ i + 1 \in 1 .. Len(ss)
        /\ DOMAIN ss[i][1].content = 1 .. Len(ss[i + 1])
        /\ \A k \in 1 .. Len(ss[i + 1]) :
              /\ ss[i + 1][k].role = "tool"
              /\ ss[i + 1][k].content[1].id = ss[i][1].content[k].id
    BY <2>2 DEF InPieces
  <2>4. j = 1 /\ n = off[i]
    <3>1. j = 1
      BY <2>3
    <3> QED
      BY <1>4, <2>1, <2>3, <3>1
  <2>5. (i + 1) - 1 = i
    BY <1>5
  <2>6. \A k \in 1 .. Len(ss[i + 1]) :
           off[i] + k \in 1 .. Len(wire) /\ wire[off[i] + k] = ss[i + 1][k]
    <3>1. \A k \in 1 .. Len(ss[i + 1]) :
             off[(i + 1) - 1] + k \in 1 .. Len(wire) /\ wire[off[(i + 1) - 1] + k] = ss[i + 1][k]
      BY <1>4, <2>3
    <3> QED
      BY <2>5, <3>1
  <2>7. wire[n] = ss[i][1]
    BY <2>1, <2>4
  <2> TAKE k \in DOMAIN wire[n].content
  <2>8. k \in 1 .. Len(ss[i + 1])
    BY <2>3, <2>7
  <2>9. n + k \in 1 .. Len(wire) /\ wire[n + k] = ss[i + 1][k]
    BY <2>4, <2>6, <2>8
  <2> QED
    BY <1>3, <2>3, <2>7, <2>8, <2>9
<1>9. ASSUME NEW n \in 1 .. Len(wire), wire[n].role = "tool"
      PROVE  \E m \in 1 .. Len(wire) :
                wire[m].role = "assistant" /\ n - m \in DOMAIN wire[m].content
  <2>0. PICK i \in 1 .. Len(ss) : \E k \in 1 .. Len(ss[i]) :
           n = off[i - 1] + k /\ wire[n] = ss[i][k]
    BY <1>7
  <2>1. PICK j \in 1 .. Len(ss[i]) : n = off[i - 1] + j /\ wire[n] = ss[i][j]
    BY <2>0
  <2>2. i % 2 = 1 /\ i > 1
    <3>1. i % 2 # 1 => j = 1 /\ ss[i][1].role = "assistant"
      <4>1. i % 2 # 1 => Len(ss[i]) = 1 /\ ss[i][1].role = "assistant"
        BY DEF InPieces
      <4>2. \A k \in 1 .. 1 : k = 1
        OBVIOUS
      <4> QED
        BY <4>1, <4>2
    <3>2. i % 2 = 1
      BY <1>9, <2>1, <3>1 DEF InPieces
    <3> QED
      BY <1>9, <2>1, <3>2 DEF InPieces
  <2> DEFINE h == i - 1
  <2>3. h \in 1 .. Len(ss) /\ h % 2 # 1 /\ h + 1 = i
    <3>1. h \in 1 .. Len(ss) /\ h + 1 = i /\ h \in Nat
      BY <1>3, <1>5, <2>2
    <3> HIDE DEF h
    <3> QED
      BY <2>2, <3>1, NextParity
  <2>4. n - off[h] = j
    <3>1. off[h] \in Nat /\ j \in Nat
      BY <1>3, <1>5
    <3> QED
      BY <2>1, <3>1
  <2> HIDE DEF h
  <2>5. off[h] \in 1 .. Len(wire) /\ wire[off[h]] = ss[h][1]
    BY <1>6, <2>3
  <2>6. ss[h][1].role = "assistant" /\ DOMAIN ss[h][1].content = 1 .. Len(ss[i])
    BY <2>3 DEF InPieces
  <2> QED
    BY <2>4, <2>5, <2>6
<1>10. CallsAnswered(wire)
  BY <1>3, <1>8, <1>9 DEF CallsAnswered
<1> QED
  BY <1>10 DEF wire

LEMMA OpenAIMessages ==
  ASSUME NEW M, IsConversation(M), Len(M) % 2 = 1
  PROVE  CallsAnswered(ToOpenAI(M))
<1> DEFINE said(i) == <<Message("assistant", Uses(M[i].content))>>
           told(i, k) == Message(IF IsResult(M[i].content[k]) THEN "tool" ELSE "user",
                                 <<M[i].content[k]>>)
           piece(i) == IF M[i].role = "assistant"
                         THEN said(i)
                         ELSE [k \in DOMAIN M[i].content |-> told(i, k)]
           ss == [i \in DOMAIN M |-> piece(i)]
           T == [role : {"assistant", "tool", "user"}, content : Content]
<1>1. ToOpenAI(M) = FlattenSeq(ss)
  BY DEF ToOpenAI
<1>2. /\ M \in Messages /\ Len(M) \in Nat /\ DOMAIN M = 1 .. Len(M)
  BY MessagesOf DEF IsConversation
<1>3. ASSUME NEW i \in 1 .. Len(M), i % 2 # 1
      PROVE  /\ piece(i) \in Seq(T)
             /\ Len(piece(i)) = 1 /\ piece(i)[1].role = "assistant"
             /\ piece(i)[1].content = Uses(M[i].content)
  <2> DEFINE m == Message("assistant", Uses(M[i].content))
  <2>1. piece(i) = <<m>>
    BY <1>3, InTurns
  <2>2. Uses(M[i].content) \in Content
    BY InTurns, UsesOf
  <2>3. m \in T /\ m.role = "assistant" /\ m.content = Uses(M[i].content)
    BY <2>2 DEF Message
  <2> HIDE DEF m, piece, T
  <2>4. <<m>> \in Seq(T) /\ Len(<<m>>) = 1 /\ <<m>>[1] = m
    BY <2>3
  <2> QED
    BY <2>1, <2>3, <2>4
<1>4. ASSUME NEW i \in 1 .. Len(M), i % 2 = 1
      PROVE  /\ piece(i) \in Seq(T) /\ Len(piece(i)) = Len(M[i].content)
             /\ \A k \in 1 .. Len(M[i].content) :
                   /\ piece(i)[k].role = IF IsResult(M[i].content[k]) THEN "tool" ELSE "user"
                   /\ piece(i)[k].content[1] = M[i].content[k]
  <2> DEFINE content == M[i].content
  <2>1. content \in Content /\ M[i].role = "user"
    BY <1>4, InTurns
  <2>2. content \in Seq(Block)
    BY <2>1 DEF Content
  <2>3. piece(i) = [k \in DOMAIN content |-> told(i, k)]
    BY <2>1
  <2> HIDE DEF piece
  <2>4. ASSUME NEW k \in 1 .. Len(content)
        PROVE  /\ told(i, k) \in T
               /\ told(i, k).role = IF IsResult(content[k]) THEN "tool" ELSE "user"
               /\ told(i, k).content[1] = content[k]
    <3> HIDE DEF content
    <3>1. content[k] \in Block
      <4> HIDE DEF Block
      <4> QED
        BY <2>2
    <3>2. <<content[k]>> \in Content /\ <<content[k]>>[1] = content[k]
      <4> HIDE DEF Block
      <4> QED
        BY <3>1 DEF Content
    <3> HIDE DEF Content
    <3> QED
      BY <3>2 DEF content, Message
  <2> HIDE DEF told, T, Block, content
  <2>5. DOMAIN content = 1 .. Len(content) /\ Len(content) \in Nat
    BY <2>2
  <2>6. piece(i) \in Seq(T) /\ Len(piece(i)) = Len(content)
    BY <2>3, <2>4, <2>5
  <2>7. \A k \in 1 .. Len(content) :
           /\ piece(i)[k].role = IF IsResult(content[k]) THEN "tool" ELSE "user"
           /\ piece(i)[k].content[1] = content[k]
    BY <2>3, <2>4, <2>5
  <2> QED
    BY <2>6, <2>7 DEF content
<1> HIDE DEF piece, T
<1>5. /\ ss \in Seq(Seq(T)) /\ Len(ss) = Len(M)
      /\ \A i \in 1 .. Len(M) : ss[i] = piece(i)
  <2>1. \A i \in 1 .. Len(M) : piece(i) \in Seq(T)
    BY <1>3, <1>4
  <2> QED
    BY <1>2, <2>1
<1> HIDE DEF ss
<1>6. ASSUME NEW i \in 1 .. Len(ss), i % 2 = 1
      PROVE  \A k \in 1 .. Len(ss[i]) :
                ss[i][k].role # "assistant" /\ (ss[i][k].role = "tool" => i > 1)
  <2>1. i \in 1 .. Len(M) /\ i \in Nat /\ ss[i] = piece(i)
    BY <1>2, <1>5
  <2>2. /\ Len(ss[i]) = Len(M[i].content)
        /\ \A k \in 1 .. Len(M[i].content) :
              ss[i][k].role = IF IsResult(M[i].content[k]) THEN "tool" ELSE "user"
    BY <1>4, <1>6, <2>1
  <2>3. i = 1 => \A k \in 1 .. Len(M[i].content) : ~ IsResult(M[i].content[k])
    <3>1. M[1].content = <<Text>>
      BY DEF IsConversation
    <3>2. \A k \in 1 .. Len(<<Text>>) : <<Text>>[k] = Text
      OBVIOUS
    <3> QED
      BY <3>1, <3>2, TextBlock
  <2> QED
    BY <2>1, <2>2, <2>3
<1>7. ASSUME NEW i \in 1 .. Len(ss), i % 2 # 1
      PROVE  /\ Len(ss[i]) = 1 /\ ss[i][1].role = "assistant"
             /\ i + 1 \in 1 .. Len(ss)
             /\ DOMAIN ss[i][1].content = 1 .. Len(ss[i + 1])
             /\ \A k \in 1 .. Len(ss[i + 1]) :
                   /\ ss[i + 1][k].role = "tool"
                   /\ ss[i + 1][k].content[1].id = ss[i][1].content[k].id
  <2> DEFINE calls == Uses(M[i].content)
             answer == M[i + 1].content
  <2>1. i \in 1 .. Len(M)
    BY <1>5
  <2>2. i + 1 \in 1 .. Len(M) /\ (i + 1) % 2 = 1 /\ IsAnswer(answer, calls)
    BY <1>7, <2>1, InTurns
  <2>3. calls \in Content /\ answer \in Content
    BY <2>1, <2>2, InTurns, UsesOf
  <2>4. ss[i] = piece(i) /\ ss[i + 1] = piece(i + 1)
    BY <1>5, <2>1, <2>2
  <2>5. Len(ss[i]) = 1 /\ ss[i][1].role = "assistant" /\ ss[i][1].content = calls
    BY <1>3, <1>7, <2>1, <2>4
  <2>6. /\ Len(ss[i + 1]) = Len(answer)
        /\ \A k \in 1 .. Len(answer) :
              /\ ss[i + 1][k].role = IF IsResult(answer[k]) THEN "tool" ELSE "user"
              /\ ss[i + 1][k].content[1] = answer[k]
    BY <1>4, <2>2, <2>4
  <2> HIDE DEF calls, answer
  <2>7. Len(answer) = Len(calls) /\ DOMAIN calls = 1 .. Len(calls)
    BY <2>2, <2>3 DEF IsAnswer, Content
  <2>8. \A k \in 1 .. Len(calls) : IsResult(answer[k]) /\ answer[k].id = calls[k].id
    BY <2>2, <2>3, AnswerOf DEF IsResult
  <2> QED
    BY <1>5, <2>2, <2>5, <2>6, <2>7, <2>8
<1>8. InPieces(ss)
  BY <1>6, <1>7 DEF InPieces
<1> QED
  BY <1>1, <1>5, <1>8, PiecesAreAnswered

LEMMA ConversationsFit ==
  ASSUME provider \in Provider, NEW M, IsConversation(M), Len(M) % 2 = 1
  PROVE  Accepted(provider, ToApi(provider, M))
<1>1. /\ M # <<>> /\ Len(M) \in Nat /\ DOMAIN M = 1 .. Len(M)
      /\ \A i \in 1 .. Len(M) : M[i] \in Turn
  BY MessagesOf DEF IsConversation
<1>2. \A i \in 1 .. Len(M) : M[i].role = IF M[i].role = "assistant" THEN "assistant" ELSE "user"
  BY InTurns
<1>3. TurnsAnswered(ToAnthropic(M), "assistant", "id")
  <2>1. "id" \in {"id", "name"}
    OBVIOUS
  <2> QED
    BY <1>1, <1>2, <2>1, TurnsAreAnswered DEF ToAnthropic
<1>4. TurnsAnswered(ToGemini(M), "model", "name")
  <2> DEFINE named(m) == [m EXCEPT !.role = IF @ = "assistant" THEN "model" ELSE "user"]
             wire == [i \in 1 .. Len(M) |-> named(M[i])]
  <2>1. ToGemini(M) = wire
    BY <1>1 DEF ToGemini
  <2>2. \A m \in Turn :
           /\ named(m).content = m.content
           /\ named(m).role = IF m.role = "assistant" THEN "model" ELSE "user"
    BY DEF Turn
  <2> HIDE DEF named
  <2>3. DOMAIN wire = 1 .. Len(M) /\ Len(wire) = Len(M) /\ wire # <<>>
    <3>1. Len(M) > 0
      BY MessagesOf DEF IsConversation
    <3>2. DOMAIN wire = 1 .. Len(M) /\ Len(wire) = Len(M)
      BY <1>1
    <3> QED
      BY <3>1, <3>2, Singles
  <2>4. \A i \in 1 .. Len(M) :
           /\ wire[i].content = M[i].content
           /\ wire[i].role = IF M[i].role = "assistant" THEN "model" ELSE "user"
    BY <1>1, <2>2
  <2> HIDE DEF wire
  <2>5. "name" \in {"id", "name"}
    OBVIOUS
  <2>6. TurnsAnswered(wire, "model", "name")
    BY <2>3, <2>4, <2>5, TurnsAreAnswered
  <2> QED
    BY <2>1, <2>6
<1>5. CallsAnswered(ToOpenAI(M))
  BY OpenAIMessages
<1>6. provider \in {"claude", "gemini", "openai"}
  BY McpAssumption
<1>7. CASE provider = "claude"
  BY <1>3, <1>7 DEF Accepted, ToApi
<1>8. CASE provider = "gemini"
  BY <1>4, <1>8 DEF Accepted, ToApi
<1>9. CASE provider = "openai"
  BY <1>5, <1>9 DEF Accepted, ToApi
<1> QED
  BY <1>6, <1>7, <1>8, <1>9

-----------------------------------------------------------------------------
(***************************************************************************)
(* The theorems                                                             *)
(***************************************************************************)

\* In a round the conversation has an even number of messages and otherwise an odd one, so
\* that it never has more than 1 + 2 * maxToolUseIterations: the loop, and with it the
\* prompt it sends, is bounded for every limit.
THEOREM McpTypesHold == McpSpec => []McpTypeOK
<1>1. McpInv => McpTypeOK
  <2> SUFFICES ASSUME McpInv PROVE McpTypeOK
    OBVIOUS
  <2>1. ASSUME NEW q \in Query
        PROVE  /\ loop[q].tools \subseteq ToolName
               /\ loop[q].iteration \in 0 .. MaxIterations
               /\ Len(loop[q].messages) <= 1 + 2 * MaxIterations
               /\ loop[q].pending # <<>> => phase[q] \in InCall
               /\ \A i \in DOMAIN loop[q].results : loop[q].results[i].outcome \in Outcome
               /\ poll[q].count \in 0 .. Len(PollTimes)
               /\ poll[q] # NoPoll => phase[q] = "polling"
    <3>1. Looping(q) /\ Polling(q)
      BY DEF McpInv, QueryInv
    <3>2. /\ loop[q].tools \subseteq ToolName /\ loop[q].iteration \in 0 .. MaxIterations
          /\ \A i \in DOMAIN loop[q].results : loop[q].results[i].outcome \in Outcome
      BY <3>1 DEF Looping
    <3>3. phase[q] \notin {"asking"} \cup InCall
             => loop[q].pending = <<>> /\ Len(loop[q].messages) = 0
      BY <3>1, Singles DEF Looping, NoLoop
    <3>4. loop[q].pending # <<>> => phase[q] \in InCall
      BY <3>1, <3>3 DEF Looping
    <3>5. Len(loop[q].messages) <= 1 + 2 * MaxIterations
      <4>1. Len(loop[q].messages)
               \in {0, 1 + 2 * loop[q].iteration, 2 * loop[q].iteration}
        BY <3>1, <3>3 DEF Looping
      <4>2. \A k \in 0 .. MaxIterations :
               /\ 0 <= 1 + 2 * MaxIterations
               /\ 1 + 2 * k <= 1 + 2 * MaxIterations
               /\ 2 * k <= 1 + 2 * MaxIterations
        <5>1. MaxIterations \in Nat
          BY McpAssumption
        <5> QED
          BY <5>1
      <4> QED
        BY <3>2, <4>1, <4>2
    <3>6. poll[q].count \in 0 .. Len(PollTimes) /\ (poll[q] # NoPoll => phase[q] = "polling")
      BY <3>1, PollTimesTyped DEF Polling
    <3> QED
      BY <3>2, <3>4, <3>5, <3>6
  <2>2. Plain
    BY DEF McpInv
  <2> QED
    BY <2>1, <2>2 DEF McpTypeOK, Plain
<1> QED
  BY <1>1, McpInvariant, PTL

\* Whatever the LLM answers, mixing texts and calls of tools, and whatever comes of the
\* calls, what runToolLoop sends next is a conversation the API of the provider accepts:
\* by turns, with the results of all calls of a response, in order, in the message after it.
THEOREM ConversationsAccepted == McpSpec => []ConversationAccepted
<1>1. ConversationInv => ConversationAccepted
  <2> SUFFICES ASSUME ConversationInv, NEW q \in Query, phase[q] = "asking"
               PROVE  Accepted(provider, ToApi(provider, loop[q].messages))
    BY DEF ConversationAccepted
  <2>1. /\ provider \in Provider /\ Looping(q) /\ IsConversation(loop[q].messages)
    BY DEF ConversationInv, McpInv, Plain, QueryInv, Conversing
  <2>2. loop[q].iteration \in Nat /\ Len(loop[q].messages) = 1 + 2 * loop[q].iteration
    BY <2>1, McpAssumption DEF Looping
  <2>3. Len(loop[q].messages) % 2 = 1
    BY <2>2, NextParity
  <2> QED
    BY <2>1, <2>3, ConversationsFit
<1> QED
  BY <1>1, ConversationInvariant, PTL

\* What the search tool reports to the LLM is what the job came to, whatever the pauses of
\* pollForAnswers and its deadline, and whether the store works or not.
THEOREM SearchAnswersSettled == McpSpec => []SearchAnswersAreFinal
<1>1. McpInv => SearchAnswersAreFinal
  BY DEF McpInv, QueryInv, Searching, SearchAnswersAreFinal
<1> QED
  BY <1>1, McpInvariant, PTL

\* The record of a query, which only HandleRequest and the end of the loop write, follows
\* the status of a job.
THEOREM McpStatusMovesForward == McpSpec => McpImplementsStatus
<1>1. McpInit => McpStatus!Init
  BY DEF McpInit, McpStatus!Init
<1>2. McpInv /\ [McpNext]_mcpVars => [McpStatus!Next]_queryStatus
  <2> SUFFICES ASSUME McpInv, [McpNext]_mcpVars PROVE [McpStatus!Next]_queryStatus
    OBVIOUS
  <2>1. ASSUME NEW q \in Query, HandleRequest(q) PROVE [McpStatus!Next]_queryStatus
    <3>1. queryStatus[q] = "unknown"
      BY <2>1 DEF HandleRequest, McpInv, QueryInv, Recorded
    <3> QED
      BY <2>1, <3>1 DEF HandleRequest, McpStatus!Next, McpStatus!Run
  <2>2. ASSUME NEW q \in Query, SaveOutcome(q) PROVE [McpStatus!Next]_queryStatus
    <3>1. queryStatus[q] = "RUNNING"
      BY <2>2 DEF SaveOutcome, McpInv, QueryInv, Recorded
    <3> QED
      BY <2>2, <3>1 DEF SaveOutcome, McpStatus!Next, McpStatus!End, McpStatus!Final
  <2>3. ASSUME NEW q \in Query, LoopStep(q) \/ DeadlinePasses(q), ~SaveOutcome(q)
        PROVE  queryStatus' = queryStatus
    BY <2>3 DEF LoopStep, OwnStep, LoseSession, StartLoop, AskLlm, GiveUp, ReturnResults,
                FailCall, CallApi, GetSystemMessage, StartSearch, InsertJob, TimeOut, Poll,
                DeadlinePasses, storeVars
  <2>4. CASE ConnectSession \/ ListTools \/ CloseSession \/ ExecuteSearch
    BY <2>4 DEF ConnectSession, ListTools, CloseSession, ExecuteSearch, storeVars
  <2>5. CASE UNCHANGED mcpVars
    BY <2>5 DEF mcpVars, storeVars
  <2> QED
    BY <2>1, <2>2, <2>3, <2>4, <2>5 DEF McpNext
<1> QED
  BY <1>1, <1>2, McpInvariant, PTL DEF McpSpec, McpImplementsStatus, McpStatus!Spec
=============================================================================
