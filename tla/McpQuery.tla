------------------------------- MODULE McpQuery -------------------------------
(***************************************************************************)
(* Queries to /mcp: the handler that accepts one (internal/mcpImpl,          *)
(* HandleRequest), the goroutine in which an LLM uses tools to answer it     *)
(* (runToolLoop), the MCP client session that calls the tools, and the       *)
(* search tool, which puts a job into the job channel and polls for its      *)
(* outcome (ProcessQuery).                                                  *)
(*                                                                         *)
(* The jobs of the search tool are seen as any client sees them: their       *)
(* status follows JobStatus.tla, which JobExecution.tla implements.          *)
(* Messages to and from the LLM are translated by LlmMessages.tla.           *)
(***************************************************************************)
EXTENDS LlmMessages

CONSTANTS
    Query,          \* queries to /mcp
    Provider,       \* LLM providers that may be configured
    MaxIterations,  \* maxToolUseIterations
    PollTimes,      \* pauses before each poll of the search tool
    PollTimeout,    \* its deadline, in the same unit
    StoresMayFail,  \* may the job store fail?
    MaxCalls,       \* bound: tool calls in one response
    MaxSearches     \* bound: calls of the search tool for one query

Search == Query \X (1..MaxSearches)
ToolName == {"search", "message"}

ASSUME McpAssumption ==
    /\ Provider \subseteq {"claude", "gemini", "openai"}
    /\ MaxIterations \in Nat \ {0} /\ MaxCalls \in Nat /\ MaxSearches \in Nat
    /\ PollTimes \in Seq(Nat \ {0}) /\ PollTimes # <<>> /\ PollTimeout \in Nat
    /\ StoresMayFail \in BOOLEAN

VARIABLES
    provider,       \* the provider of this process
    session,        \* the session of the MCP client
    mcpTools,       \* the tools the session has listed
    phase,          \* where each query is
    loop,           \* the locals of each loop
    poll,           \* the locals of the search a loop waits for
    searches,       \* searches each query has started
    queryStatus,    \* the job store: status of each query
    searchStatus    \* the job store: status of each job of the search tool

sessionVars == <<provider, session, mcpTools>>
storeVars == <<queryStatus, searchStatus>>
mcpVars == <<sessionVars, phase, loop, poll, searches, storeVars>>

\* The tools offered to the LLM, the rounds so far, the conversation, the calls of the
\* last response still to be made, and what came of those already made.
NoLoop == [tools |-> {}, iteration |-> 0, messages |-> <<>>, pending |-> <<>>, results |-> <<>>]
\* The polls made, and whether the deadline is over.
NoPoll == [count |-> 0, late |-> FALSE]

\* The job of the search a query waits for.
CurrentSearch(q) == <<q, searches[q]>>

Phase == {"new", "refused", "starting", "asking", "calling", "requesting", "submitting",
          "polling", "succeeded", "failed", "ended"}
InCall == {"calling", "requesting", "submitting", "polling"}
Outcome == {"answer", "failed", "empty", "invalid", "none", "message", "error"}

McpTypeOK ==
    /\ provider \in Provider
    /\ session \in {"none", "connected", "closed"}
    /\ mcpTools \subseteq ToolName
    /\ phase \in [Query -> Phase]
    /\ searches \in [Query -> 0..MaxSearches]
    /\ queryStatus \in [Query -> {"unknown", "RUNNING", "COMPLETE", "Error"}]
    /\ searchStatus \in [Search -> {"unknown", "RUNNING", "COMPLETE", "Error"}]
    /\ \A q \in Query :
          /\ loop[q].tools \subseteq ToolName
          /\ loop[q].iteration \in 0..MaxIterations
          /\ Len(loop[q].messages) <= 1 + 2 * MaxIterations
          /\ loop[q].pending # <<>> => phase[q] \in InCall
          /\ \A i \in DOMAIN loop[q].results : loop[q].results[i].outcome \in Outcome
          /\ poll[q].count \in 0..Len(PollTimes)
          /\ poll[q] # NoPoll => phase[q] = "polling"

McpInit ==
    /\ provider \in Provider
    /\ session = "none"
    /\ mcpTools = {}
    /\ phase = [q \in Query |-> "new"]
    /\ loop = [q \in Query |-> NoLoop]
    /\ poll = [q \in Query |-> NoPoll]
    /\ searches = [q \in Query |-> 0]
    /\ queryStatus = [q \in Query |-> "unknown"]
    /\ searchStatus = [j \in Search |-> "unknown"]

-----------------------------------------------------------------------------
(***************************************************************************)
(* The session                                                              *)
(***************************************************************************)

\* The client connects, in a goroutine of its own, once; it may fail and never try again.
ConnectSession ==
    /\ session = "none"
    /\ session' = "connected"
    /\ UNCHANGED <<provider, mcpTools, phase, loop, poll, searches, storeVars>>

\* It then lists the tools, once.
ListTools ==
    /\ session = "connected" /\ mcpTools = {}
    /\ mcpTools' = ToolName
    /\ UNCHANGED <<provider, session, phase, loop, poll, searches, storeVars>>

\* The shutdown cancels the services' context, and the session is closed.
CloseSession ==
    /\ session = "connected"
    /\ session' = "closed"
    /\ UNCHANGED <<provider, mcpTools, phase, loop, poll, searches, storeVars>>

-----------------------------------------------------------------------------
(***************************************************************************)
(* The loop                                                                 *)
(***************************************************************************)

Goes(q, p) == phase' = [phase EXCEPT ![q] = p]

\* MCPHandler answers 202 in any case.  The record is saved on the context of the request,
\* which ends when the client goes away: it may be stored and an error be returned, and then
\* no loop follows.
HandleRequest(q) ==
    /\ phase[q] = "new"
    /\ \/ queryStatus' = [queryStatus EXCEPT ![q] = "RUNNING"] /\ Goes(q, "starting")
       \/ queryStatus' = [queryStatus EXCEPT ![q] = "RUNNING"] /\ Goes(q, "refused")
       \/ UNCHANGED queryStatus /\ Goes(q, "refused")
    /\ UNCHANGED <<sessionVars, loop, poll, searches, searchStatus>>

\* The goroutine starts: the tools known now are those of the whole loop.
StartLoop(q) ==
    /\ phase[q] = "starting"
    /\ loop' = [loop EXCEPT ![q].tools = mcpTools,
                            ![q].messages = <<Message("user", <<Text>>)>>]
    /\ Goes(q, "asking")
    /\ UNCHANGED <<sessionVars, poll, searches, storeVars>>

\* The tools an API may call in one response, of those it was offered.
CallNames(q) ==
    {names \in BoundedSeq(loop[q].tools, MaxCalls) :
        Len(Select(names, {"search"})) <= MaxSearches - searches[q]}

\* Only Gemini may leave the ids of its calls out; those given are theirs alone.
IdsGiven == IF provider = "gemini" THEN BOOLEAN ELSE {TRUE}
CallsWith(q, names, given) ==
    [k \in DOMAIN names |->
        Use(IF given THEN <<loop[q].iteration + 1, k>> ELSE NoId, names[k])]
NewCalls(q) == {CallsWith(q, names, given) : names \in CallNames(q), given \in IdsGiven}

\* What an API may answer: calls or none, after a text or not, and a reason.
ApiResponse(q) ==
    [parts : NewCalls(q) \cup {<<Text>> \o calls : calls \in NewCalls(q)},
     finish : {"stop", "tools", "length"}]

\* Tool use is the reason only when there are calls, and a text alone is no tool use.
Plausible(r) == IF Uses(r.parts) = <<>> THEN r.finish # "tools" ELSE r.finish # "stop"

\* The loop is over, and what it knew is gone.
EndLoop(q, p) ==
    /\ loop' = [loop EXCEPT ![q] = NoLoop]
    /\ Goes(q, p)

\* The response ends the turn: its first text is the answer.
EndTurn(q, response) ==
    /\ response.stop = "end_turn"
    /\ EndLoop(q, IF Text \in ToSet(response.content) THEN "succeeded" ELSE "failed")

\* Variant: the round is not counted.
UseToolsUncounted(q, response) ==
    /\ response.stop = "tool_use"
    /\ loop' = [loop EXCEPT ![q].messages = Append(@, Message("assistant", response.content)),
                            ![q].pending = Uses(response.content),
                            ![q].results = <<>>]
    /\ Goes(q, "calling")

\* The response calls tools.
UseTools(q, response) ==
    /\ response.stop = "tool_use"
    /\ loop' = [loop EXCEPT ![q].messages = Append(@, Message("assistant", response.content)),
                            ![q].pending = Uses(response.content),
                            ![q].results = <<>>,
                            ![q].iteration = @ + 1]
    /\ Goes(q, "calling")

\* The LLM answers, or the call fails.
AskLlm(q) ==
    /\ phase[q] = "asking" /\ loop[q].iteration < MaxIterations
    /\ \/ EndLoop(q, "failed")
       \/ \E r \in ApiResponse(q) :
             /\ Plausible(r)
             /\ LET response == FromApi(provider, r)
                IN  EndTurn(q, response) \/ UseTools(q, response)
    /\ UNCHANGED <<sessionVars, poll, searches, storeVars>>

\* The rounds are used up.
GiveUp(q) ==
    /\ phase[q] = "asking" /\ loop[q].iteration = MaxIterations
    /\ EndLoop(q, "failed")
    /\ UNCHANGED <<sessionVars, poll, searches, storeVars>>

\* All calls are made; their results are the next message.
ReturnResults(q) ==
    /\ phase[q] = "calling" /\ loop[q].pending = <<>>
    /\ LET results == loop[q].results
           blocks == [i \in DOMAIN results |-> Result(results[i].call)]
       IN  loop' = [loop EXCEPT ![q].messages = Append(@, Message("user", blocks)),
                                ![q].results = <<>>]
    /\ Goes(q, "asking")
    /\ UNCHANGED <<sessionVars, poll, searches, storeVars>>

\* Variant: after an error has been saved, the code goes on to save a COMPLETE.
SaveOutcomeAndGoOn(q) ==
    /\ \/ /\ phase[q] = "failed"
          /\ queryStatus' = [queryStatus EXCEPT ![q] = "Error"]
          /\ Goes(q, "succeeded")
       \/ /\ phase[q] = "succeeded"
          /\ queryStatus' = [queryStatus EXCEPT ![q] = "COMPLETE"]
          /\ Goes(q, "ended")
    /\ UNCHANGED <<sessionVars, loop, poll, searches, searchStatus>>

\* The outcome is saved on a context that never ends; an error is not looked at.
SaveOutcome(q) ==
    /\ phase[q] \in {"succeeded", "failed"}
    /\ LET outcome == IF phase[q] = "succeeded" THEN "COMPLETE" ELSE "Error"
       IN  \/ queryStatus' = [queryStatus EXCEPT ![q] = outcome]
           \/ StoresMayFail /\ UNCHANGED queryStatus
    /\ Goes(q, "ended")
    /\ UNCHANGED <<sessionVars, loop, poll, searches, searchStatus>>

-----------------------------------------------------------------------------
(***************************************************************************)
(* Calls of tools                                                           *)
(***************************************************************************)

\* What came of the current call.
Report(q, o) == [call |-> Head(loop[q].pending), outcome |-> o, search |-> searches[q]]

\* Variant: a call that failed leaves no result.
ReturnUnlessError(q, o) ==
    /\ loop' = [loop EXCEPT ![q].results = IF o = "error" THEN @ ELSE Append(@, Report(q, o)),
                            ![q].pending = Tail(@)]
    /\ poll' = [poll EXCEPT ![q] = NoPoll]
    /\ Goes(q, "calling")

\* Variant: a call that failed is made again.
RetryOnError(q, o) ==
    /\ IF o = "error"
         THEN UNCHANGED loop
         ELSE loop' = [loop EXCEPT ![q].results = Append(@, Report(q, o)),
                                   ![q].pending = Tail(@)]
    /\ poll' = [poll EXCEPT ![q] = NoPoll]
    /\ Goes(q, "calling")

\* The current call is over, with outcome o.
Return(q, o) ==
    /\ loop' = [loop EXCEPT ![q].results = Append(@, Report(q, o)),
                            ![q].pending = Tail(@)]
    /\ poll' = [poll EXCEPT ![q] = NoPoll]
    /\ Goes(q, "calling")

\* A call may be made while there are calls left and a session to make them on.
Calls(q, name) ==
    /\ phase[q] = "calling" /\ session = "connected"
    /\ loop[q].pending # <<>> /\ Head(loop[q].pending).name = name

\* A call fails without a session, when the session closes, or because of the tool.
FailCall(q) ==
    /\ \/ phase[q] = "calling" /\ loop[q].pending # <<>>
       \/ phase[q] = "requesting"
       \/ phase[q] \in {"submitting", "polling"} /\ session = "closed"
    /\ Return(q, "error")
    /\ UNCHANGED <<sessionVars, searches, storeVars>>

\* get_system_message sends a request to an external API ...
CallApi(q) ==
    /\ Calls(q, "message")
    /\ Goes(q, "requesting")
    /\ UNCHANGED <<sessionVars, loop, poll, searches, storeVars>>

\* ... and returns what it says.
GetSystemMessage(q) ==
    /\ phase[q] = "requesting"
    /\ Return(q, "message")
    /\ UNCHANGED <<sessionVars, searches, storeVars>>

\* search_knowledge_base creates a job; the call blocks while the channel is full.  No
\* more searches are asked for than MaxSearches (CallNames), so the bound stops nobody.
StartSearch(q) ==
    /\ Calls(q, "search")
    /\ searches[q] < MaxSearches
    /\ searches' = [searches EXCEPT ![q] = @ + 1]
    /\ Goes(q, "submitting")
    /\ UNCHANGED <<sessionVars, loop, poll, storeVars>>

\* The job is in the channel; the polls and the deadline begin.
InsertJob(q) ==
    /\ phase[q] = "submitting"
    /\ Goes(q, "polling")
    /\ UNCHANGED <<sessionVars, loop, poll, searches, storeVars>>

DeadlinePasses(q) ==
    /\ phase[q] = "polling" /\ ~poll[q].late
    /\ poll' = [poll EXCEPT ![q].late = TRUE]
    /\ UNCHANGED <<sessionVars, phase, loop, searches, storeVars>>

\* The deadline is over, and the tool returns without an answer and without an error:
\* the error it asks for is that of another context.
TimeOut(q) ==
    /\ phase[q] = "polling" /\ poll[q].late
    /\ Return(q, "empty")
    /\ UNCHANGED <<sessionVars, searches, storeVars>>

\* The time of the n-th poll, when nothing is late.
Elapsed(n) == FoldSeq(+, 0, SubSeq(PollTimes, 1, n))

\* The pause before poll n is over.  It cannot be before the deadline is, if it takes
\* longer than the time that is left; after that, either may be noticed first.
PauseOver(q, n) == poll[q].late \/ Elapsed(n) <= PollTimeout

\* The store is asked on the context of the deadline.
IsFound(q) == ~poll[q].late /\ searchStatus[CurrentSearch(q)] # "unknown"
MayBeMissed(q) == ~IsFound(q) \/ StoresMayFail

\* Variant: a job that was found is done.
FoundIsDone(q) == TRUE

IsDone(q) == searchStatus[CurrentSearch(q)] \in {"COMPLETE", "Error"}

Poll(q) ==
    LET n == poll[q].count + 1
        failed == searchStatus[CurrentSearch(q)] = "Error"
    IN  /\ phase[q] = "polling" /\ PauseOver(q, n)
        /\ \/ /\ IsFound(q) /\ IsDone(q)
              /\ Return(q, IF failed THEN "failed" ELSE "answer")
           \/ /\ IsFound(q) /\ ~IsDone(q)
              /\ IF n = Len(PollTimes)
                   THEN Return(q, "none")
                   ELSE poll' = [poll EXCEPT ![q].count = n] /\ UNCHANGED <<loop, phase>>
           \/ /\ MayBeMissed(q)
              /\ Return(q, "invalid")
        /\ UNCHANGED <<sessionVars, searches, storeVars>>

-----------------------------------------------------------------------------
\* The other side of the channel: the job of a search is executed.
Searches == INSTANCE JobStatus WITH Job <- Search, status <- searchStatus

Submitted(j) ==
    \/ j[2] < searches[j[1]]
    \/ j[2] = searches[j[1]] /\ phase[j[1]] # "submitting"

ExecuteSearch ==
    /\ \E j \in Search : Submitted(j) /\ (Searches!Run(j) \/ Searches!End(j))
    /\ UNCHANGED <<sessionVars, phase, loop, poll, searches, queryStatus>>

\* A call returns an error by itself when it has no session to be made on, or loses it.
LoseSession(q) == session # "connected" /\ FailCall(q)

\* The steps of the goroutine of a query, or of the tool it waits for, that wait for nobody.
OwnStep(q) ==
    \/ StartLoop(q) \/ GiveUp(q) \/ ReturnResults(q) \/ SaveOutcome(q) \/ LoseSession(q)
    \/ CallApi(q) \/ StartSearch(q) \/ TimeOut(q) \/ Poll(q)

\* All its steps: an answer of the LLM, of a tool or of the external API, or room in the
\* job channel, may also never come.
LoopStep(q) ==
    OwnStep(q) \/ AskLlm(q) \/ FailCall(q) \/ GetSystemMessage(q) \/ InsertJob(q)

McpNext ==
    \/ ConnectSession \/ ListTools \/ CloseSession
    \/ \E q \in Query : HandleRequest(q) \/ LoopStep(q) \/ DeadlinePasses(q)
    \/ ExecuteSearch

McpSpec == McpInit /\ [][McpNext]_mcpVars

\* A goroutine that waits for nobody runs, and timers fire.  Nothing is assumed of the LLM,
\* of the external API and of the job channel: the loop runs on context.Background(), its
\* HTTP clients have no timeout, and the send on the channel blocks.  Nothing is assumed of
\* the session either, nor of the jobs of the search tool.
McpFairness ==
    \A q \in Query : WF_mcpVars(OwnStep(q)) /\ WF_mcpVars(DeadlinePasses(q))

FairMcpSpec == McpSpec /\ McpFairness

-----------------------------------------------------------------------------
(***************************************************************************)
(* Properties                                                               *)
(***************************************************************************)

\* What runToolLoop sends is a conversation the provider's API accepts: whatever the
\* mixture of text and calls in a response, and whether the calls succeed, fail, time
\* out or lose their session, each is answered, once and in order.  An API refuses any
\* other conversation, and the query would end in an error.
ConversationAccepted ==
    \A q \in Query :
        phase[q] = "asking" => Accepted(provider, ToApi(provider, loop[q].messages))

\* What the search tool tells the LLM of its job is settled: an answer belongs to a job
\* that is COMPLETE and a failure to one in Error, however the polls of pollForAnswers
\* interleave with the execution of the job and with the deadline.
SearchAnswersAreFinal ==
    \A q \in Query : \A i \in DOMAIN loop[q].results :
        LET r == loop[q].results[i]
        IN  /\ r.outcome = "answer" => searchStatus[<<q, r.search>>] = "COMPLETE"
            /\ r.outcome = "failed" => searchStatus[<<q, r.search>>] = "Error"

\* A client that polls /status/{id} of a query sees what it would see of a job: the
\* status never goes back, and an outcome is final.
McpStatus == INSTANCE JobStatus WITH Job <- Query, status <- queryStatus
McpImplementsStatus == McpStatus!Spec

\* The loop waits for somebody else: an answer of the LLM, a call of get_system_message, or
\* room in the job channel.
WaitsOutside(q) ==
    \/ phase[q] = "asking" /\ loop[q].iteration < MaxIterations
    \/ phase[q] \in {"requesting", "submitting"} /\ session = "connected"

\* Only one call that never returns keeps a loop from its end, and the record of the query
\* RUNNING for ever: no timeout of the code ends such a call.  Whatever the mixture of calls
\* and failures, when each of them returns the loop ends, in at most maxToolUseIterations
\* rounds, even if the job of a search is never executed or the session is closed meanwhile.
LoopEnds ==
    \A q \in Query : (phase[q] = "starting" ~> phase[q] = "ended") \/ <>[]WaitsOutside(q)

\* ragutils.go:67 says of a search that finds no job: "this is a case that shouldnt really
\* happen since we created the job just now".  With a store that works it may happen: the
\* record of a job is written when a worker takes the job from the channel, and the
\* first poll comes 10 ms after the job is put there.
SearchFindsItsJob ==
    \A q \in Query : \A i \in DOMAIN loop[q].results :
        loop[q].results[i].outcome # "invalid"
=============================================================================
