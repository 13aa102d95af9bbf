---------------------------- MODULE JobExecution ----------------------------
(***************************************************************************)
(* What happens to a job: the caller that creates it and its chat           *)
(* (internal/job/impl.go), the worker that executes it                      *)
(* (internal/worker/workerMethods.go), the RAG pipeline                     *)
(* (internal/rag/ragService.go), and the stores the outcome goes to          *)
(* (internal/data/store, on Redis).                                         *)
(*                                                                         *)
(* The pool is the abstract queue of JobQueue.tla, which WorkerPool.tla      *)
(* implements: up to MaxRunning jobs are executed at once.  Each call to a   *)
(* store or to an external service is a step of its own, and the executions  *)
(* of different jobs interleave with each other, with the callers that still *)
(* have to create their chats, with answers being cached in the background,  *)
(* with contexts that expire, and with a crash of the process.               *)
(*                                                                         *)
(* Data is abstracted to what the properties tell apart.  An answer is the   *)
(* job whose LLM call generated it; a question is a class of questions that  *)
(* the semantic cache takes for the same; an exchange in a chat is the job   *)
(* it came from.                                                            *)
(***************************************************************************)
EXTENDS JobQueue

CONSTANTS
    IngestJob,      \* jobs that ingest a document
    McpJob,         \* jobs created by the search tool of the MCP server
    NewChatJob,     \* jobs that open a chat (IsNewChat)
    Chat,           \* chat ids
    ChatOf,         \* the chat of a query
    Question,       \* classes of questions
    QuestionOf,     \* the class of the question of a query
    Seed,           \* the empty payload InitNewChat pushes
    NoAnswer,       \* no answer
    StoresMayFail,  \* may calls to Redis fail while the context is live?
    MaxCrashes      \* bound: crashes of the process

QueryJob == Job \ IngestJob

ASSUME JobKindAssumption ==
    /\ IngestJob \subseteq Job /\ McpJob \subseteq QueryJob
    /\ NewChatJob \subseteq QueryJob /\ McpJob \subseteq NewChatJob
    /\ ChatOf \in [QueryJob -> Chat] /\ QuestionOf \in [QueryJob -> Question]
    /\ \A j, k \in NewChatJob : ChatOf[j] = ChatOf[k] => j = k
    /\ Seed \notin Job /\ NoAnswer \notin Job
    /\ StoresMayFail \in BOOLEAN /\ MaxCrashes \in Nat

VARIABLES
    creator,        \* where the call of CreateJob for each job is
    step,           \* the next step of each execution
    context,        \* the context of 60 seconds of each execution
    result,         \* the worker's copy of the status of the job
    answer,         \* the worker's copy of the answer
    failedIngest,   \* history: documents whose ingestion failed
    caching,        \* answers that a goroutine is saving to the cache
    cache,          \* the semantic cache: jobs whose answer is in it
    jobStore,       \* the job store
    chats,          \* the message store; an empty list is an absent key
    crashes         \* number of crashes

executionVars == <<step, context, result, answer, failedIngest>>
storeVars == <<jobStore, chats>>
cacheVars == <<caching, cache>>
allVars == <<vars, creator, executionVars, storeVars, cacheVars, crashes>>

Step == {"none", "starting", "ingesting", "embedding", "cacheCheck", "searching",
         "generating", "savingChat", "pushingChat", "saving"}

\* What the job store holds of a job: its status and its answer.
Status == {"unknown", "RUNNING", "COMPLETE", "Error"}
Record == [status : Status, answer : QueryJob \cup {NoAnswer}]
Absent == [status |-> "unknown", answer |-> NoAnswer]

\* An entry of a chat, most recent last: a list of Redis.
Exchanges(c) == {chats[c][i] : i \in DOMAIN chats[c]}
Exists(c) == chats[c] # <<>>

ExecutionTypeOK ==
    /\ waiting \subseteq Job /\ queue \in Seq(Job)
    /\ running \subseteq Job /\ completed \subseteq Job
    /\ creator \in [Job -> {"new", "pushing", "clearing", "seeding", "returned", "lost"}]
    /\ step \in [Job -> Step]
    /\ context \in [Job -> {"live", "expired", "cancelled"}]
    /\ result \in [Job -> {"QUEUED", "COMPLETE", "Error"}]
    /\ answer \in [Job -> QueryJob \cup {NoAnswer}]
    /\ failedIngest \subseteq IngestJob
    /\ caching \subseteq QueryJob /\ cache \subseteq QueryJob
    /\ jobStore \in [Job -> Record]
    /\ chats \in [Chat -> Seq(QueryJob \cup {Seed})]
    /\ \A j \in Job : step[j] # "none" <=> j \in running
    /\ crashes \in 0..MaxCrashes

ExecutionInit ==
    /\ Init
    /\ creator = [j \in Job |-> "new"]
    /\ step = [j \in Job |-> "none"]
    /\ context = [j \in Job |-> "live"]
    /\ result = [j \in Job |-> "QUEUED"]
    /\ answer = [j \in Job |-> NoAnswer]
    /\ failedIngest = {}
    /\ caching = {}
    /\ cache = {}
    /\ jobStore = [j \in Job |-> Absent]
    /\ chats = [c \in Chat |-> <<>>]
    /\ crashes = 0

-----------------------------------------------------------------------------
(***************************************************************************)
(* CreateJob                                                                *)
(***************************************************************************)

\* A query that does not open a chat names one that exists (validateMessage).
ChatIsValid(j) == j \in QueryJob \ NewChatJob => Exists(ChatOf[j])

CreateJob(j) ==
    /\ creator[j] = "new"
    /\ ChatIsValid(j)
    /\ Request(j)
    /\ creator' = [creator EXCEPT ![j] = "pushing"]
    /\ UNCHANGED <<executionVars, storeVars, cacheVars, crashes>>

\* The job is pushed first; a new chat is created afterwards, when a worker may
\* be executing the job already.
PushJob(j) ==
    /\ Enqueue(j)
    /\ creator' = [creator EXCEPT ![j] = IF j \in NewChatJob THEN "clearing" ELSE "returned"]
    /\ UNCHANGED <<executionVars, storeVars, cacheVars, crashes>>

\* May a call to Redis go wrong, with a context in state c?  And well?
StoreFails(c) == c # "live" \/ StoresMayFail
StoreWorks(c) == c = "live"

\* InitNewChat deletes the key; an error is not looked at.
ClearChat(j) ==
    /\ creator[j] = "clearing"
    /\ \/ chats' = [chats EXCEPT ![ChatOf[j]] = <<>>]
       \/ StoreFails("live") /\ UNCHANGED chats
    /\ creator' = [creator EXCEPT ![j] = "seeding"]
    /\ UNCHANGED <<vars, executionVars, jobStore, cacheVars, crashes>>

\* It then pushes an empty payload, which creates the key; CreateJob returns.
SeedChat(j) ==
    /\ creator[j] = "seeding"
    /\ \/ chats' = [chats EXCEPT ![ChatOf[j]] = Append(@, Seed)]
       \/ StoreFails("live") /\ UNCHANGED chats
    /\ creator' = [creator EXCEPT ![j] = "returned"]
    /\ UNCHANGED <<vars, executionVars, jobStore, cacheVars, crashes>>

-----------------------------------------------------------------------------
(***************************************************************************)
(* executeJob                                                               *)
(*                                                                         *)
(* Two things the code does here leave no trace in this state.  The history  *)
(* of the chat is read and handed to the LLM: Conversation.tla adds that.    *)
(* The pipeline has a context of 30 seconds of its own: any of its steps may *)
(* fail, for that reason or another.                                        *)
(***************************************************************************)

\* The execution of j moves on to step s.
GoTo(j, s) == step' = [step EXCEPT ![j] = s]

\* A call on the context of j can succeed.
Works(j) == context[j] = "live"

\* A worker receives the job.
StartJob ==
    /\ Start
    /\ GoTo(Head(queue), "starting")
    /\ UNCHANGED <<creator, context, result, answer, failedIngest, storeVars, cacheVars,
                   crashes>>

\* SaveJob writes the record of j with status s, or fails and is only logged.
SaveJob(j, s) ==
    \/ /\ StoreWorks(context[j])
       /\ jobStore' = [jobStore EXCEPT ![j] = [status |-> s, answer |-> answer[j]]]
    \/ /\ StoreFails(context[j])
       /\ UNCHANGED jobStore

\* The status RUNNING is saved; the worker's own copy keeps its status.
SaveRunning(j) ==
    /\ step[j] = "starting"
    /\ SaveJob(j, "RUNNING")
    /\ GoTo(j, IF j \in IngestJob THEN "ingesting" ELSE "embedding")
    /\ UNCHANGED <<vars, creator, context, result, answer, failedIngest, chats, cacheVars,
                   crashes>>

\* The document is ingested or not: ingestDocument drops the job that
\* IngestDocument returns, and with it the error.
IngestDocument(j) ==
    /\ step[j] = "ingesting"
    /\ \/ Works(j) /\ UNCHANGED failedIngest
       \/ failedIngest' = failedIngest \cup {j}
    /\ GoTo(j, "saving")
    /\ UNCHANGED <<vars, creator, context, result, answer, storeVars, cacheVars, crashes>>

\* Variant: the exchange of a job that failed is saved too.
FailRagWithChat(j) ==
    /\ result' = [result EXCEPT ![j] = "Error"]
    /\ GoTo(j, "savingChat")
    /\ UNCHANGED <<answer, cacheVars>>

\* A step of the pipeline that fails makes the job an error, which is saved at once.
FailRag(j) ==
    /\ result' = [result EXCEPT ![j] = "Error"]
    /\ GoTo(j, "saving")
    /\ UNCHANGED <<answer, cacheVars>>

\* A step of the pipeline that succeeds without an answer yet.
ContinueRag(j, s) ==
    /\ Works(j)
    /\ GoTo(j, s)
    /\ UNCHANGED <<result, answer, cacheVars>>

\* Variant: the job is reported before its exchange is kept.
AnswerWithoutChat(j, a) ==
    /\ answer' = [answer EXCEPT ![j] = a]
    /\ GoTo(j, "saving")
    /\ UNCHANGED result

\* The job has its answer a.
AnswerWith(j, a) ==
    /\ answer' = [answer EXCEPT ![j] = a]
    /\ GoTo(j, "savingChat")
    /\ UNCHANGED result

\* Variant: MCP jobs look at the cache too.
CachesAllJobs(j) == TRUE

\* MCP jobs do not look at the cache.
LooksAtCache(j) == j \notin McpJob

Embed(j) ==
    /\ step[j] = "embedding"
    /\ \/ ContinueRag(j, IF LooksAtCache(j) THEN "cacheCheck" ELSE "searching")
       \/ FailRag(j)

\* The cached answers to a question similar enough to the one of j.
SimilarInCache(j) == {a \in cache : QuestionOf[a] = QuestionOf[j]}

\* The cache is asked on the context of 60 seconds; an error counts as a miss.
CheckCache(j) ==
    /\ step[j] = "cacheCheck"
    /\ \/ /\ Works(j)
          /\ \E a \in SimilarInCache(j) : AnswerWith(j, a)
          /\ UNCHANGED cacheVars
       \/ /\ GoTo(j, "searching")
          /\ UNCHANGED <<result, answer, cacheVars>>

Search(j) ==
    /\ step[j] = "searching"
    /\ \/ ContinueRag(j, "generating")
       \/ FailRag(j)

\* The LLM answers, and a goroutine starts to save the answer to the cache.
Generate(j) ==
    /\ step[j] = "generating"
    /\ \/ Works(j) /\ AnswerWith(j, j) /\ caching' = caching \cup {j} /\ UNCHANGED cache
       \/ FailRag(j)

ProcessRequest(j) ==
    /\ Embed(j) \/ CheckCache(j) \/ Search(j) \/ Generate(j)
    /\ UNCHANGED <<vars, creator, context, failedIngest, storeVars, crashes>>

\* TrySaveChat looks whether the chat exists, and gives up if it does not ...
ValidateChat(j) ==
    /\ step[j] = "savingChat"
    /\ \/ StoreWorks(context[j]) /\ Exists(ChatOf[j]) /\ GoTo(j, "pushingChat")
       \/ (StoreFails(context[j]) \/ ~Exists(ChatOf[j])) /\ GoTo(j, "saving")
    /\ UNCHANGED <<vars, creator, context, result, answer, failedIngest, storeVars, cacheVars,
                   crashes>>

\* ... and pushes the exchange.
PushExchange(j) ==
    /\ step[j] = "pushingChat"
    /\ \/ StoreWorks(context[j]) /\ chats' = [chats EXCEPT ![ChatOf[j]] = Append(@, j)]
       \/ StoreFails(context[j]) /\ UNCHANGED chats
    /\ GoTo(j, "saving")
    /\ UNCHANGED <<vars, creator, context, result, answer, failedIngest, jobStore, cacheVars,
                   crashes>>

\* Variant: a job that succeeded keeps the status it came with.
KeepsStatus(j) == result[j]

\* A job that is no error is complete.
FinalStatus(j) == IF result[j] = "Error" THEN "Error" ELSE "COMPLETE"

\* Variant: a job that ended in an error is queued again.
FinishOrRetry(j) ==
    /\ step[j] = "saving"
    /\ SaveJob(j, FinalStatus(j))
    /\ IF result[j] = "Error"
         THEN /\ queue' = Append(queue, j) /\ running' = running \ {j}
              /\ UNCHANGED <<waiting, completed>>
         ELSE Complete(j)
    /\ GoTo(j, "none")
    /\ result' = [result EXCEPT ![j] = "QUEUED"]
    /\ UNCHANGED <<creator, context, answer, failedIngest, chats, cacheVars, crashes>>

\* The outcome is saved, executeJob returns and its context is cancelled.
FinishJob(j) ==
    /\ step[j] = "saving"
    /\ result' = [result EXCEPT ![j] = FinalStatus(j)]
    /\ SaveJob(j, FinalStatus(j))
    /\ Complete(j)
    /\ GoTo(j, "none")
    /\ context' = [context EXCEPT ![j] = "cancelled"]
    /\ UNCHANGED <<creator, answer, failedIngest, chats, cacheVars, crashes>>

ExecuteJob(j) ==
    \/ SaveRunning(j)
    \/ IngestDocument(j)
    \/ ProcessRequest(j)
    \/ ValidateChat(j)
    \/ PushExchange(j)
    \/ FinishJob(j)

\* The background goroutine uses the context of the job, which is cancelled when
\* executeJob returns.
SaveToCache(j) ==
    /\ j \in caching
    /\ caching' = caching \ {j}
    /\ \/ Works(j) /\ cache' = cache \cup {j}
       \/ UNCHANGED cache
    /\ UNCHANGED <<vars, creator, executionVars, storeVars, crashes>>

-----------------------------------------------------------------------------
(***************************************************************************)
(* Time and crashes                                                         *)
(***************************************************************************)

\* The 60 seconds of an execution are over.
ExpireJob(j) ==
    /\ j \in running
    /\ context[j] = "live"
    /\ context' = [context EXCEPT ![j] = "expired"]
    /\ UNCHANGED <<vars, creator, step, result, answer, failedIngest, storeVars,
                   cacheVars, crashes>>

\* The process dies, of a panic in a worker for instance, and is started again:
\* the channel, the callers, the executions and the cache writes are lost, the
\* stores remain.
Crash ==
    /\ crashes < MaxCrashes
    /\ crashes' = crashes + 1
    /\ waiting' = {} /\ queue' = <<>> /\ running' = {}
    /\ creator' = [j \in Job |-> IF creator[j] \in {"new", "returned"} THEN creator[j] ELSE "lost"]
    /\ step' = [j \in Job |-> "none"]
    /\ caching' = {}
    /\ UNCHANGED <<completed, context, result, answer, failedIngest, storeVars, cache>>

ExecutionNext ==
    \/ \E j \in Job : CreateJob(j) \/ PushJob(j)
    \/ \E j \in NewChatJob : ClearChat(j) \/ SeedChat(j)
    \/ StartJob
    \/ \E j \in Job : ExecuteJob(j)
    \/ \E j \in QueryJob : SaveToCache(j)
    \/ \E j \in Job : ExpireJob(j)
    \/ Crash

ExecutionSpec == ExecutionInit /\ [][ExecutionNext]_allVars

\* Callers and workers run, and every external call returns, at the latest when its
\* context expires.  Contexts need not expire, the process need not crash.
ExecutionFairness ==
    /\ \A j \in Job : WF_allVars(PushJob(j))
    /\ \A j \in NewChatJob : WF_allVars(ClearChat(j) \/ SeedChat(j))
    /\ WF_allVars(StartJob)
    /\ \A j \in Job : WF_allVars(ExecuteJob(j))

FairExecutionSpec == ExecutionSpec /\ ExecutionFairness

-----------------------------------------------------------------------------
(***************************************************************************)
(* Safety                                                                   *)
(***************************************************************************)

Polled(j) == jobStore[j].status

ClientView == INSTANCE JobStatus WITH status <- [j \in Job |-> Polled(j)]

\* Whatever the interleavings, lost writes and crashes, the status a client polls
\* never goes back and never changes once it is final.
ImplementsJobStatus == ClientView!Spec

\* A query that is COMPLETE has an answer, to its own question: from its own LLM
\* call, or from the cache; for an MCP job from its own LLM call only.
AnswerIsToTheQuestion ==
    \A j \in QueryJob : Polled(j) = "COMPLETE" =>
        LET a == jobStore[j].answer
        IN  /\ a # NoAnswer
            /\ QuestionOf[a] = QuestionOf[j]
            /\ j \in McpJob => a = j

\* A chat is its seed followed by exchanges of that chat, each once, and only of
\* jobs that were answered: an error never enters the history of a conversation.
ChatWellFormed ==
    \A c \in Chat : Exists(c) =>
        /\ chats[c][1] = Seed
        /\ \A i \in 2..Len(chats[c]) :
              /\ chats[c][i] \in QueryJob
              /\ ChatOf[chats[c][i]] = c
              /\ answer[chats[c][i]] # NoAnswer /\ result[chats[c][i]] # "Error"
        /\ \A i, k \in DOMAIN chats[c] : chats[c][i] = chats[c][k] => i = k

\* A client that polls COMPLETE after a follow-up finds the exchange in the chat, so
\* that its next question builds on it, as long as the stores themselves do not fail.
\* A crash does not break this, since the chat is saved before the status, and
\* neither does a context that expires, since the status is then lost as well.
CompletedFollowUpIsInChat ==
    \A j \in QueryJob \ NewChatJob :
        ~StoresMayFail /\ Polled(j) = "COMPLETE" => j \in Exchanges(ChatOf[j])

\* rag_test.go:152-159: a document whose ingestion failed is reported as an error.
FailedIngestIsReported == \A j \in IngestJob : j \in failedIngest => Polled(j) # "COMPLETE"

\* requestHandler.go:160: /chat is for conversations of several turns.  The first
\* exchange of a chat is kept like the others.
FirstExchangeIsInChat ==
    \A j \in NewChatJob \ McpJob :
        ~StoresMayFail /\ Polled(j) = "COMPLETE" => j \in Exchanges(ChatOf[j])

(***************************************************************************)
(* Liveness                                                                 *)
(***************************************************************************)

\* README.md:29: the client polls until the job completes.  A job that is RUNNING
\* is COMPLETE or Error in the end, when neither a store fails nor the process dies.
RunningEnds ==
    \A j \in Job : Polled(j) = "RUNNING" ~> (Polled(j) \in {"COMPLETE", "Error"})
=============================================================================
