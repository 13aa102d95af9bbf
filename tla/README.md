# GoAPI in TLA+

This directory specifies the concurrent core of GoAPI, a retrieval-augmented
question-answering service written in Go: the job queue and the worker pool that
serves it, what happens to a job from `POST /chat` to its final status, the
conversation a chat becomes, the shutdown of the process, the queries to `POST /mcp`,
the ingestion of a document, and the way of a request through middleware and
handler. The modules are translated from the code under `src/`;
`PROJECT.json` names, for each definition, the lines it stands for, and lists the
components, runs, mutants, hazards, findings and theorems.

## 1. The system

A client posts a question or a document, gets a job id at once, and polls. In
between, a goroutine of a worker pool takes the job from a buffered channel and
runs the RAG pipeline. A second entry, `/mcp`, runs an LLM with tools; one of its
tools puts jobs of its own into the same channel.

| component | where | state it keeps | operations |
|---|---|---|---|
| Job service | `internal/job` | job channel (100), dispatcher channel (1), request counter | `CreateJob`, `GetJobStatus` |
| Worker pool | `internal/worker` | atomic worker counter, WaitGroup, stop channel | dispatcher, `createWorker`, `worker`, `removeWorker`, `executeJob` |
| RAG pipeline | `internal/rag` | none of its own; a background goroutine per answer | `ProcessRequest`, `IngestDocument` |
| Semantic cache, vector DB | `internal/rag/vectorDB/qdrantDB` | points in Qdrant | `GetCachedAnswer`, `SaveToCache`, `Search`, `UpsertBatch` |
| Job and message stores | `internal/data` | Redis strings (jobs) and lists (chats); in-memory twins | `SaveJob`, `GetJob`, `ValidateChatId`, `TrySaveChat`, `InitNewChat`, `GetMessageHistory` |
| HTTP handlers, middleware | `internal/handlers`, `internal/middleware` | rate limiters per address | `/chat`, `/status`, `/ingest`, `/mcp`, `/mcp/status` |
| MCP query service | `internal/mcpImpl` | one client session, list of tools | `HandleRequest`, tool loop, `ProcessQuery` with polling |
| Ingestion, embedding | `internal/rag/ingest`, `.../googleEmbedding` | none; a temporary file | extract, chunk, embed in batches, upsert |
| LLM providers | `internal/llm` | HTTP clients | `Generate`, `ChatWithTools` |
| Process | `cmd/api/main.go`, `internal/server` | server, signal handler, service context | start, shutdown |

How they interact: handlers and MCP tools call `CreateJob`, which sends on the
job channel and may signal the dispatcher; workers receive from it, call the
pipeline and the stores synchronously; the pipeline starts cache writes in the
background; clients see only the job store. The shutdown handler closes the HTTP
server, then the stop channel, waits on the WaitGroup, cancels the context of the
external clients, and lets `main` return.

What is hard about it, component by component, and what makes it correct:

- *Pool.* Three kinds of goroutine update one counter, one WaitGroup and one
  gauge without a lock, each in several steps. Correct means: the counter is the
  number of workers (or the dispatcher would starve or overfill the pool), the
  limit holds, the WaitGroup never goes negative and never lets `Wait` return
  early, no job is lost or run twice, nobody blocks for ever.
- *Execution.* Every call may fail; a context of 60 seconds expires under the
  job; the process may die; the chat is created by the caller while the worker
  already runs; the cache is written after the job has ended. Correct means: the
  status a client polls only moves forward, an answer belongs to its question, a
  chat holds what was answered, what was answered is there for the next question,
  and a job ends.
- *Shutdown.* Two goroutines and a deadline race the pool and the start of the
  server. Correct means: requests and running jobs finish before their services
  close, and the handler does not hang.
- *MCP.* A goroutine per query loops between an LLM and tools; one tool waits for the
  worker pool by polling against a deadline; the session may be missing, late or
  closed. Correct means: the loop ends, its outcome is final, what it sends is a
  conversation the LLM's API accepts, and what a tool reports of a job is settled.
- *Ingestion.* A document goes through extraction, a splitter, an embedding API with a
  retry, and a vector database, batch by batch; any step may fail. Correct means: no
  text is lost, a vector is stored with its own chunk, what is stored is known
  after a failure, COMPLETE means all of it.
- *HTTP.* One goroutine per request; all requests of an address share a token bucket
  that is made when the address is first seen; every check reports its failure to a
  caller that has to test for it; a handler may block on the full job channel while its
  client leaves, and hands a file over to a worker. Correct means: nothing is done for
  a request that was not admitted, a refusal has no consequences, an accepted job is
  not lost with its caller, an address gets its rate and no more, nobody goes without
  an answer.

## 2. Modules

| module | models | kind |
|---|---|---|
| `JobQueue` | what job service and pool promise: a bounded FIFO queue, at most `MaxRunning` executions | abstract |
| `WorkerPool` | `internal/job/impl.go`, `internal/worker` | detailed; implements `JobQueue` |
| `WorkerPoolProofs` | theorems about `WorkerPool` | proofs |
| `Shutdown` | `internal/server/server.go`, the end of `main` | composes `WorkerPool` |
| `JobStatus` | what a polling client may see | abstract |
| `JobExecution` | `executeJob`, `ProcessRequest`, creation of chats, cache, stores | composes `JobQueue`; implements `JobStatus` |
| `Conversation` | `processQuery`, `GetMessageHistory`: the turns of a chat and what the LLM is handed of them | extends `JobExecution` |
| `Selection` | the loops that keep some elements of a slice: the texts of a batch, the calls of a message | operators |
| `LlmMessages` | `internal/llm`: translations of a conversation to and from four APIs | operators |
| `McpQuery` | `internal/mcpImpl`, seeing the jobs of its search tool as a client does | uses `JobStatus` twice: as its environment and as its promise |
| `Chunking` | `splitTextIntoChunks` | operators |
| `Ingest` | `internal/rag/ingest`, `BatchEmbedding`, `UpsertBatch` | extends `Chunking`; one document at a time |
| `RateLimiter` | `internal/middleware/rateLimiter.go`, and the token bucket it uses | state machine, part of `HttpApi` |
| `HttpApi` | `internal/middleware`, `internal/handlers` | composes `JobQueue` and `RateLimiter` |
| `ShutdownProofs` | theorems about `Shutdown`, from those about the pool | proofs |
| `JobExecutionProofs` | theorems about `JobExecution`: statuses and answers, then chats | proofs |
| `ConversationProofs` | theorems about `Conversation`, from those about chats | proofs |
| `SequenceLemmas` | induction, `Select` and `FlattenSeq` over sequences of any length | proofs |
| `McpProofs` | theorems about `McpQuery` and the translations of `LlmMessages` | proofs |
| `IngestProofs` | theorems about `Chunking` and `Ingest` | proofs |
| `HttpProofs` | theorems about `RateLimiter` and `HttpApi` | proofs |
| `MCWorkerPool`, `MCJobExecution`, `MCConversation`, `MCMcpQuery`, `MCIngest`, `MCHttpApi` | instances for TLC | model checking |

Definitions named by a comment starting "Variant:" are never part of a
specification. Each is a plausible bug; `PROJECT.json` "mutants" says which
definition it replaces and which property must then fail.

### 2.1 WorkerPool

One action per channel, atomic or WaitGroup operation.

| code | state / action |
|---|---|
| `pushToJobChannel`: gauge, send, atomic add and test, signal | `Submit`, `Send`, `CountRequest`, `Signal`, in the order of `caller[j]`: new, sending, counting, signalling, returned |
| `dispatcher`, `createWorker`: Add + `go worker()`, atomic add, receive, load | `CreateWorker`, `CountWorker`, `ReceiveSignal`, `Decide`, over `dispatcher` |
| `worker`: the three branches of `select` | `Take` then `Finish`; `StopWorker`; `IdleTimeout` |
| `removeWorker`: `Done`, atomic add | `Leave` (of `StopWorker` and `IdleTimeout`), `UncountWorker` |
| `close(WorkerStop)` | `CloseStop`, free in this module, driven by the handler in `Shutdown` |

`Add` and `go worker()` are one step: nothing can observe a state between them
except `Wait`, and `Wait` returning there is the race that `Shutdown` contains
anyway, since the first `Add` may come after `Wait`. `Take` stays enabled when the
stop channel is closed, because `select` chooses among ready branches at random.
A send blocked on a full channel and a receive are two steps here; Go may hand a
value over directly, which is the two steps in sequence. `completed` and `created`,
the number of workers the dispatcher has created, are history variables. The active-workers gauge moves with the counter and is left out; the
counter has 64 bits and counts goroutines, so it cannot wrap.

### 2.2 JobQueue and the refinement

`WorkerPool` implements `JobQueue` under `waiting` = callers at "sending", `queue` =
the channel, `running` = jobs held by busy workers. Dispatcher, counters, signals
and retiring workers are stuttering steps: the clients of the pool need not know
of them, and `JobExecution` is built on `JobQueue` for that reason.

### 2.3 Shutdown

`Shutdown` extends `WorkerPool`; its steps of the pool need `process = "up"`.
`MayCreateJob` says when a handler or a tool can call `CreateJob`: HTTP handlers
only while `http.Server.Shutdown` would wait for them (or after it gave up at the
deadline), tools of the MCP server at any time, because they run in goroutines
that nothing waits for (`mcpImpl/handler.go:53`). `RequestsDrained` is the return of
`server.Shutdown`; `WorkersGone` the return of `Group.Wait`; `ForceExit` is
`os.Exit(1)`, which may also win against a completed shutdown, since both
branches of the handler's `select` may be ready. `PanicWithoutServer` is the
dereference of the global server before `CreateServer` assigned it.

### 2.4 JobExecution and JobStatus

An execution has a `step`; each external call is one action with its outcomes.
`context` is the 60-second context: live, expired, or cancelled when
`executeJob` returns. A call on a context that is not live fails; a call of Redis
on a live context may fail too when `StoresMayFail`.

| code | action |
|---|---|
| `processNewJobData`, `validateMessage` | `CreateJob` |
| `CreateJob`: the send; `InitNewChat`: `Del`, `RPush` | `PushJob`, then `ClearChat`, `SeedChat` |
| `executeJob`: first `saveJobState` | `SaveRunning` |
| `ProcessRequest`: embedding, cache, search, LLM | `Embed`, `CheckCache`, `Search`, `Generate` |
| the goroutine of `ProcessRequest` | `SaveToCache` |
| `TrySaveChat`: `Exists`, `RPush` | `ValidateChat`, `PushExchange` |
| `ingestDocument` | `IngestDocument`, which has no effect on `result`, as in the code |
| last `saveJobState`, deferred `cancel` | `FinishJob` |

Data is abstract: an answer is the job whose LLM call produced it, a question is
its similarity class, an exchange in a chat is the job it came from. Reading the
history is left to `Conversation`; the pipeline's own 30-second context is only
another reason for a step to fail. `Crash` loses channel, callers, executions and cache
goroutines and keeps the stores.

`JobExecution` implements `JobStatus` with `status[j]` = what the job store holds.

### 2.5 Conversation

| code | action |
|---|---|
| `GetMessageHistory` in `processQuery` | `ReadHistory`, between `SaveRunning` and `Embed` |
| `processNewJobData`, `validateMessage` | `Ask`: `CreateJob`, noting what had been answered by then |
| everything else of `JobExecution` | `GoOn` |

`history[j]` is the argument that `processQuery` hands to `ProcessRequest`, and ends with
it; `asked[j]` is a history variable, the follow-ups of the chat that a client could see
as COMPLETE when question `j` was created. Reading the history is two calls of Redis
(`EXISTS`, `LRANGE`) and one step here: a list that exists only grows, so what comes
back is the list at one moment. `ListGet5PastMessage` takes the answer of `EXISTS`, 0 or
1, for the number of entries; it is never 5, and the whole list is returned. The model
hands the list to the provider. What the provider makes of it is not part of it: the
Gemini client drops it (§6).

The first exchange of a chat is left out of `asked`, because it may be lost (§6,
`first_exchange`). A question that is created before an earlier one is COMPLETE does not
see that one's answer, by the order in which the code reads and writes; nothing in the
repository says otherwise.

### 2.6 McpQuery and LlmMessages

A query has a `phase`; `loop[q]` holds the locals of `runToolLoop`, `poll[q]` those of
`pollForAnswers`, and both are reset when the function returns.

| code | action |
|---|---|
| `InitMCPClient`, `InitMCPTools`, the goroutine that closes the session | `ConnectSession`, `ListTools`, `CloseSession` |
| `HandleRequest`: first `SaveJob`; the saves at the end of its goroutine | `HandleRequest`, `SaveOutcome` |
| `runToolLoop`: the list of tools; `ChatWithTools`; the rounds used up; the message with the results | `StartLoop`, `AskLlm`, `GiveUp`, `ReturnResults` |
| `CallMCPTool` with an error; `get_system_message`: the request, the answer; `search_knowledge_base` | `FailCall`; `CallApi`, `GetSystemMessage`; `StartSearch` |
| `CreateJob` in `insertJobIntoJobChannel`; the branches of `pollForAnswers` | `InsertJob`, `DeadlinePasses`, `TimeOut`, `Poll` |

The first `SaveJob` runs on the context of the HTTP request and may store the record and
still return an error: then `HandleRequest` starts no loop, and the record says RUNNING
with nobody to change it. The loop itself runs on `context.Background()`, with clients
that have no timeout (`otherAPITools.go:53` is `http.DefaultClient`, and
`llmConnectionTimeout` is never used), so a loop may have to wait for ever at three
places: for the LLM, for the external API, and for room in the job channel
(`WaitsOutside`). `OwnStep` are the steps that wait for nobody.

The order of polls and deadline is that of the code's times: `Elapsed(n)` is when poll
`n` can be at the earliest, and a pause that reaches beyond the deadline can only end
after it. With the code's ten pauses, 16180 ms, and its deadline of 16000 ms the last
poll cannot find a job in time, so "No job found" is never reported. At the
deadline `ctx.Err()` asks the parent context, which has none, and the tool returns an
empty result that is not an error; `TimeOut` does the same.

`LlmMessages` says what each provider keeps. OpenAI and OpenRouter share their
operators, since their code is the same; both keep calls without the text next to
them. Gemini takes the name of the tool for the id of a call that has none. What the
APIs answer (`ApiResponse`, made of the calls `NewCalls`, and `Plausible`) and accept
(`Accepted`) is external to the code. The jobs of searches are executed by `JobStatus`, which `JobExecution` implements
with every failure it models.

### 2.7 Chunking and Ingest

`Chunking` translates the splitter over lengths: a page is the sequence of the lengths
of the parts its best separator leaves, a chunk is an interval of positions. That
loses nothing, because what the code writes to a chunk, the overlap, the separator
and the part, is always contiguous in the text. The hard cut of `impl.go:40-43` cannot
be reached, since every text contains the last separator, "".

| code | action |
|---|---|
| `ProcessDocumentIngestion`: the collection, the type | `CreateCollection` |
| `extractText`, `PrepareChunks` | `Extract`; pages of a PDF that cannot be read are skipped |
| `BatchIngest`, `BatchEmbedding` | `EmbedBatch`, `RetryEmbedding` |
| `UpsertBatch` | `UpsertBatch`, which may store and still return an error |
| the end of the loop, `os.Remove` | `RemoveFile` |

As in the code, a retry that succeeds yields neither vectors nor an error, and a batch
with an empty chunk has fewer vectors than chunks; in both cases `UpsertBatch` refuses
the batch. So one blank page makes an ingestion fail, and the retry never helps.
`Ends` is the position at which each part of a page ends, by a recursive function, and
`Texts` the chunks of a batch that are sent to the embedding model.

### 2.8 RateLimiter and HttpApi

A request has a `phase`, where its goroutine is. `written[r]` is the sequence of codes
passed to `WriteHeader`, of which net/http sends the first and ignores the rest.

| code | phase: action |
|---|---|
| `authenticate`, the first return of `processRequest`, `Wrap` | authenticate: `Authenticate`; a refusal writes 401 three times |
| `rateLimiter`, `GetLimiter(ip).Allow()`, the second return | limit: `LimitRate`, of `Allow` or `Deny`; a refusal writes 429 twice |
| `validateContext` at the start of every handler | handle: `LeaveGone`, when `Disconnect` came before |
| `ChatHandler`; `MCPHandler`; `GetStatusHandler`, `MCPStatusHandler` | handle: the action of the same name |
| `PostIngestHandler`: the directory; the form; the file | handle, form, store: `PostIngestHandler`, `ReadForm`, `StoreFile` |
| `CreateJob` and the 202 of `processNewJobData` | push: `Push`, `Respond` |

The job channel is that of `JobQueue`: a request waits in it exactly as a caller of
`CreateJob` does, and `StartJob`, `ReadDocument`, `RemoveDocument` and `EndJob` are the
workers as far as a handler can notice them, in the records they save and the files they
read and remove. An ingestion reads its document first (`extractText`) and removes it when
all of it is stored (`ingest.go:75`), well before `executeJob` saves the record: a running
job without a file is an ordinary state. `authentic` is a history variable, the set of
requests whose token was accepted; `extracted` are the ingestions in execution that have
read their document; `gone` holds the clients that disconnected. Only `validateContext` looks at that, so `Disconnect` is possible only
before it; a later disconnection is one of the reasons for a call to fail. `origin` is a
constant function, because a request comes from one address.

`RateLimiter` counts time in ticks and a bucket in ticks too: a token is `Cost` ticks, so
that parts of a token are whole numbers. `grants` is a history variable, the times at
which an address was allowed a request. The bucket itself is a library, modelled from
the one call of it; that buckets are created on first sight, full, and never removed is
the code's.

`/mcp` answers 202 whatever its save returned: the record may be there or not, and with
the record a loop or not. `MCPHandler` has the three combinations.

The handlers that write an error and go on are modelled as they are: the status of an
unknown id is 404 and then 200 (`requestHandler.go:86`), an ingestion whose directory
cannot be made is 500 and then 202 or another code (`requestHandler.go:114`). Both times
the client sees the first.

## 3. Runs

| run | instance | question | result |
|---|---|---|---|
| `pool_safety` | 4 jobs (one document), buffer 2, at most 3 workers, 4 names, signal every 2 requests, `MinWorkerCount` 2 (as in `worker_test.go`), symmetric | are counter, WaitGroup and gauge exact, does the limit hold, is every signal for a worker served, is it a FIFO queue, with workers retiring and a stop at any moment? | holds |
| `pool_liveness` | 3 jobs, buffer 1, at most 3 workers, signal for every request, `MinWorkerCount` 1 as shipped, fair | never empty, serves every job, blocks nobody | holds |
| `shutdown` | 2 HTTP jobs, 1 tool job, buffer 1, 2 workers, fair | requests and running jobs finish first; the handler ends without its deadline | holds |
| `execution_faults` | first turn, follow-up, document; 2 executions; Redis may fail; 1 crash | does the polled status only move forward; are chats well formed? | holds |
| `conversation` | up to 3 of: first turn, two follow-ups, MCP query asking the same as the first of them; 2 executions; Redis reliable; contexts expire; 1 crash | does a COMPLETE answer belong to its question; is a COMPLETE follow-up in its chat, and is a later question answered with it in hand? | holds |
| `failed_ingest` | 1 document | is a failed ingestion reported? | violated |
| `first_exchange` | 1 first turn, no fault | is the first exchange kept? | violated |
| `running_ends` | 1 query, contexts expire, fair | does a RUNNING job end? | violated |
| `mcp_query` | 1 query, 3 kinds of provider, 2 rounds, 2 calls in a response, 2 searches, the code's poll times, stores may fail, fair | does the loop end unless one call outside never returns, is its outcome final, does the API accept what it sends, are answers of searches settled? | holds |
| `mcp_lost_search` | 1 query, 1 search, store reliable | does a search find its job? | violated |
| `ingest` | one page of up to 4 parts, two of up to 2, five of at most 1; parts of 0, 1, 2, 4, 6; limit 6, overlap 2, separator 1; batches of 2; fair | is text lost, do vectors fit their chunks, what is stored after a failure, does COMPLETE mean all, does it end? | holds |
| `http` | one request each to `/chat`, `/ingest`, `/mcp`, `/status`, one from another address; buffer 1, one worker; burst 1, 2 ticks for a token, 3 ticks | is work done only for admitted requests, do refusals leave nothing, is an accepted job queued, and its file there until it is read, is each address limited to its rate and refused only then? | holds |

Bounds and why they are enough. Four worker names for a limit of three leave room
for a worker too many, so a broken limit would be seen. Four jobs and a buffer of
two let callers block on a full channel while every worker is busy or retiring,
and reach two signals. In `pool_liveness` three signals and a limit of three reach
the branch in which the dispatcher declines, and so do the two signals of `pool_safety`. In `shutdown`, a buffer of one makes
a caller block while the handler is draining. Two executions at once are what
the cache, the chat and the crash need to interleave; three jobs cover a chat's
first turn, a follow-up that depends on it, and a third party (a document, or an
MCP query that shares a question with the follow-up); in `conversation` they are any
three of four (`MaxCreated`), since a question that is answered in the light of a
follow-up is the third turn of its chat. One crash suffices because
a crash resets everything but the stores, and no property mentions two.

Queries share only the session and the job store, so one of them in `mcp_query` meets
every interleaving with both. Two rounds reach a conversation with results in it and
the limit of rounds; two calls in a response let one fail beside one that succeeds;
two searches (`MaxSearches`) let a query poll a second time.

In `ingest` the lengths are below, at and above the overlap, at the room that is left
behind an overlap, and at the limit; five pages make three batches, the last
of which is not full, and put blank pages into any of them.

In `http` there is a request of each kind, three of them from one address whose burst is
one: two are refused unless time passes between them, three ticks would bring back
more than the bucket holds, and half a token is a state. That a full bucket takes no more
is the library's own; that no rest ever adds up to more than a burst is shown for every
length of time by `RateIsBounded`. The buffer of one makes the
second job's handler block in `CreateJob`.

Deadlock is not checked in any run: every system here comes to rest when its
finite supply of jobs is used up. The liveness properties exclude bad rests.

## 4. Fairness

Weak fairness of a goroutine's own steps is the Go scheduler's: a runnable
goroutine runs. `WorkerPool` assumes it of callers (after `Submit`), of the
dispatcher, and of each worker's `Take`, `Finish` and `UncountWorker`. `Finish` is
fair because an execution lasts at most as long as its context. A blocked send is
served in order of arrival by Go's channels, and with finitely many jobs weak
fairness gives that. Not fair: submitting, `IdleTimeout`, `CloseStop`. `Shutdown` adds
the steps of its handler, and not the deadline, so `ShutdownEnds` holds without
its help; there `WorkerAdvances` is fair as a whole, because a closed channel stays
ready and jobs run out. `JobExecution` assumes that every external call returns and
nothing about contexts or crashes. Its calls run on the context of the job, which ends
after 60 seconds.

`McpQuery` assumes only that a goroutine that waits for nobody runs (`OwnStep`) and that
timers fire; not that the LLM or the external API ever answers, that the job channel ever
has room, that a session exists, or that the job of a search is ever executed. `LoopEnds`
says accordingly that a loop ends unless it comes to wait for ever in one call outside
(`<>[]WaitsOutside(q)`): it cannot run for ever, be stuck in a poll (the deadline ends it),
or hang on a session that has closed. Calls of Redis are among the steps that wait for
nobody, since `redisStore.go:76-77` gives them timeouts of 30 seconds. That another call returns some day is the network's affair:
no timeout in the code says so.

`Ingest` assumes that external calls return, which the context of the job guarantees.

## 5. Proofs

`WorkerPoolProofs` proves, for every finite set of jobs and workers and every
configuration that satisfies `JobAssumption`, `WorkerAssumption` and
`ConfigAssumption`:

| theorem | statement |
|---|---|
| `TypesHold` | `Spec => []TypeOK` |
| `CounterExact` | `Spec => []PoolAccounting` |
| `PoolBounded` | `Spec => []PoolBound` |
| `WaitGroupExact` | `Spec => []WaitGroupAccounting` |
| `GaugeExact` | `Spec => []GaugeAccounting` |
| `PoolStaffed` | `Spec => []PoolNeverEmpty` |
| `SignalsAreServed` | `Spec => []NoSignalIsLost` |
| `JobInOnePlace` | `Spec => []EachJobOnce` |
| `PoolImplementsQueue` | `Spec => ImplementsJobQueue` |

The argument is in layers; each invariant is inductive relative to the ones
before it.

1. `Typed` strengthens `TypeOK` by "a worker holds a job exactly while it is busy".
2. `Counted` joins the three accounting equations and adds that the counter is below
   the limit while the dispatcher is creating. `PoolBound` alone is not inductive:
   between `CreateWorker` and `CountWorker` there is one worker more than the counter
   says, and what keeps the limit is that only the dispatcher increments the
   counter, so a load that found room stays valid while workers only leave.
3. `Staffed` says that a pool whose workers do not retire has a serving worker or is
   about to create its first.
4. `Grown`: workers created so far and those under way together are one more than the
   full groups of requests, or at least the limit. A worker is under way while a caller has
   still to signal, while its signal is in the channel, and from the receipt of the signal
   to its creation. `NoSignalIsLost` is the case in which nothing is under way; alone it is
   not inductive, because it says nothing while a signal is on its way. A request that
   completes a group brings its own signal (`OneMoreRequest`), and the dispatcher drops one
   only when the counter is at the limit, when by `Counted` that many were created. Workers
   that retire change neither side: how many are *left* is not what is proved
   (§6).
5. `EachJobOnce` places every job once: at its caller, at one position of the
   channel, in one worker's hands, or among the completed.
6. The refinement follows from 1, 2 and 5: `EachJobOnce` gives the abstract `Request`
   and `Start` their guards, `PoolBound` with injectivity of `holds` on busy workers
   gives the limit on `running`.

`ShutdownProofs` proves, under the same assumptions and `ToolJobAssumption`:

| theorem | statement |
|---|---|
| `ProcessRunsPool` | `ShutdownSpec => Spec` |
| `RequestsAreDrained` | `ShutdownSpec => []RequestsFinishFirst` |
| `ServicesCloseLast` | `ShutdownSpec => []InFlightJobsFinish` |
| `ShutdownTypesHold` | `ShutdownSpec => []ShutdownTypeOK` |

The first makes every theorem about the pool one about the process: `Shutdown` only
restricts the pool's steps and adds steps that leave it alone. `HandlerInOrder` ties
the stop channel, the server and the place of the handler to each other; it gives
`RequestsFinishFirst`, because a closed server that has drained admits no caller. For
`InFlightJobsFinish` the invariant is that every job that was in execution when the
channel was closed is completed or still with a worker. When `Wait` returns, the
WaitGroup is zero, and by `WaitGroupExact` no worker is busy, so all are completed.
This is where the exactness of the WaitGroup, an accounting fact, becomes the promise
of the shutdown. The types rest on those of the pool: what the stop finds in execution
are jobs, because a worker that is busy holds one.

`JobExecutionProofs` proves, for every set of jobs, chats and
questions that satisfies `JobKindAssumption`, every number of executions at once
and of crashes, with or without failing stores:

| theorem | statement |
|---|---|
| `ExecutionTypesHold` | `ExecutionSpec => []ExecutionTypeOK` |
| `StatusOnlyMovesForward` | `ExecutionSpec => ImplementsJobStatus` |
| `AnswersFitQuestions` | `ExecutionSpec => []AnswerIsToTheQuestion` |
| `ChatsStayWellFormed` | `ExecutionSpec => []ChatWellFormed` |
| `FollowUpsAreKept` | `ExecutionSpec => []CompletedFollowUpIsInChat` |

1. `Typed` adds to `ExecutionTypeOK` that only ingestions ingest and only queries pass
   through the pipeline.
2. `Placed`: a job is with its caller, once in the channel, or with one worker. A job
   is thus executed at most once, also across a crash, since a crash makes no caller
   ask again.
3. `Ahead`: until its execution writes, nothing is in the store about a job, and while
   it runs nothing final. With `Placed` this makes each write of `SaveJob` a step of
   `JobStatus`: without it a second execution could set a final status back to RUNNING.
4. `Answered`: from the step at which a query has an answer, the answer fits its
   question. The cache holds queries only, and an answer enters the cache under the
   question of the job that generated it.
5. `Results` and `Settled`: an outcome is decided before the exchange is pushed, and
   what was pushed is never decided again. `ChatLifeCycle`: a chat is cleared and
   seeded by the one caller that opens it, before it can be named or pushed to; this
   is why the late `InitNewChat` loses an exchange (§6) but never an earlier one.
6. `FollowUps`: when the outcome of a follow-up is saved on a live context, its exchange
   is in the chat. An expired context is harmless because it also stops the save.

`ConversationProofs` proves, under `ConversationAssumption` besides, for conversations of
any length:

| theorem | statement |
|---|---|
| `ConversationRunsJobs` | `ConversationSpec => ExecutionSpec` |
| `TurnsAreSeen` | `ConversationSpec => AnsweredTurnsAreSeen` |

The first carries every theorem about `JobExecution` over. The second rests on the
invariant `Shown`: the turns a question may count on (`asked`) are in its chat, and, as
long as its context lives, in the history that its execution holds. The first half is
`FollowUpsAreKept` at the moment of `Ask`, and stays because a chat that can be named is
never cleared. A history read on an expired context contains nothing, and is harmless
because the same context stops the embedding.

`McpProofs` proves, for every set of queries, every response of the APIs, and any numbers of
rounds, calls, searches and polls:

| theorem | statement |
|---|---|
| `McpTypesHold` | `McpSpec => []McpTypeOK` |
| `SearchAnswersSettled` | `McpSpec => []SearchAnswersAreFinal` |
| `McpStatusMovesForward` | `McpSpec => McpImplementsStatus` |
| `ConversationsAccepted` | `McpSpec => []ConversationAccepted` |

An answer of a search is final because the poll that returns it saw a final status, and
the job of a search obeys `JobStatus`, where such a status stays. That a query's status
moves forward rests on its goroutine saving one outcome, after the loop, and leaving the
record alone before.

`ConversationsAccepted` says that the API of every provider accepts what the loop sends it,
after any number of rounds. The invariant (`ConversationInv`) has two parts:

1. `IsConversation`: the messages begin with the user's, alternate, and each message of the
   assistant with calls is followed by one with a result for each, in their order.
2. `Outstanding`, while the calls of a response are made: each call of the last message has
   its result or is pending. A call that fails has a result as well; this is what lets a
   conversation go on after an error, and what `ConversationAccepted` would fail without.

That such a conversation is accepted is then shown for each API. Anthropic and Gemini take
the messages one by one, so a message and the next are compared (`TurnsAreAnswered`); OpenAI
and OpenRouter flatten the results into messages of their own, and the calls are compared
with what follows them in the concatenation (`PiecesAreAnswered`, `OpenAIMessages`).

`IngestProofs` proves, under `ChunkingAssumption` and `IngestAssumption`, for documents and
pages of any length, every limit, overlap, separator and batch size, and whatever fails:

| theorem | statement |
|---|---|
| `SplitKeepsText` | what `SplitTextIntoChunks` computes keeps every part, is in order, and bounded |
| `IngestTypesHold` | `IngestSpec => []IngestTypeOK` |
| `NoTextIsLost` | `IngestSpec => []NoTextLost` |
| `ChunkSizesBounded` | `IngestSpec => []ChunkSizeBounded` |
| `VectorsFit` | `IngestSpec => []VectorsFitChunks` |
| `WholeBatchesStored` | `IngestSpec => []StoredIsPrefix` |
| `CompleteMeansStored` | `IngestSpec => []CompleteIsStored` |

1. `SplitInv` is the invariant of the splitter's loop: after `i` parts, the finished chunks
   and the current one cover every part so far that is not empty, the current one ends where
   part `i` does, each chunk follows the one before it, and each is bounded. That the text is
   kept is not inductive without the place where the current chunk ends: only a chunk that
   reaches up to the separator before the next part can be continued by it.
2. `Splittable` is the one condition on a page: with the empty separator the parts are single
   characters, hence not empty, unless the text is; `IngestAssumption` states what
   `strings.Split` gives there. Without it a chunk
   could end where the one before it ended.
3. `IngestInv` follows a document: what is stored are the points of the first chunks, each
   with itself as its vector, up to the current batch (`StoredTo`); vectors are there only
   between the embedding and the upsert. A batch with an empty chunk has fewer vectors than
   chunks, and the comparison of the counts in `UpsertBatch` is what keeps vectors matched by
   their place from shifting: equal counts mean that no chunk was left out (`TwoLengths`).

Both rest on `SequenceLemmas`. The library's induction theorems take an operator for a
parameter, which the provers here cannot instantiate, so the principle is restated for sets
of numbers (`Induction`) and proved from the well-foundedness of the naturals. From it come
the existence of the recursive functions (`IterationExists`) and what `Select` and
`FlattenSeq` return for sequences of any length. This is why the model writes its
recursions as functions and uses `Select`, of a set, in place of `SelectSeq`, whose test is
an operator.

`HttpProofs` proves, for every finite set of requests, every
assignment of addresses, every burst, rate, bound on the clock and size of the queue:

| theorem | statement |
|---|---|
| `HttpTypesHold` | `HttpSpec => []HttpTypeOK` |
| `RateIsBounded` | `HttpSpec => []RateBound` |
| `RefusalsAreDue` | `HttpSpec => RefusalIsDue` |
| `WorkAdmitted` | `HttpSpec => []WorkIsAdmitted` |
| `RefusalsLeaveNothing` | `HttpSpec => []RefusalLeavesNothing` |
| `AcceptedAreQueued` | `HttpSpec => []AcceptedIsQueued` |
| `FilesAreReady` | `HttpSpec => []FileReady` |
| `EveryoneIsAnswered` | `HttpSpec => []NobodyIsIgnored` |

1. The bucket. What is left in it (`Left`) never exceeds what the grants since any one
   of them still allow (`Sound`), and equals it for some grant unless the bucket is full
   (`Tight`). The first gives `RateBound` when a token is taken; the second gives
   `RefusalIsDue` when there is none, with the very grant after which one more would be
   too many.
2. `Traced`: for each phase of a request, what it may have written, whether its token
   was accepted, and that it has left nothing behind before it enters `CreateJob` or
   ends. The responses that exist at all are finitely many (`Refusals`, `Others`), so that
   the first code decides the whole response.
3. `Paid`: the requests of an address that passed the limiter are at most as many as its
   grants, since `LimitRate` is the only step by which a request passes and takes one.
   With `Traced` this bounds the work of an address, `WorkIsAdmitted`.
4. `FilesAreReady`: only the worker that executes an ingestion removes its file, and only
   after having read it; the handler writes the file before it asks for the job. After the
   reading nothing is claimed, as the file is gone before the job is done.

Not proved, only model-checked: the liveness properties `JobsServed`, `CallersReturn`,
`ShutdownEnds`, `LoopEnds` and `IngestEnds`, since fairness and ENABLED are outside the
prover. Every invariant and every action property that a run checks and TLC finds to hold
is also a theorem.

## 6. What the code does differently from what is said of it

- `failed_ingest`: `ingestDocument` (`workerMethods.go:58-62`) drops the job that
  carries the error, so a failed ingestion is COMPLETE, where
  `rag_test.go:152-159` expects `JobStatusError` of the service.
- `first_exchange`: `CreateJob` (`impl.go:19-23`) queues the job before it creates the
  chat. A worker that is faster than the caller finds no chat and the exchange
  is lost.
- `running_ends`: the final status is saved on the expired context
  (`workerMethods.go:46`), and the record stays RUNNING.
- `mcp_lost_search`: the search tool gives up on a job that waits for a worker for more
  than 10 ms, because nothing is saved of a job before it starts;
  `ragutils.go:67` calls this a case that should not happen.

One more disagreement is in the model, but a single test decides it and no interleaving is
needed, so no run is about it:

- `src/README.md:49` says "auto-scales up to 10 based on queue depth, idle workers retire
  after 1 minute", and `impl.go:72-73` that idle workers are removed and usually one is left.
  `worker.go:73` retires a worker only if `minWorkerCount` is above 1 (`Retires`); as
  shipped it is 1 (`environmentVariables.go:27`) and no worker ever retires, so a pool that
  has once grown to ten keeps ten until the process stops. Nor does it grow on queue depth:
  `impl.go:76` counts requests, one worker for every tenth and for every document, however
  empty the channel is. With a minimum above 1 workers do retire, but all of them may, the
  last one included, which is why `PoolNeverEmpty` and `JobsServed` are about a minimum of 1
  and say nothing of a higher one.

What follows is in the models too, but no document says otherwise, or nobody sees it:

- Jobs still in the channel are lost in an orderly shutdown, after a 202.
- `GetStatusHandler` answers an unknown id with 404 and the body of a 200;
  `PostIngestHandler` goes on after its 500. A refusal writes its code two or three times.
- A document of which only a part could be written stays in `temporary_data`, with no
  job that would remove it.
- `/mcp` answers 202 also when saving the first record returned an error and no loop runs;
  if the save was done all the same, its record is RUNNING until it expires.
- An LLM or an external API that never answers keeps a tool loop, and the record of its
  query RUNNING, for as long as the process lives: no timeout of the code ends the call
  (`mcpImpl/handler.go:54`, `otherAPITools.go:53`).
- The gauge of jobs in the queue counts callers that are still blocked and jobs in
  execution besides the jobs in the channel; its help text says "Number of jobs in queue".
- `Generate` of the Gemini client overwrites the text in which it had put the history
  (`geminiLLM.go:71`), so this provider never sees a chat's earlier turns.

## 7. Plan

What is left, in this order:

1. The start of the process: connections that fail one by one, and the stores.
2. Theorems about the composition: an ingestion as a step of `JobExecution`, the queue of
   `HttpApi` as that of `WorkerPool`.

## 8. Not modelled

- *In-memory stores.* `main.go:75` falls back to them when the Redis stores are nil, but
  `GetRedisJobStore` returns a pointer to a struct in every case, with a nil client inside
  when Redis is offline. The comparison is never true and the stores are dead code; the
  first call of a job store then dereferences the nil client. `README.md:84` of the repository says "Redis by
  default with automatic in-memory fallback". No run shows this: it takes one look at one
  line, and there is no interleaving in it.
- *Expiry of records in Redis.* Records of jobs outlive every run by hours
  (`RedisJobStoreTTL`); a client that polls later is told 404.
- *The variables of the cache goroutine.* It shares `err` and its arguments with
  `ProcessRequest`; `SaveToCache` takes them as they are when the answer is there.
- *Files of net/http.* A large form is spilled to files of its own, which
  `RefusalLeavesNothing` does not cover.
- *The batch job for huge documents*, whose first poll comes after 30 minutes, is only the
  error it ends in.
- Look-up and creation of a bucket are one step, under the mutex of `GetLimiter`. That a
  client gets at most one answer is not stated: `NobodyIsIgnored` is about silence.
- Connecting and closing of clients at start and end, the contents of prompts, text and
  wire formats, metrics other than the queue gauge, logging, generated documentation,
  deployment files.

Components with status `partly` or `not_modelled` in `PROJECT.json` say what they lack.
