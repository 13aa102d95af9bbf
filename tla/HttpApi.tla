------------------------------- MODULE HttpApi -------------------------------
(***************************************************************************)
(* What happens to a request between its arrival and its response: the      *)
(* middleware (trace, authentication, rate limit), the handlers of /chat,   *)
(* /ingest, /mcp, /status/{id} and /mcp/status/{id}, and the jobs, temporary *)
(* files and tool loops they leave to the rest of the process.              *)
(*                                                                         *)
(* Each request is served by a goroutine of its own.  Handlers block in      *)
(* CreateJob on the queue of JobQueue.tla, which WorkerPool.tla implements;  *)
(* a client may disconnect at any time, which cancels the context of its    *)
(* request; workers run beside the handlers.                                *)
(***************************************************************************)
EXTENDS JobQueue, RateLimiter

CONSTANTS
    IngestRequest,      \* the requests to /ingest; the other jobs come from /chat
    McpRequest,         \* the requests to /mcp
    StatusRequest,      \* the requests to /status/{id} and /mcp/status/{id}
    origin              \* the address each request comes from

\* A job has the name of the request that asked for it.
HttpRequest == Job \cup McpRequest \cup StatusRequest

ASSUME RequestAssumption ==
    /\ IsFiniteSet(HttpRequest)
    /\ IngestRequest \subseteq Job
    /\ Job \cap (McpRequest \cup StatusRequest) = {}
    /\ McpRequest \cap StatusRequest = {}
    /\ origin \in [HttpRequest -> Address]

ASSUME QueueAssumption == BufferLimit \in Nat

VARIABLES
    phase,          \* where the goroutine of a request is
    authentic,      \* history: the requests whose token was accepted
    gone,           \* the requests whose client has disconnected
    written,        \* the codes passed to WriteHeader; the first is what is sent
    files,          \* requests whose document is on disk, in temporary_data
    extracted,      \* ingestions in execution that have read their document from the file
    records,        \* jobs and MCP queries that are in the job store
    toolLoops       \* MCP queries whose goroutine was started

queueVars == <<waiting, queue, running, completed>>
effectVars == <<files, extracted, records, toolLoops>>
httpVars == <<queueVars, limiterVars, phase, authentic, gone, written, effectVars>>

\* A request begins in "authenticate", where it stays until its goroutine runs.
Phase == {"authenticate", "limit", "handle", "form", "store", "push", "done"}

Code == {200, 202, 400, 401, 404, 429, 500}

HttpTypeOK ==
    /\ LimiterTypeOK
    /\ waiting \subseteq Job
    /\ queue \in Seq(Job) /\ Len(queue) <= BufferLimit
    /\ running \subseteq Job
    /\ completed \subseteq Job
    /\ phase \in [HttpRequest -> Phase]
    /\ authentic \subseteq HttpRequest
    /\ gone \subseteq HttpRequest
    /\ written \in [HttpRequest -> Seq(Code)]
    /\ files \subseteq IngestRequest
    /\ extracted \subseteq IngestRequest
    /\ records \subseteq Job \cup McpRequest
    /\ toolLoops \subseteq McpRequest

HttpInit ==
    /\ Init
    /\ LimiterInit
    /\ phase = [r \in HttpRequest |-> "authenticate"]
    /\ authentic = {}
    /\ gone = {}
    /\ written = [r \in HttpRequest |-> <<>>]
    /\ files = {}
    /\ extracted = {}
    /\ records = {}
    /\ toolLoops = {}

-----------------------------------------------------------------------------
(***************************************************************************)
(* The steps of a handler                                                   *)
(***************************************************************************)

Move(r, from, to) ==
    /\ phase[r] = from
    /\ phase' = [phase EXCEPT ![r] = to]

Write(r, codes) == written' = [written EXCEPT ![r] = @ \o codes]

\* The handler returns after it has written these codes.
Answer(r, from, codes) ==
    /\ Move(r, from, "done")
    /\ Write(r, codes)

\* validateContext: has the client not disconnected?
ContextLives(r) == r \notin gone

\* The client of a request goes away.  The handler looks once, when it starts; calls that
\* use the context later may fail anyway.
Disconnect(r) ==
    /\ phase[r] = "handle"
    /\ gone' = gone \cup {r}
    /\ UNCHANGED <<queueVars, limiterVars, phase, authentic, written, effectVars>>

-----------------------------------------------------------------------------
(***************************************************************************)
(* The middleware                                                           *)
(***************************************************************************)

\* A request without the token: authenticate writes 401, and so does handleBadRequest,
\* called by processRequest and again by Wrap.
RefuseToken(r) == Answer(r, "authenticate", <<401, 401, 401>>)

Authenticate(r) ==
    /\ \/ RefuseToken(r) /\ UNCHANGED authentic
       \/ /\ Move(r, "authenticate", "limit")
          /\ authentic' = authentic \cup {r}
          /\ UNCHANGED written
    /\ UNCHANGED <<queueVars, limiterVars, gone, effectVars>>

\* Variant: processRequest goes on after the rate limiter refused.
GoOnLimited(r) == Move(r, "limit", "handle") /\ Write(r, <<429>>)

\* rateLimiter only sets badRequest; processRequest and Wrap write.
RefuseLimited(r) == Answer(r, "limit", <<429, 429>>)

LimitRate(r) ==
    /\ \/ /\ Allow(origin[r])
          /\ Move(r, "limit", "handle")
          /\ UNCHANGED written
       \/ /\ Deny(origin[r])
          /\ RefuseLimited(r)
    /\ UNCHANGED <<queueVars, authentic, gone, effectVars>>

-----------------------------------------------------------------------------
(***************************************************************************)
(* The handlers                                                             *)
(***************************************************************************)

\* Every handler returns at once, with nothing written, when the client is gone.
LeaveGone(r) ==
    /\ ~ContextLives(r)
    /\ Answer(r, "handle", <<>>)
    /\ UNCHANGED <<queueVars, limiterVars, authentic, gone, effectVars>>

\* ChatHandler: the body cannot be decoded, or the message is empty, or the chat id is
\* unknown; or else the handler enters CreateJob.
ChatHandler(r) ==
    /\ r \in Job \ IngestRequest
    /\ ContextLives(r)
    /\ \/ Answer(r, "handle", <<400>>) /\ UNCHANGED queueVars
       \/ /\ Move(r, "handle", "push")
          /\ Request(r)
          /\ UNCHANGED written
    /\ UNCHANGED <<limiterVars, authentic, gone, effectVars>>

\* PostIngestHandler: when the directory cannot be made, 500 is written and the handler
\* goes on with an empty path.
PostIngestHandler(r) ==
    /\ r \in IngestRequest
    /\ ContextLives(r)
    /\ Move(r, "handle", "form")
    /\ UNCHANGED written \/ Write(r, <<500>>)
    /\ UNCHANGED <<queueVars, limiterVars, authentic, gone, effectVars>>

\* Variant: an error of the form is only logged.
LeaveForm(r) == Answer(r, "form", <<>>)

\* Variant: the handler goes on after an error of the form.
RefuseFormAndGoOn(r) == Move(r, "form", "store") /\ Write(r, <<400>>)

\* The form cannot be parsed, or has no name or no file.
RefuseForm(r) == Answer(r, "form", <<400>>)

ReadForm(r) ==
    /\ \/ RefuseForm(r)
       \/ Move(r, "form", "store") /\ UNCHANGED written
    /\ UNCHANGED <<queueVars, limiterVars, authentic, gone, effectVars>>

\* os.Create fails; or io.Copy does, and leaves the file; or the handler enters CreateJob.
StoreFile(r) ==
    /\ \/ /\ Answer(r, "store", <<500>>)
          /\ files' \in {files, files \cup {r}}
          /\ UNCHANGED queueVars
       \/ /\ Move(r, "store", "push")
          /\ files' = files \cup {r}
          /\ Request(r)
          /\ UNCHANGED written
    /\ UNCHANGED <<limiterVars, authentic, gone, extracted, records, toolLoops>>

\* CreateJob: the blocking send, which ignores the context of the request.
Push(r) ==
    /\ phase[r] = "push"
    /\ Enqueue(r)
    /\ UNCHANGED <<limiterVars, phase, authentic, gone, written, effectVars>>

\* Variant: the handler answers before CreateJob has returned.
RespondAtOnce(r) ==
    /\ Answer(r, "push", <<202>>)
    /\ UNCHANGED <<queueVars, limiterVars, authentic, gone, effectVars>>

\* Variant: the handler removes its temporary file when it returns.
RespondAndRemove(r) ==
    /\ r \notin waiting
    /\ Answer(r, "push", <<202>>)
    /\ files' = files \ {r}
    /\ UNCHANGED <<queueVars, limiterVars, authentic, gone, extracted, records, toolLoops>>

\* CreateJob has returned: processNewJobData answers with the id.
Respond(r) ==
    /\ r \notin waiting
    /\ Answer(r, "push", <<202>>)
    /\ UNCHANGED <<queueVars, limiterVars, authentic, gone, effectVars>>

\* MCPHandler: 202, whether HandleRequest could save its first record, on the context of
\* the request, and start its goroutine, or not; a save that stores the record may still
\* return an error.
MCPHandler(r) ==
    /\ r \in McpRequest
    /\ \/ /\ ContextLives(r)
          /\ Answer(r, "handle", <<400>>)
          /\ UNCHANGED effectVars
       \/ /\ ContextLives(r)
          /\ Answer(r, "handle", <<202>>)
          /\ \/ UNCHANGED effectVars
             \/ /\ records' = records \cup {r}
                /\ toolLoops' \in {toolLoops, toolLoops \cup {r}}
                /\ UNCHANGED <<files, extracted>>
    /\ UNCHANGED <<queueVars, limiterVars, authentic, gone>>

\* GetStatusHandler: an id that is not found, or cannot be looked up, is answered with
\* 404, and then with 200 like any other.
GetStatusHandler(r) ==
    /\ r \in StatusRequest
    /\ ContextLives(r)
    /\ \/ records # {} /\ Answer(r, "handle", <<200>>)
       \/ Answer(r, "handle", <<404, 200>>)
    /\ UNCHANGED <<queueVars, limiterVars, authentic, gone, effectVars>>

MCPStatusHandler(r) ==
    /\ r \in StatusRequest
    /\ ContextLives(r)
    /\ \/ records # {} /\ Answer(r, "handle", <<200>>)
       \/ Answer(r, "handle", <<404>>)
    /\ UNCHANGED <<queueVars, limiterVars, authentic, gone, effectVars>>

HandlerStep(r) ==
    \/ Authenticate(r) \/ LimitRate(r) \/ LeaveGone(r)
    \/ ChatHandler(r) \/ PostIngestHandler(r) \/ ReadForm(r) \/ StoreFile(r)
    \/ MCPHandler(r) \/ GetStatusHandler(r) \/ MCPStatusHandler(r)
    \/ r \in Job /\ (Push(r) \/ Respond(r))

-----------------------------------------------------------------------------
(***************************************************************************)
(* The workers, as far as handlers notice them                              *)
(***************************************************************************)

\* executeJob starts; its first save of the record may fail.
StartJob ==
    /\ Start
    /\ records' \in {records, records \cup {Head(queue)}}
    /\ UNCHANGED <<limiterVars, phase, authentic, gone, written, files, extracted, toolLoops>>

\* An ingestion reads the text of its document ...
ReadDocument(j) ==
    /\ j \in (running \cap IngestRequest) \ extracted
    /\ extracted' = extracted \cup {j}
    /\ UNCHANGED <<queueVars, limiterVars, phase, authentic, gone, written, files, records,
                   toolLoops>>

\* ... and removes the file when everything it read is stored, before its record is saved.
RemoveDocument(j) ==
    /\ j \in running \cap extracted
    /\ files' = files \ {j}
    /\ UNCHANGED <<queueVars, limiterVars, phase, authentic, gone, written, extracted,
                   records, toolLoops>>

\* executeJob ends with its last save.  An ingestion that failed, at any point, or whose
\* os.Remove did, leaves its document behind.
EndJob(j) ==
    /\ Complete(j)
    /\ records' \in {records, records \cup {j}}
    /\ extracted' = extracted \ {j}
    /\ UNCHANGED <<limiterVars, phase, authentic, gone, written, files, toolLoops>>

TimePasses ==
    /\ Tick
    /\ UNCHANGED <<queueVars, phase, authentic, gone, written, effectVars>>

HttpNext ==
    \/ \E r \in HttpRequest : Disconnect(r) \/ HandlerStep(r)
    \/ StartJob
    \/ \E j \in Job : ReadDocument(j) \/ RemoveDocument(j) \/ EndJob(j)
    \/ TimePasses

HttpSpec == HttpInit /\ [][HttpNext]_httpVars

-----------------------------------------------------------------------------
(***************************************************************************)
(* Properties                                                               *)
(***************************************************************************)

JobsAsked == waiting \cup Queued \cup running \cup completed

\* What a request has left in the process.
Work == JobsAsked \cup files \cup toolLoops

(***************************************************************************)
(* Whatever a request leaves behind, a job, a file on disk or a tool loop,   *)
(* was asked for with the token, and each address has at most as many       *)
(* requests with such consequences as it was allowed (Wrap, processRequest: *)
(* the order of the middleware and its early returns).                      *)
(***************************************************************************)
WorkIsAdmitted ==
    /\ Work \subseteq authentic
    /\ \A a \in Address :
          Cardinality({r \in Work : origin[r] = a}) <= Len(grants[a])

(***************************************************************************)
(* A client that is told 400, 401 or 429 finds that nothing has happened:    *)
(* no job, no file, no tool loop and no record (the early returns of the     *)
(* handlers and of the middleware).  For 500 this is false: a document that  *)
(* could not be written stays on disk.                                      *)
(***************************************************************************)
RefusalLeavesNothing ==
    \A r \in HttpRequest :
        (written[r] # <<>> /\ Head(written[r]) \in {400, 401, 429})
            => r \notin Work \cup records

(***************************************************************************)
(* A 202 of /chat or /ingest is given for a job that is in the queue, being  *)
(* executed or done, never for one that may yet be lost with its caller      *)
(* (processNewJobData: CreateJob first, then the response).                  *)
(***************************************************************************)
AcceptedIsQueued ==
    \A r \in Job : 202 \in {written[r][i] : i \in DOMAIN written[r]}
                      => r \in Queued \cup running \cup completed

(***************************************************************************)
(* The document of an ingestion is on disk from before its job can be taken  *)
(* by a worker until the ingestion has read it, whatever becomes of the      *)
(* request and its client meanwhile (PostIngestHandler, which hands the path *)
(* to the job; ProcessDocumentIngestion, which removes the file long before  *)
(* executeJob ends).                                                        *)
(***************************************************************************)
FileReady ==
    (waiting \cup Queued \cup (running \ extracted)) \cap IngestRequest \subseteq files

(***************************************************************************)
(* A request is refused by the limiter only when one more would break the    *)
(* bound of its own address, so requests of other addresses, requests        *)
(* without the token and requests refused before cost it nothing.           *)
(***************************************************************************)
RefusalIsDue ==
    [][\A r \in HttpRequest :
          phase[r] = "limit" /\ written'[r] # written[r] => OneTooMany(origin[r])]_httpVars

(***************************************************************************)
(* A request whose goroutine has ended was answered, unless its client left  *)
(* before the handler looked: none of the early returns of the middleware    *)
(* and the handlers is silent.  That CreateJob returns is CallersReturn of   *)
(* WorkerPool.                                                              *)
(***************************************************************************)
NobodyIsIgnored ==
    \A r \in HttpRequest : phase[r] = "done" => (written[r] # <<>> \/ r \in gone)
=============================================================================
