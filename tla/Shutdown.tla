------------------------------ MODULE Shutdown ------------------------------
(***************************************************************************)
(* The life of the process around the worker pool: the start of the HTTP    *)
(* server and the shutdown handler of internal/server/server.go, as wired   *)
(* by cmd/api/main.go, composed with the pool of WorkerPool.tla.            *)
(*                                                                         *)
(* On a signal the handler closes the HTTP server and waits for its         *)
(* requests, closes the stop channel, waits for the workers, closes the     *)
(* external services and lets main return.  Ten seconds after the signal    *)
(* the process is killed, wherever the handler is.                          *)
(*                                                                         *)
(* Calls of CreateJob come from HTTP handlers, which http.Server.Shutdown    *)
(* waits for, and from the tools of the MCP server, which run in goroutines  *)
(* of their own (mcpImpl.HandleRequest) that nothing waits for.             *)
(***************************************************************************)
EXTENDS WorkerPool

CONSTANT ToolJob    \* the jobs created by MCP tools

ASSUME ToolJobAssumption == ToolJob \subseteq Job

VARIABLES
    server,         \* the HTTP server: not yet assigned, serving, or closed
    handler,        \* where the shutdown handler is
    deadlinePassed, \* has the context of the shutdown expired?
    servicesClosed, \* were Redis, Qdrant and the MCP server told to close?
    process,        \* running, ended in order, killed, or ended by a panic
    inFlightAtStop  \* history: jobs in execution when the stop channel was closed

shutdownVars == <<server, handler, deadlinePassed, servicesClosed, process, inFlightAtStop>>
vars == <<poolVars, shutdownVars>>

HttpJob == Job \ ToolJob

HandlerState == {"listening", "stopping", "draining", "waiting", "closing", "releasing",
                 "finished"}

ShutdownTypeOK ==
    /\ TypeOK
    /\ server \in {"nil", "serving", "closed"}
    /\ handler \in HandlerState
    /\ deadlinePassed \in BOOLEAN
    /\ servicesClosed \in BOOLEAN
    /\ process \in {"up", "stopped", "killed", "panicked"}
    /\ inFlightAtStop \subseteq Job

ShutdownInit ==
    /\ Init
    /\ server = "nil"
    /\ handler = "listening"
    /\ deadlinePassed = FALSE
    /\ servicesClosed = FALSE
    /\ process = "up"
    /\ inFlightAtStop = {}

-----------------------------------------------------------------------------
(***************************************************************************)
(* The pool, while the process is up                                        *)
(***************************************************************************)

\* An HTTP handler calls CreateJob while the server accepts requests, or later for a
\* request accepted before: until Shutdown has seen it end, or gave up waiting for it.
\* A tool runs at any time, whatever became of the server since it was asked for.
MayCreateJob(j) ==
    \/ server = "serving"
    \/ server = "closed" /\ (j \in ToolJob \/ handler = "draining" \/ deadlinePassed)

CreateJob(j) ==
    /\ process = "up"
    /\ MayCreateJob(j)
    /\ Submit(j)
    /\ UNCHANGED shutdownVars

CallerAdvances(j) ==
    /\ process = "up"
    /\ Send(j) \/ CountRequest(j) \/ Signal(j)
    /\ UNCHANGED shutdownVars

DispatcherAdvances ==
    /\ process = "up"
    /\ DispatcherStep
    /\ UNCHANGED shutdownVars

WorkerAdvances(w) ==
    /\ process = "up"
    /\ WorkerStep(w)
    /\ UNCHANGED shutdownVars

-----------------------------------------------------------------------------
(***************************************************************************)
(* The server and the shutdown handler                                      *)
(***************************************************************************)

\* CreateServer assigns the global and listens.  It runs beside the handler.
CreateServer ==
    /\ process = "up"
    /\ server = "nil"
    /\ server' = "serving"
    /\ UNCHANGED <<poolVars, handler, deadlinePassed, servicesClosed, process,
                   inFlightAtStop>>

\* SIGINT or SIGTERM: the handler starts the clock of 10 seconds.
ReceiveShutdownSignal ==
    /\ process = "up"
    /\ handler = "listening"
    /\ handler' = "stopping"
    /\ UNCHANGED <<poolVars, server, deadlinePassed, servicesClosed, process,
                   inFlightAtStop>>

\* server.SetKeepAlivesEnabled dereferences the global: before CreateServer has
\* assigned it the process dies of a nil pointer.
PanicWithoutServer ==
    /\ process = "up"
    /\ handler = "stopping"
    /\ server = "nil"
    /\ process' = "panicked"
    /\ UNCHANGED <<poolVars, server, handler, deadlinePassed, servicesClosed,
                   inFlightAtStop>>

\* server.Shutdown closes the listeners ...
CloseServer ==
    /\ process = "up"
    /\ handler = "stopping"
    /\ server = "serving"
    /\ server' = "closed"
    /\ handler' = "draining"
    /\ UNCHANGED <<poolVars, deadlinePassed, servicesClosed, process, inFlightAtStop>>

\* Variant: Close in place of Shutdown, which does not wait for the requests.
DoesNotWait == TRUE

\* ... and returns when no request is active, or with an error at the deadline.
RequestsDrained ==
    deadlinePassed \/ \A j \in HttpJob : caller[j] \in {"new", "returned"}

\* Either way the stop channel is closed next.
CloseWorkers ==
    /\ process = "up"
    /\ handler = "draining"
    /\ RequestsDrained
    /\ CloseStop
    /\ inFlightAtStop' = {holds[w] : w \in WorkersAt("busy")}
    /\ handler' = "waiting"
    /\ UNCHANGED <<server, deadlinePassed, servicesClosed, process>>

\* Variant: the handler does not wait for the workers.
WaitSkipped == TRUE

WorkersGone == workerWaitGroup = 0

\* Group.Wait returns.
WaitReturns ==
    /\ process = "up"
    /\ handler = "waiting"
    /\ WorkersGone
    /\ handler' = "closing"
    /\ UNCHANGED <<poolVars, server, deadlinePassed, servicesClosed, process,
                   inFlightAtStop>>

\* The service context is cancelled: the clients of the external services close.
CloseServices ==
    /\ process = "up"
    /\ handler = "closing"
    /\ servicesClosed' = TRUE
    /\ handler' = "releasing"
    /\ UNCHANGED <<poolVars, server, deadlinePassed, process, inFlightAtStop>>

\* StopExecution is closed: main may return.
ReleaseMain ==
    /\ process = "up"
    /\ handler = "releasing"
    /\ handler' = "finished"
    /\ UNCHANGED <<poolVars, server, deadlinePassed, servicesClosed, process,
                   inFlightAtStop>>

MainReturns ==
    /\ process = "up"
    /\ handler = "finished"
    /\ process' = "stopped"
    /\ UNCHANGED <<poolVars, server, handler, deadlinePassed, servicesClosed,
                   inFlightAtStop>>

\* The context of the shutdown expires, at any moment before the handler is done.
DeadlinePasses ==
    /\ process = "up"
    /\ handler \notin {"listening", "finished"}
    /\ ~deadlinePassed
    /\ deadlinePassed' = TRUE
    /\ UNCHANGED <<poolVars, server, handler, servicesClosed, process, inFlightAtStop>>

\* The handler's select sees the expired context and exits the process.  If the
\* work was done in the meantime too, select may choose that branch instead.
ForceExit ==
    /\ process = "up"
    /\ deadlinePassed
    /\ process' = "killed"
    /\ UNCHANGED <<poolVars, server, handler, deadlinePassed, servicesClosed,
                   inFlightAtStop>>

HandlerAdvances ==
    \/ CloseServer
    \/ CloseWorkers
    \/ WaitReturns
    \/ CloseServices
    \/ ReleaseMain
    \/ MainReturns

ShutdownNext ==
    \/ \E j \in Job : CreateJob(j) \/ CallerAdvances(j)
    \/ DispatcherAdvances
    \/ \E w \in Worker : WorkerAdvances(w)
    \/ CreateServer
    \/ ReceiveShutdownSignal
    \/ PanicWithoutServer
    \/ HandlerAdvances
    \/ DeadlinePasses
    \/ ForceExit

ShutdownSpec == ShutdownInit /\ [][ShutdownNext]_vars

\* The goroutines run; a closed stop channel is seen in the end, because it wins
\* select once the finite supply of jobs is exhausted.  The deadline is not fair:
\* the properties say what happens without its help.
ShutdownFairness ==
    /\ \A j \in Job : WF_vars(CallerAdvances(j))
    /\ WF_vars(DispatcherAdvances)
    /\ \A w \in Worker : WF_vars(WorkerAdvances(w))
    /\ WF_vars(HandlerAdvances)
    /\ WF_vars(PanicWithoutServer)

FairShutdownSpec == ShutdownSpec /\ ShutdownFairness

-----------------------------------------------------------------------------
(***************************************************************************)
(* Safety                                                                   *)
(***************************************************************************)

\* Unless the deadline interferes, the workers are told to stop only when no HTTP
\* handler is inside CreateJob: no request is left blocked on a channel that
\* nobody reads any more.
RequestsFinishFirst ==
    stopWorkerChannel /\ ~deadlinePassed =>
        \A j \in HttpJob : caller[j] \in {"new", "returned"}

\* A job that was being executed when the workers were told to stop runs to its end
\* before the services it uses are closed.
InFlightJobsFinish == servicesClosed => inFlightAtStop \subseteq completed

(***************************************************************************)
(* Liveness                                                                 *)
(***************************************************************************)

\* A signal ends the process without the help of the deadline: requests drain
\* through the workers, and the workers then leave.
ShutdownEnds == handler = "stopping" ~> (process # "up" \/ deadlinePassed)
=============================================================================
