----------------------------- MODULE WorkerPool -----------------------------
(***************************************************************************)
(* The job service and the worker pool of GoAPI: internal/job/impl.go and   *)
(* internal/worker/worker.go, workerMethods.go.                             *)
(*                                                                         *)
(* Three kinds of goroutine share a buffered channel of jobs, a channel of  *)
(* capacity 1 towards the dispatcher, an atomic counter of workers and a    *)
(* WaitGroup:                                                               *)
(*   - a caller of CreateJob (an HTTP handler, or a tool of the MCP server) *)
(*     counts the job in a gauge, sends it, counts the request and may wake *)
(*     the dispatcher;                                                      *)
(*   - the dispatcher creates the first worker and then at most one worker  *)
(*     for each signal, while the counter is below MaxWorkerCount;          *)
(*   - a worker takes jobs until it sees the stop channel closed, or, if    *)
(*     MinWorkerCount > 1, until it has been idle for IdleWorkerTimeout.    *)
(*                                                                         *)
(* Every atomic operation and every channel operation of the code is a step *)
(* of its own.  What a job does while a worker holds it is modelled in      *)
(* JobExecution.tla.                                                        *)
(***************************************************************************)
EXTENDS Integers, Sequences, FiniteSets

CONSTANTS
    Job,                        \* one element per call of CreateJob
    IngestJob,                  \* the jobs that ingest a document
    Worker,                     \* names for worker goroutines
    NoJob,                      \* a worker that holds no job
    BufferLimit,                \* config.BufferLimit
    MaxWorkerCount,             \* config.MaxWorkerCount
    MinWorkerCount,             \* config.MinWorkerCount
    RequestsPerNewWorkerCount   \* config.RequestsPerNewWorkerCount

ASSUME JobAssumption == IsFiniteSet(Job) /\ IngestJob \subseteq Job /\ NoJob \notin Job

\* More names than workers that may live at once: a bug that creates too many is
\* not hidden by the lack of a name.
ASSUME WorkerAssumption == IsFiniteSet(Worker) /\ Cardinality(Worker) > MaxWorkerCount

ASSUME ConfigAssumption ==
    /\ BufferLimit \in Nat \ {0}
    /\ MaxWorkerCount \in Nat \ {0}
    /\ MinWorkerCount \in Nat
    /\ RequestsPerNewWorkerCount \in Nat \ {0}

VARIABLES
    caller,             \* where each call of CreateJob is
    jobsInQueue,        \* the Prometheus gauge of jobs in the queue
    jobChannel,         \* the buffered channel of jobs
    requestCount,       \* Service.RequestCount
    dispatcherChannel,  \* signals buffered in the dispatcher's channel, 0 or 1
    dispatcher,         \* where the dispatcher goroutine is
    worker,             \* where each worker goroutine is
    holds,              \* the job a worker is executing
    currentWorkerCount, \* the pool's atomic counter
    workerWaitGroup,    \* counter of the WaitGroup
    stopWorkerChannel,  \* is the stop channel closed?
    completed,          \* history: jobs whose execution has ended
    created             \* history: how many workers the dispatcher has created

callerVars == <<caller, jobsInQueue, requestCount>>
dispatcherVars == <<dispatcherChannel, dispatcher, created>>
workerVars == <<worker, holds, completed>>
counterVars == <<currentWorkerCount, workerWaitGroup>>
poolVars == <<callerVars, jobChannel, dispatcherVars, workerVars, counterVars,
              stopWorkerChannel>>

CallerState == {"new", "sending", "counting", "signalling", "returned"}
DispatcherState == {"creating", "counting", "waiting", "deciding"}
WorkerState == {"none", "idle", "busy", "leaving"}

CallersAt(state) == {j \in Job : caller[j] = state}
WorkersAt(state) == {w \in Worker : worker[w] = state}
LiveWorkers == {w \in Worker : worker[w] # "none"}
Serving == {w \in Worker : worker[w] \in {"idle", "busy"}}

TypeOK ==
    /\ caller \in [Job -> CallerState]
    /\ jobsInQueue \in Int
    /\ jobChannel \in Seq(Job)
    /\ Len(jobChannel) <= BufferLimit
    /\ requestCount \in Nat
    /\ dispatcherChannel \in 0..1
    /\ dispatcher \in DispatcherState
    /\ worker \in [Worker -> WorkerState]
    /\ holds \in [Worker -> Job \cup {NoJob}]
    /\ currentWorkerCount \in Int
    /\ workerWaitGroup \in Int
    /\ stopWorkerChannel \in BOOLEAN
    /\ completed \subseteq Job
    /\ created \in Nat

Init ==
    /\ caller = [j \in Job |-> "new"]
    /\ jobsInQueue = 0
    /\ jobChannel = <<>>
    /\ requestCount = 0
    /\ dispatcherChannel = 0
    /\ dispatcher = "creating"
    /\ worker = [w \in Worker |-> "none"]
    /\ holds = [w \in Worker |-> NoJob]
    /\ currentWorkerCount = 0
    /\ workerWaitGroup = 0
    /\ stopWorkerChannel = FALSE
    /\ completed = {}
    /\ created = 0

-----------------------------------------------------------------------------
(***************************************************************************)
(* A call of CreateJob, up to the end of pushToJobChannel                   *)
(***************************************************************************)

\* Variant: the gauge is not incremented for a document.
SubmitQueryOnly(j) ==
    /\ caller[j] = "new"
    /\ caller' = [caller EXCEPT ![j] = "sending"]
    /\ jobsInQueue' = IF j \in IngestJob THEN jobsInQueue ELSE jobsInQueue + 1
    /\ UNCHANGED <<jobChannel, requestCount, dispatcherVars, workerVars, counterVars,
                   stopWorkerChannel>>

\* The job is counted in the gauge before it is sent.
Submit(j) ==
    /\ caller[j] = "new"
    /\ caller' = [caller EXCEPT ![j] = "sending"]
    /\ jobsInQueue' = jobsInQueue + 1
    /\ UNCHANGED <<jobChannel, requestCount, dispatcherVars, workerVars, counterVars,
                   stopWorkerChannel>>

\* Variant: the channel is made one larger than BufferLimit.
HasRoomForOneMore == Len(jobChannel) <= BufferLimit

HasRoom == Len(jobChannel) < BufferLimit

\* The blocking send on the job channel.
Send(j) ==
    /\ caller[j] = "sending"
    /\ HasRoom
    /\ jobChannel' = Append(jobChannel, j)
    /\ caller' = [caller EXCEPT ![j] = "counting"]
    /\ UNCHANGED <<jobsInQueue, requestCount, dispatcherVars, workerVars, counterVars,
                   stopWorkerChannel>>

\* Is a new worker asked for by the request that made the counter n?
AsksForWorker(j, n) == n % RequestsPerNewWorkerCount = 0 \/ j \in IngestJob

\* The atomic increment of RequestCount and the test of its result.
CountRequest(j) ==
    /\ caller[j] = "counting"
    /\ requestCount' = requestCount + 1
    /\ caller' = [caller EXCEPT ![j] =
                     IF AsksForWorker(j, requestCount') THEN "signalling" ELSE "returned"]
    /\ UNCHANGED <<jobsInQueue, jobChannel, dispatcherVars, workerVars, counterVars,
                   stopWorkerChannel>>

\* Variant: the send does not block, a signal is dropped when one is pending.
SignalOrDrop(j) ==
    /\ caller[j] = "signalling"
    /\ dispatcherChannel' = 1
    /\ caller' = [caller EXCEPT ![j] = "returned"]
    /\ UNCHANGED <<jobsInQueue, jobChannel, requestCount, dispatcher, created, workerVars,
                   counterVars, stopWorkerChannel>>

\* The blocking send on the dispatcher's channel, whose capacity is 1.
Signal(j) ==
    /\ caller[j] = "signalling"
    /\ dispatcherChannel < 1
    /\ dispatcherChannel' = dispatcherChannel + 1
    /\ caller' = [caller EXCEPT ![j] = "returned"]
    /\ UNCHANGED <<jobsInQueue, jobChannel, requestCount, dispatcher, created, workerVars,
                   counterVars, stopWorkerChannel>>

-----------------------------------------------------------------------------
(***************************************************************************)
(* The dispatcher                                                           *)
(***************************************************************************)

\* Variant: the worker is not added to the WaitGroup.
CreateWorkerUncounted(w) ==
    /\ dispatcher = "creating"
    /\ worker[w] = "none"
    /\ worker' = [worker EXCEPT ![w] = "idle"]
    /\ created' = created + 1
    /\ dispatcher' = "counting"
    /\ UNCHANGED <<callerVars, jobChannel, dispatcherChannel, holds, completed,
                   counterVars, stopWorkerChannel>>

\* createWorker adds to the WaitGroup and starts the goroutine ...
CreateWorker(w) ==
    /\ dispatcher = "creating"
    /\ worker[w] = "none"
    /\ workerWaitGroup' = workerWaitGroup + 1
    /\ worker' = [worker EXCEPT ![w] = "idle"]
    /\ created' = created + 1
    /\ dispatcher' = "counting"
    /\ UNCHANGED <<callerVars, jobChannel, dispatcherChannel, holds, completed,
                   currentWorkerCount, stopWorkerChannel>>

\* ... and only then increments the counter, when the worker may have left already.
CountWorker ==
    /\ dispatcher = "counting"
    /\ currentWorkerCount' = currentWorkerCount + 1
    /\ dispatcher' = "waiting"
    /\ UNCHANGED <<callerVars, jobChannel, dispatcherChannel, created, workerVars,
                   workerWaitGroup, stopWorkerChannel>>

\* The loop of the dispatcher receives a signal ...
ReceiveSignal ==
    /\ dispatcher = "waiting"
    /\ dispatcherChannel > 0
    /\ dispatcherChannel' = dispatcherChannel - 1
    /\ dispatcher' = "deciding"
    /\ UNCHANGED <<callerVars, jobChannel, created, workerVars, counterVars,
                   stopWorkerChannel>>

\* Variant: an off-by-one in the test of the limit.
MayCreateOneMore == currentWorkerCount <= MaxWorkerCount

\* Is there room for another worker?
MayCreate == currentWorkerCount < MaxWorkerCount

\* ... and loads the counter to decide whether to create a worker.
Decide ==
    /\ dispatcher = "deciding"
    /\ dispatcher' = IF MayCreate THEN "creating" ELSE "waiting"
    /\ UNCHANGED <<callerVars, jobChannel, dispatcherChannel, created, workerVars,
                   counterVars, stopWorkerChannel>>

-----------------------------------------------------------------------------
(***************************************************************************)
(* A worker                                                                 *)
(***************************************************************************)

\* Variant: the worker looks at the first job without receiving it.
TakeTwice(w) ==
    /\ worker[w] = "idle"
    /\ jobChannel # <<>>
    /\ holds' = [holds EXCEPT ![w] = Head(jobChannel)]
    /\ worker' = [worker EXCEPT ![w] = "busy"]
    /\ UNCHANGED <<callerVars, jobChannel, dispatcherVars, completed, counterVars,
                   stopWorkerChannel>>

\* A job is received.  This branch stays enabled after the stop channel is closed:
\* select chooses among the ready channels at random.
Take(w) ==
    /\ worker[w] = "idle"
    /\ jobChannel # <<>>
    /\ holds' = [holds EXCEPT ![w] = Head(jobChannel)]
    /\ jobChannel' = Tail(jobChannel)
    /\ worker' = [worker EXCEPT ![w] = "busy"]
    /\ UNCHANGED <<callerVars, dispatcherVars, completed, counterVars, stopWorkerChannel>>

\* Variant: the worker returns after one job.
FinishAndReturn(w) ==
    /\ worker[w] = "busy"
    /\ completed' = completed \cup {holds[w]}
    /\ holds' = [holds EXCEPT ![w] = NoJob]
    /\ worker' = [worker EXCEPT ![w] = "leaving"]
    /\ jobsInQueue' = jobsInQueue - 1
    /\ workerWaitGroup' = workerWaitGroup - 1
    /\ UNCHANGED <<caller, jobChannel, requestCount, dispatcherVars, currentWorkerCount,
                   stopWorkerChannel>>

\* executeJob returns and the gauge is decremented.
Finish(w) ==
    /\ worker[w] = "busy"
    /\ completed' = completed \cup {holds[w]}
    /\ holds' = [holds EXCEPT ![w] = NoJob]
    /\ worker' = [worker EXCEPT ![w] = "idle"]
    /\ jobsInQueue' = jobsInQueue - 1
    /\ UNCHANGED <<caller, jobChannel, requestCount, dispatcherVars, counterVars,
                   stopWorkerChannel>>

\* Variant: the worker leaves without releasing the WaitGroup.
LeaveWithoutDone(w) ==
    /\ worker[w] = "idle"
    /\ worker' = [worker EXCEPT ![w] = "leaving"]
    /\ UNCHANGED <<callerVars, jobChannel, dispatcherVars, holds, completed,
                   counterVars, stopWorkerChannel>>

\* removeWorker, first half: the WaitGroup is released before the counter.
Leave(w) ==
    /\ worker[w] = "idle"
    /\ workerWaitGroup' = workerWaitGroup - 1
    /\ worker' = [worker EXCEPT ![w] = "leaving"]
    /\ UNCHANGED <<callerVars, jobChannel, dispatcherVars, holds, completed,
                   currentWorkerCount, stopWorkerChannel>>

\* The receive from the closed stop channel.
StopWorker(w) == stopWorkerChannel /\ Leave(w)

\* Variant: an off-by-one in the test of the minimum.
RetiresFromOne == MinWorkerCount >= 1

\* Do idle workers retire?
Retires == MinWorkerCount > 1

\* The idle timer fires.  With MinWorkerCount <= 1 the worker just waits again.
IdleTimeout(w) == Retires /\ Leave(w)

\* Variant: the counter is left alone when a worker is removed.
ForgetWorker(w) ==
    /\ worker[w] = "leaving"
    /\ worker' = [worker EXCEPT ![w] = "none"]
    /\ UNCHANGED <<callerVars, jobChannel, dispatcherVars, holds, completed,
                   counterVars, stopWorkerChannel>>

\* removeWorker, second half, after which the goroutine returns.
UncountWorker(w) ==
    /\ worker[w] = "leaving"
    /\ currentWorkerCount' = currentWorkerCount - 1
    /\ worker' = [worker EXCEPT ![w] = "none"]
    /\ UNCHANGED <<callerVars, jobChannel, dispatcherVars, holds, completed,
                   workerWaitGroup, stopWorkerChannel>>

-----------------------------------------------------------------------------
\* The shutdown handler closes the stop channel, at any moment, once.
CloseStop ==
    /\ ~stopWorkerChannel
    /\ stopWorkerChannel' = TRUE
    /\ UNCHANGED <<callerVars, jobChannel, dispatcherVars, workerVars, counterVars>>

CallerStep(j) == Submit(j) \/ Send(j) \/ CountRequest(j) \/ Signal(j)

DispatcherStep ==
    \/ \E w \in Worker : CreateWorker(w)
    \/ CountWorker
    \/ ReceiveSignal
    \/ Decide

WorkerStep(w) ==
    \/ Take(w)
    \/ Finish(w)
    \/ StopWorker(w)
    \/ IdleTimeout(w)
    \/ UncountWorker(w)

Next ==
    \/ \E j \in Job : CallerStep(j)
    \/ DispatcherStep
    \/ \E w \in Worker : WorkerStep(w)
    \/ CloseStop

Spec == Init /\ [][Next]_poolVars

(***************************************************************************)
(* Goroutines that can run do run: the Go scheduler is fair, a blocked send *)
(* is served in the order of arrival, and an execution ends because its     *)
(* context expires after 60 seconds.  Nothing obliges a client to submit,   *)
(* a timer to fire or the process to be stopped.                            *)
(***************************************************************************)
Fairness ==
    /\ \A j \in Job : WF_poolVars(Send(j) \/ CountRequest(j) \/ Signal(j))
    /\ WF_poolVars(DispatcherStep)
    /\ \A w \in Worker : WF_poolVars(Take(w) \/ Finish(w) \/ UncountWorker(w))

FairSpec == Spec /\ Fairness

-----------------------------------------------------------------------------
(***************************************************************************)
(* Safety                                                                   *)
(***************************************************************************)

\* The counter the dispatcher trusts is the number of workers alive, but for the
\* one it has just created.  It is increment and decrement of different goroutines
\* (createWorker, removeWorker) that keep it so.
PoolAccounting ==
    Cardinality(LiveWorkers) =
        currentWorkerCount + (IF dispatcher = "counting" THEN 1 ELSE 0)

\* Never more workers than MaxWorkerCount, although the dispatcher reads the
\* counter in one step, creates in another and counts in a third.
PoolBound == Cardinality(LiveWorkers) <= MaxWorkerCount

\* The WaitGroup counts exactly the workers that have not decided to leave: it
\* never goes negative (which panics), and Wait cannot return while a worker that
\* was started holds a job.
WaitGroupAccounting == workerWaitGroup = Cardinality(Serving)

\* The gauge is exact: jobs whose caller is blocked, jobs in the channel and jobs
\* being executed.
GaugeAccounting ==
    jobsInQueue = Cardinality(CallersAt("sending")) + Len(jobChannel)
                      + Cardinality(WorkersAt("busy"))

\* With the shipped MinWorkerCount the pool, once started, always has a worker for
\* the jobs that come, until it is stopped.
PoolNeverEmpty ==
    MinWorkerCount <= 1 /\ ~stopWorkerChannel =>
        Serving # {} \/ (dispatcher = "creating" /\ currentWorkerCount = 0)

LesserOf(m, n) == IF m <= n THEN m ELSE n

\* The blocking signal loses nothing: once every call has returned and the
\* dispatcher is at rest, it has created one worker besides the first for each full
\* RequestsPerNewWorkerCount requests, unless it declined at the limit.  How many of
\* them are left, and whether they ever leave, is another question.
NoSignalIsLost ==
    (/\ \A j \in Job : caller[j] \in {"new", "returned"}
     /\ dispatcher = "waiting" /\ dispatcherChannel = 0)
        => created >=
              LesserOf(MaxWorkerCount, 1 + requestCount \div RequestsPerNewWorkerCount)

(***************************************************************************)
(* Refinement                                                               *)
(***************************************************************************)
Queue == INSTANCE JobQueue WITH
            MaxRunning <- MaxWorkerCount,
            waiting <- CallersAt("sending"),
            queue <- jobChannel,
            running <- {holds[w] : w \in WorkersAt("busy")}

\* The pool implements the queue: each job is queued once, started once in the
\* order of the channel, and completed once, whatever the interleaving of callers,
\* dispatcher and workers, and while workers come and go.
ImplementsJobQueue == Queue!Spec

(***************************************************************************)
(* Liveness                                                                 *)
(***************************************************************************)

\* A job whose caller started to send it is executed to its end, unless the pool
\* is stopped: no caller stays blocked on a full channel, or on the dispatcher.
JobsServed == \A j \in Job : caller[j] = "sending" ~> (j \in completed \/ stopWorkerChannel)

\* Every call of CreateJob returns, even if the dispatcher is busy creating
\* workers, unless the pool is stopped.
CallersReturn == \A j \in Job : caller[j] = "sending" ~> (caller[j] = "returned" \/ stopWorkerChannel)
=============================================================================
