--------------------------- MODULE ShutdownProofs ---------------------------
(***************************************************************************)
(* Theorems about Shutdown, for every set of jobs and workers and every      *)
(* configuration.                                                           *)
(*                                                                         *)
(* The process runs the pool of WorkerPool.tla and nothing else touches the  *)
(* pool's state: what is proved of the pool holds in the process, whatever   *)
(* the server and the handler do.  The exactness of the WaitGroup is then    *)
(* what makes the return of Wait mean that no job is in execution.           *)
(***************************************************************************)
EXTENDS Shutdown, WorkerPoolProofs

\* A step of the process is a step of the pool or leaves the pool alone.
LEMMA ShutdownStepsPool == [ShutdownNext]_vars => [Next]_poolVars
<1> SUFFICES ASSUME [ShutdownNext]_vars PROVE Next \/ UNCHANGED poolVars
  OBVIOUS
<1>1. CASE \E j \in Job : CreateJob(j) \/ CallerAdvances(j)
  BY <1>1 DEF CreateJob, CallerAdvances, Next, CallerStep
<1>2. CASE DispatcherAdvances
  BY <1>2 DEF DispatcherAdvances, Next
<1>3. CASE \E w \in Worker : WorkerAdvances(w)
  BY <1>3 DEF WorkerAdvances, Next
<1>4. CASE CreateServer \/ ReceiveShutdownSignal \/ PanicWithoutServer \/ DeadlinePasses
              \/ ForceExit
  BY <1>4 DEF CreateServer, ReceiveShutdownSignal, PanicWithoutServer, DeadlinePasses,
              ForceExit
<1>5. CASE CloseWorkers
  BY <1>5 DEF CloseWorkers, Next
<1>6. CASE CloseServer \/ WaitReturns \/ CloseServices \/ ReleaseMain \/ MainReturns
  BY <1>6 DEF CloseServer, WaitReturns, CloseServices, ReleaseMain, MainReturns
<1>7. CASE UNCHANGED vars
  BY <1>7 DEF vars
<1> QED
  BY <1>1, <1>2, <1>3, <1>4, <1>5, <1>6, <1>7 DEF ShutdownNext, HandlerAdvances

\* The process implements the pool: Shutdown adds conditions and steps of its own to
\* the pool's steps, and no step that the pool does not have.
THEOREM ProcessRunsPool == ShutdownSpec => Spec
<1>1. ShutdownInit => Init
  BY DEF ShutdownInit
<1> QED
  BY <1>1, ShutdownStepsPool, PTL DEF ShutdownSpec, Spec

\* The layers of the proofs about the pool hold of the process too.
LEMMA PoolInvariants == ShutdownSpec => [](Typed /\ Counted)
  BY ProcessRunsPool, TypeCorrect, CountedAlways, PTL

-----------------------------------------------------------------------------
(***************************************************************************)
(* The order of the handler                                                 *)
(***************************************************************************)

BeforeStop == {"listening", "stopping", "draining"}
AfterWait == {"closing", "releasing", "finished"}

Executing == {holds[w] : w \in WorkersAt("busy")}

\* The stop channel is closed exactly when the handler has left "draining"; the server
\* is then closed too; the services close after the wait.
HandlerInOrder ==
    /\ handler \in HandlerState
    /\ stopWorkerChannel <=> handler \notin BeforeStop
    /\ handler \notin {"listening", "stopping"} => server = "closed"
    /\ servicesClosed => handler \in AfterWait

LEMMA HandlerInOrderInit == ShutdownInit => HandlerInOrder
  BY DEF ShutdownInit, Init, HandlerInOrder, HandlerState, BeforeStop, AfterWait

\* Only CloseWorkers closes the stop channel.
LEMMA PoolKeepsStop ==
  ASSUME \/ \E j \in Job : CreateJob(j) \/ CallerAdvances(j)
         \/ DispatcherAdvances
         \/ \E w \in Worker : WorkerAdvances(w)
  PROVE  stopWorkerChannel' = stopWorkerChannel /\ UNCHANGED shutdownVars
<1>1. CASE \E j \in Job : CreateJob(j) \/ CallerAdvances(j)
  BY <1>1 DEF CreateJob, CallerAdvances, Submit, Send, CountRequest, Signal
<1>2. CASE DispatcherAdvances
  BY <1>2 DEF DispatcherAdvances, DispatcherStep, CreateWorker, CountWorker, ReceiveSignal,
              Decide
<1>3. CASE \E w \in Worker : WorkerAdvances(w)
  BY <1>3 DEF WorkerAdvances, WorkerStep, Take, Finish, StopWorker, IdleTimeout, Leave,
              UncountWorker
<1> QED
  BY <1>1, <1>2, <1>3

\* Only the handler stops the workers, and only after it has drained the requests.
LEMMA HandlerInOrderStep == HandlerInOrder /\ [ShutdownNext]_vars => HandlerInOrder'
<1> SUFFICES ASSUME HandlerInOrder, [ShutdownNext]_vars PROVE HandlerInOrder'
  OBVIOUS
<1> USE DEF HandlerInOrder, HandlerState, BeforeStop, AfterWait
<1>1. CASE \/ \E j \in Job : CreateJob(j) \/ CallerAdvances(j)
           \/ DispatcherAdvances
           \/ \E w \in Worker : WorkerAdvances(w)
  BY <1>1, PoolKeepsStop DEF shutdownVars
<1>2. CASE CreateServer
  BY <1>2 DEF CreateServer, poolVars
<1>3. CASE ReceiveShutdownSignal \/ PanicWithoutServer \/ DeadlinePasses \/ ForceExit
  BY <1>3 DEF ReceiveShutdownSignal, PanicWithoutServer, DeadlinePasses, ForceExit, poolVars
<1>4. CASE CloseServer
  BY <1>4 DEF CloseServer, poolVars
<1>5. CASE CloseWorkers
  BY <1>5 DEF CloseWorkers, CloseStop
<1>6. CASE WaitReturns \/ CloseServices \/ ReleaseMain \/ MainReturns
  BY <1>6 DEF WaitReturns, CloseServices, ReleaseMain, MainReturns, poolVars
<1>7. CASE UNCHANGED vars
  BY <1>7 DEF vars, poolVars, shutdownVars
<1> QED
  BY <1>1, <1>2, <1>3, <1>4, <1>5, <1>6, <1>7 DEF ShutdownNext, HandlerAdvances

LEMMA HandlerAlwaysInOrder == ShutdownSpec => []HandlerInOrder
  BY HandlerInOrderInit, HandlerInOrderStep, PTL DEF ShutdownSpec

-----------------------------------------------------------------------------
(***************************************************************************)
(* The requests finish first                                                *)
(***************************************************************************)

\* No HTTP caller starts once the requests are drained, and the drained ones stay so.
LEMMA RequestsFinishFirstStep ==
  Typed /\ HandlerInOrder /\ RequestsFinishFirst /\ [ShutdownNext]_vars => RequestsFinishFirst'
<1> SUFFICES ASSUME Typed, HandlerInOrder, RequestsFinishFirst, [ShutdownNext]_vars,
                    stopWorkerChannel', ~deadlinePassed'
             PROVE  \A j \in HttpJob : caller'[j] \in {"new", "returned"}
  BY DEF RequestsFinishFirst
<1> USE DEF HandlerInOrder, RequestsFinishFirst, HandlerState, BeforeStop
\* A call of an HTTP handler neither begins nor advances once the channel is closed.
<1>1. CASE \E j \in Job : CreateJob(j) \/ CallerAdvances(j)
  <2>1. PICK j \in Job : CreateJob(j) \/ CallerAdvances(j)
    BY <1>1
  <2>2. stopWorkerChannel /\ ~deadlinePassed
    <3>1. stopWorkerChannel' = stopWorkerChannel /\ deadlinePassed' = deadlinePassed
      BY <1>1, PoolKeepsStop DEF shutdownVars
    <3> QED
      BY <3>1, Zenon
  <2>3. \A k \in HttpJob : caller[k] \in {"new", "returned"}
    BY <2>2
  <2>4. server = "closed" /\ handler # "draining"
    BY <2>2
  <2>5. j \notin HttpJob
    BY <2>1, <2>2, <2>3, <2>4
       DEF CreateJob, MayCreateJob, HttpJob, CallerAdvances, Send, CountRequest, Signal
  <2>6. \A k \in HttpJob : caller'[k] = caller[k] \/ k = j
    BY <2>1 DEF CreateJob, CallerAdvances, Submit, Send, CountRequest, Signal, HttpJob,
                Typed, TypeOK
  <2> QED
    BY <2>3, <2>5, <2>6
<1>2. CASE DispatcherAdvances \/ \E w \in Worker : WorkerAdvances(w)
  <2>1. caller' = caller
    BY <1>2 DEF DispatcherAdvances, WorkerAdvances, DispatcherStep, CreateWorker,
                CountWorker, ReceiveSignal, Decide, WorkerStep, Take, Finish, StopWorker,
                IdleTimeout, Leave, UncountWorker, callerVars
  <2>2. stopWorkerChannel /\ ~deadlinePassed
    <3>1. stopWorkerChannel' = stopWorkerChannel /\ deadlinePassed' = deadlinePassed
      BY <1>2, PoolKeepsStop DEF shutdownVars
    <3> QED
      BY <3>1, Zenon
  <2> QED
    BY <2>1, <2>2
<1>3. CASE CloseWorkers
  BY <1>3 DEF CloseWorkers, CloseStop, RequestsDrained, callerVars
<1>4. CASE \/ CreateServer \/ ReceiveShutdownSignal \/ PanicWithoutServer
           \/ DeadlinePasses \/ ForceExit \/ CloseServer \/ WaitReturns
           \/ CloseServices \/ ReleaseMain \/ MainReturns \/ UNCHANGED vars
  <2>1. caller' = caller /\ stopWorkerChannel' = stopWorkerChannel
    BY <1>4 DEF CreateServer, ReceiveShutdownSignal, PanicWithoutServer, DeadlinePasses,
                ForceExit, CloseServer, WaitReturns, CloseServices, ReleaseMain, MainReturns,
                vars, poolVars, callerVars
  <2>2. ~deadlinePassed
    BY <1>4 DEF CreateServer, ReceiveShutdownSignal, PanicWithoutServer, DeadlinePasses,
                ForceExit, CloseServer, WaitReturns, CloseServices, ReleaseMain, MainReturns,
                vars, shutdownVars
  <2> QED
    BY <2>1, <2>2
<1> QED
  BY <1>1, <1>2, <1>3, <1>4 DEF ShutdownNext, HandlerAdvances

\* The workers are told to stop only when no HTTP handler is inside CreateJob, unless
\* the deadline has passed: no request is left blocked on a channel without readers.
THEOREM RequestsAreDrained == ShutdownSpec => []RequestsFinishFirst
<1>1. ShutdownInit => RequestsFinishFirst
  BY DEF ShutdownInit, Init, RequestsFinishFirst
<1> QED
  BY <1>1, RequestsFinishFirstStep, PoolInvariants, HandlerAlwaysInOrder, PTL DEF ShutdownSpec

-----------------------------------------------------------------------------
(***************************************************************************)
(* The jobs in execution finish                                             *)
(***************************************************************************)

\* What was in execution when the channel was closed is in execution or completed, and
\* after the wait it is completed.
InFlightKept ==
    /\ inFlightAtStop \subseteq completed \cup Executing
    /\ handler \in AfterWait => inFlightAtStop \subseteq completed

\* A job in execution stays there until it is completed.
LEMMA ExecutionsEndCompleted ==
  ASSUME Typed, [Next]_poolVars
  PROVE  /\ completed \subseteq completed'
         /\ completed \cup Executing \subseteq (completed \cup Executing)'
<1> USE DEF Typed, TypeOK, Executing, WorkersAt
<1>1. CASE \/ \E j \in Job : CallerStep(j)
           \/ CountWorker \/ ReceiveSignal \/ Decide
           \/ CloseStop
           \/ UNCHANGED poolVars
  <2>1. worker' = worker /\ holds' = holds /\ completed' = completed
    BY <1>1 DEF CallerStep, Submit, Send, CountRequest, Signal, CountWorker, ReceiveSignal,
                Decide, CloseStop, poolVars, workerVars
  <2> QED
    BY <2>1
<1>2. CASE \E w \in Worker : CreateWorker(w)
  <2>1. PICK w \in Worker : CreateWorker(w)
    BY <1>2
  <2>2. /\ holds' = holds /\ completed' = completed
        /\ \A v \in Worker : worker[v] = "busy" => worker'[v] = "busy"
    BY <2>1 DEF CreateWorker
  <2> QED
    BY <2>2
<1>3. CASE \E w \in Worker : WorkerStep(w)
  <2>1. PICK w \in Worker : WorkerStep(w)
    BY <1>3
  <2>2. CASE Take(w)
    <3>1. /\ completed' = completed
          /\ \A v \in Worker : worker[v] = "busy" =>
                worker'[v] = "busy" /\ holds'[v] = holds[v]
      BY <2>2 DEF Take
    <3> QED
      BY <3>1
  <2>3. CASE Finish(w)
    <3>1. /\ completed' = completed \cup {holds[w]}
          /\ \A v \in Worker \ {w} : worker[v] = "busy" =>
                worker'[v] = "busy" /\ holds'[v] = holds[v]
      BY <2>3 DEF Finish
    <3> QED
      BY <3>1
  <2>4. CASE StopWorker(w) \/ IdleTimeout(w) \/ UncountWorker(w)
    <3>1. /\ holds' = holds /\ completed' = completed
          /\ \A v \in Worker : worker[v] = "busy" => worker'[v] = "busy"
      BY <2>4 DEF StopWorker, IdleTimeout, Leave, UncountWorker
    <3> QED
      BY <3>1
  <2> QED
    BY <2>1, <2>2, <2>3, <2>4 DEF WorkerStep
<1> QED
  BY <1>1, <1>2, <1>3 DEF Next, DispatcherStep

\* The jobs in execution when the workers are stopped run on until they complete.
LEMMA InFlightKeptStep ==
  Typed /\ Counted /\ HandlerInOrder /\ InFlightKept /\ [ShutdownNext]_vars => InFlightKept'
<1> SUFFICES ASSUME Typed, Counted, HandlerInOrder, InFlightKept, [ShutdownNext]_vars
             PROVE  InFlightKept'
  OBVIOUS
<1>1. [Next]_poolVars
  BY ShutdownStepsPool
<1>2. /\ completed \subseteq completed'
      /\ completed \cup Executing \subseteq (completed \cup Executing)'
  BY <1>1, ExecutionsEndCompleted
<1>3. CASE CloseWorkers
  <2>1. inFlightAtStop' = Executing /\ handler' = "waiting"
    BY <1>3 DEF CloseWorkers, Executing
  <2> QED
    BY <2>1, <1>2 DEF InFlightKept, AfterWait
\* Wait returns only when no worker serves, hence none is busy.
<1>4. CASE WaitReturns
  <2>1. workerWaitGroup = 0 /\ inFlightAtStop' = inFlightAtStop
    BY <1>4 DEF WaitReturns, WorkersGone
  <2>2. Cardinality(Serving) = 0
    BY <2>1 DEF Counted, WaitGroupAccounting
  <2>3. Serving = {}
    BY <2>2, SetsAreFinite, FS_EmptySet
  <2>4. Executing = {}
    BY <2>3 DEF Executing, WorkersAt, Serving
  <2> QED
    BY <2>1, <2>4, <1>2 DEF InFlightKept
<1>5. CASE \/ \E j \in Job : CreateJob(j) \/ CallerAdvances(j)
           \/ DispatcherAdvances
           \/ \E w \in Worker : WorkerAdvances(w)
           \/ CreateServer \/ ReceiveShutdownSignal \/ PanicWithoutServer
           \/ DeadlinePasses \/ ForceExit \/ CloseServer
           \/ CloseServices \/ ReleaseMain \/ MainReturns \/ UNCHANGED vars
  <2>1. /\ inFlightAtStop' = inFlightAtStop
        /\ handler' \in AfterWait => handler \in AfterWait
    BY <1>5 DEF CreateJob, CallerAdvances, DispatcherAdvances, WorkerAdvances, CreateServer,
                ReceiveShutdownSignal, PanicWithoutServer, DeadlinePasses, ForceExit,
                CloseServer, CloseServices, ReleaseMain, MainReturns, vars, shutdownVars,
                AfterWait
  <2> QED
    BY <2>1, <1>2 DEF InFlightKept
<1> QED
  BY <1>3, <1>4, <1>5 DEF ShutdownNext, HandlerAdvances

\* The services close only after every job that was in execution when the workers were
\* told to stop has run to its end.
THEOREM ServicesCloseLast == ShutdownSpec => []InFlightJobsFinish
<1>1. ShutdownInit => InFlightKept
  BY DEF ShutdownInit, InFlightKept
<1>2. InFlightKept /\ HandlerInOrder => InFlightJobsFinish
  BY DEF InFlightKept, HandlerInOrder, InFlightJobsFinish
<1> QED
  BY <1>1, <1>2, InFlightKeptStep, PoolInvariants, HandlerAlwaysInOrder, PTL DEF ShutdownSpec

-----------------------------------------------------------------------------
(***************************************************************************)
(* Types, and the size of the pool                                          *)
(***************************************************************************)

\* The variables of the process other than the handler, and the history.
ProcessTyped ==
    /\ server \in {"nil", "serving", "closed"}
    /\ deadlinePassed \in BOOLEAN
    /\ servicesClosed \in BOOLEAN
    /\ process \in {"up", "stopped", "killed", "panicked"}
    /\ inFlightAtStop \subseteq Job

\* The history is taken from busy workers, and those hold jobs.
LEMMA ProcessTypedStep == Typed /\ ProcessTyped /\ [ShutdownNext]_vars => ProcessTyped'
<1> SUFFICES ASSUME Typed, ProcessTyped, [ShutdownNext]_vars PROVE ProcessTyped'
  OBVIOUS
<1>1. CASE \/ \E j \in Job : CreateJob(j) \/ CallerAdvances(j)
           \/ DispatcherAdvances
           \/ \E w \in Worker : WorkerAdvances(w)
  BY <1>1, PoolKeepsStop DEF ProcessTyped, shutdownVars
<1>2. CASE CreateServer \/ ReceiveShutdownSignal \/ PanicWithoutServer \/ DeadlinePasses
              \/ ForceExit
  BY <1>2 DEF CreateServer, ReceiveShutdownSignal, PanicWithoutServer, DeadlinePasses,
              ForceExit, ProcessTyped
<1>3. CASE CloseServer \/ WaitReturns \/ CloseServices \/ ReleaseMain \/ MainReturns
  BY <1>3 DEF CloseServer, WaitReturns, CloseServices, ReleaseMain, MainReturns, ProcessTyped
<1>4. CASE CloseWorkers
  <2>1. \A w \in WorkersAt("busy") : holds[w] \in Job
    BY DEF Typed, TypeOK, WorkersAt
  <2>2. inFlightAtStop' \subseteq Job
    BY <1>4, <2>1 DEF CloseWorkers
  <2> QED
    BY <1>4, <2>2 DEF CloseWorkers, ProcessTyped
<1>5. CASE UNCHANGED vars
  BY <1>5 DEF vars, shutdownVars, ProcessTyped
<1> QED
  BY <1>1, <1>2, <1>3, <1>4, <1>5 DEF ShutdownNext, HandlerAdvances

\* The process and the pool it runs keep their types, and the history only ever
\* names jobs: what the stop of the workers finds in execution was submitted.
THEOREM ShutdownTypesHold == ShutdownSpec => []ShutdownTypeOK
<1>1. ShutdownInit => ProcessTyped
  BY DEF ShutdownInit, ProcessTyped
<1>2. Typed /\ HandlerInOrder /\ ProcessTyped => ShutdownTypeOK
  BY DEF Typed, HandlerInOrder, ProcessTyped, ShutdownTypeOK
<1> QED
  BY <1>1, <1>2, ProcessTypedStep, PoolInvariants, HandlerAlwaysInOrder, PTL DEF ShutdownSpec
=============================================================================
