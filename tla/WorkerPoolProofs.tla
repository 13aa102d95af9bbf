-------------------------- MODULE WorkerPoolProofs --------------------------
(***************************************************************************)
(* Theorems about WorkerPool, for every set of jobs and workers and every   *)
(* value of the configuration.                                              *)
(*                                                                         *)
(* The inductive invariants are built in layers, each proved with the help  *)
(* of the ones before it:                                                   *)
(*   Typed       types, and a worker holds a job exactly while it is busy;  *)
(*   Counted     the counter, the WaitGroup and the gauge are exact, and    *)
(*               the counter is below the limit while a worker is created;  *)
(*   Staffed     a pool that never retires has a worker;                    *)
(*   Grown       a worker was created, or is under way, for each one due;   *)
(*   EachJobOnce a job is in one place only.                                *)
(***************************************************************************)
EXTENDS WorkerPool, FiniteSetTheorems, TLAPS

Typed ==
    /\ TypeOK
    /\ \A w \in Worker : holds[w] \in Job <=> worker[w] = "busy"

LEMMA TypedInit == Init => Typed
<1> SUFFICES ASSUME Init PROVE Typed
  OBVIOUS
<1>1. jobChannel \in Seq(Job) /\ Len(jobChannel) = 0
  BY DEF Init
<1>2. TypeOK
  <2>1. Len(jobChannel) <= BufferLimit
    BY <1>1, ConfigAssumption
  <2>2. /\ caller \in [Job -> CallerState]
        /\ worker \in [Worker -> WorkerState]
        /\ holds \in [Worker -> Job \cup {NoJob}]
    BY DEF Init, CallerState, WorkerState
  <2>3. /\ dispatcherChannel \in 0..1 /\ dispatcher \in DispatcherState
        /\ requestCount \in Nat /\ jobsInQueue \in Int
        /\ currentWorkerCount \in Int /\ workerWaitGroup \in Int /\ created \in Nat
    BY DEF Init, DispatcherState
  <2>4. stopWorkerChannel \in BOOLEAN /\ completed \subseteq Job
    BY Zenon DEF Init
  <2> QED
    BY <1>1, <2>1, <2>2, <2>3, <2>4 DEF TypeOK
<1>3. \A w \in Worker : holds[w] \in Job <=> worker[w] = "busy"
  BY JobAssumption DEF Init
<1> QED
  BY <1>2, <1>3 DEF Typed

\* What is true of every step of a caller, of the dispatcher and of a worker.
LEMMA TypedCaller ==
  ASSUME Typed, NEW j \in Job, CallerStep(j)
  PROVE  Typed'
<1> USE JobAssumption, ConfigAssumption
    DEF Typed, TypeOK, CallerState, dispatcherVars, workerVars, counterVars
<1>1. CASE Submit(j)
  BY <1>1 DEF Submit
<1>2. CASE Send(j)
  <2>1. /\ jobChannel' \in Seq(Job)
        /\ Len(jobChannel') = Len(jobChannel) + 1
    BY <1>2 DEF Send
  <2> QED
    BY <1>2, <2>1 DEF Send, HasRoom
<1>3. CASE CountRequest(j)
  BY <1>3 DEF CountRequest
<1>4. CASE Signal(j)
  BY <1>4 DEF Signal
<1> QED
  BY <1>1, <1>2, <1>3, <1>4 DEF CallerStep

LEMMA TypedDispatcher ==
  ASSUME Typed, DispatcherStep
  PROVE  Typed'
<1> USE JobAssumption, ConfigAssumption
    DEF Typed, TypeOK, DispatcherState, WorkerState, callerVars, workerVars, counterVars
<1>1. CASE \E w \in Worker : CreateWorker(w)
  BY <1>1 DEF CreateWorker
<1>2. CASE CountWorker
  BY <1>2 DEF CountWorker
<1>3. CASE ReceiveSignal
  BY <1>3 DEF ReceiveSignal
<1>4. CASE Decide
  BY <1>4 DEF Decide
<1> QED
  BY <1>1, <1>2, <1>3, <1>4 DEF DispatcherStep

LEMMA TypedWorker ==
  ASSUME Typed, NEW w \in Worker, WorkerStep(w)
  PROVE  Typed'
<1> USE JobAssumption, ConfigAssumption
    DEF Typed, TypeOK, WorkerState, callerVars, dispatcherVars, counterVars
<1>1. CASE Take(w)
  <2>1. /\ Head(jobChannel) \in Job
        /\ jobChannel' \in Seq(Job)
        /\ Len(jobChannel') = Len(jobChannel) - 1
    BY <1>1 DEF Take
  <2> QED
    BY <1>1, <2>1 DEF Take
<1>2. CASE Finish(w)
  BY <1>2 DEF Finish
<1>3. CASE Leave(w)
  BY <1>3 DEF Leave
<1>4. CASE UncountWorker(w)
  BY <1>4 DEF UncountWorker
<1> QED
  BY <1>1, <1>2, <1>3, <1>4 DEF WorkerStep, StopWorker, IdleTimeout

LEMMA TypedStep == Typed /\ [Next]_poolVars => Typed'
<1> SUFFICES ASSUME Typed, [Next]_poolVars PROVE Typed'
  OBVIOUS
<1>1. CASE \E j \in Job : CallerStep(j)
  BY <1>1, TypedCaller
<1>2. CASE DispatcherStep
  BY <1>2, TypedDispatcher
<1>3. CASE \E w \in Worker : WorkerStep(w)
  BY <1>3, TypedWorker
<1>4. CASE CloseStop
  BY <1>4 DEF CloseStop, Typed, TypeOK, callerVars, dispatcherVars, workerVars, counterVars
<1>5. CASE UNCHANGED poolVars
  BY <1>5 DEF Typed, TypeOK, poolVars, callerVars, dispatcherVars, workerVars, counterVars
<1> QED
  BY <1>1, <1>2, <1>3, <1>4, <1>5 DEF Next

\* Every variable keeps its type, and a worker holds a job exactly while it is busy.
THEOREM TypeCorrect == Spec => []Typed
  BY TypedInit, TypedStep, PTL DEF Spec

\* In particular, every variable keeps its type and the channel its capacity.
THEOREM TypesHold == Spec => []TypeOK
<1>1. Typed => TypeOK
  BY DEF Typed
<1> QED
  BY <1>1, TypeCorrect, PTL

-----------------------------------------------------------------------------
(***************************************************************************)
(* The counters                                                             *)
(***************************************************************************)

Counted ==
    /\ PoolAccounting
    /\ WaitGroupAccounting
    /\ GaugeAccounting
    /\ currentWorkerCount <= MaxWorkerCount
    /\ dispatcher \in {"creating", "counting"} => currentWorkerCount < MaxWorkerCount

\* The sets that are counted are finite.
LEMMA SetsAreFinite ==
  /\ IsFiniteSet(LiveWorkers) /\ IsFiniteSet(Serving)
  /\ \A state : IsFiniteSet(WorkersAt(state)) /\ IsFiniteSet(CallersAt(state))
  /\ Cardinality(LiveWorkers) \in Nat /\ Cardinality(Serving) \in Nat
  /\ \A state : Cardinality(WorkersAt(state)) \in Nat /\ Cardinality(CallersAt(state)) \in Nat
<1>1. /\ LiveWorkers \in SUBSET Worker /\ Serving \in SUBSET Worker
      /\ \A state : WorkersAt(state) \in SUBSET Worker /\ CallersAt(state) \in SUBSET Job
  BY DEF LiveWorkers, Serving, WorkersAt, CallersAt
<1>2. /\ IsFiniteSet(LiveWorkers) /\ IsFiniteSet(Serving)
      /\ \A state : IsFiniteSet(WorkersAt(state)) /\ IsFiniteSet(CallersAt(state))
  BY <1>1, FS_Subset, JobAssumption, WorkerAssumption
<1> QED
  BY <1>2, FS_CardinalityType

LEMMA CountedInit == Init => Counted
<1> SUFFICES ASSUME Init PROVE Counted
  OBVIOUS
<1>1. /\ LiveWorkers = {} /\ Serving = {} /\ WorkersAt("busy") = {}
      /\ CallersAt("sending") = {}
  BY DEF Init, LiveWorkers, Serving, WorkersAt, CallersAt
<1>2. Cardinality({}) = 0
  BY FS_EmptySet
<1>3. Len(jobChannel) = 0 /\ jobsInQueue = 0
  BY DEF Init
<1>4. PoolAccounting /\ WaitGroupAccounting
  BY <1>1, <1>2 DEF Init, PoolAccounting, WaitGroupAccounting
<1>5. GaugeAccounting
  <2>1. Cardinality(CallersAt("sending")) = 0 /\ Cardinality(WorkersAt("busy")) = 0
    BY <1>1, <1>2
  <2> QED
    BY <2>1, <1>3 DEF GaugeAccounting
<1>6. currentWorkerCount < MaxWorkerCount /\ currentWorkerCount <= MaxWorkerCount
  BY ConfigAssumption DEF Init
<1> QED
  BY <1>4, <1>5, <1>6 DEF Counted

LEMMA CountedCaller ==
  ASSUME Typed, Counted, NEW j \in Job, CallerStep(j)
  PROVE  Counted'
<1>1. /\ LiveWorkers' = LiveWorkers /\ Serving' = Serving
      /\ WorkersAt("busy")' = WorkersAt("busy")
      /\ currentWorkerCount' = currentWorkerCount /\ workerWaitGroup' = workerWaitGroup
      /\ dispatcher' = dispatcher
  BY DEF CallerStep, Submit, Send, CountRequest, Signal, workerVars, counterVars,
         dispatcherVars, LiveWorkers, Serving, WorkersAt
<1>2. /\ PoolAccounting' /\ WaitGroupAccounting'
      /\ currentWorkerCount' <= MaxWorkerCount
      /\ dispatcher' \in {"creating", "counting"} => currentWorkerCount' < MaxWorkerCount
  BY <1>1 DEF Counted, PoolAccounting, WaitGroupAccounting
<1>3. GaugeAccounting'
  <2> USE SetsAreFinite DEF Typed, TypeOK
  <2>1. CASE Submit(j)
    <3>1. CallersAt("sending")' = CallersAt("sending") \cup {j} /\ j \notin CallersAt("sending")
      BY <2>1 DEF Submit, CallersAt
    <3>2. Cardinality(CallersAt("sending")') = Cardinality(CallersAt("sending")) + 1
      BY <3>1, FS_AddElement
    <3> QED
      BY <2>1, <3>2, <1>1 DEF Submit, Counted, GaugeAccounting
  <2>2. CASE Send(j)
    <3>1. CallersAt("sending")' = CallersAt("sending") \ {j} /\ j \in CallersAt("sending")
      BY <2>2 DEF Send, CallersAt
    <3>2. Cardinality(CallersAt("sending")') = Cardinality(CallersAt("sending")) - 1
      BY <3>1, FS_RemoveElement
    <3>3. Len(jobChannel') = Len(jobChannel) + 1
      BY <2>2 DEF Send
    <3> QED
      BY <2>2, <3>2, <3>3, <1>1 DEF Send, Counted, GaugeAccounting
  <2>3. CASE CountRequest(j) \/ Signal(j)
    <3>1. /\ CallersAt("sending")' = CallersAt("sending")
          /\ jobsInQueue' = jobsInQueue /\ jobChannel' = jobChannel
      BY <2>3 DEF CountRequest, Signal, CallersAt
    <3> QED
      BY <3>1, <1>1 DEF Counted, GaugeAccounting
  <2> QED
    BY <2>1, <2>2, <2>3 DEF CallerStep
<1> QED
  BY <1>2, <1>3 DEF Counted

LEMMA CountedDispatcher ==
  ASSUME Typed, Counted, DispatcherStep
  PROVE  Counted'
<1>1. GaugeAccounting'
  <2>1. WorkersAt("busy")' = WorkersAt("busy")
    BY DEF DispatcherStep, CreateWorker, CountWorker, ReceiveSignal, Decide, workerVars,
           WorkersAt, Typed, TypeOK
  <2>2. /\ CallersAt("sending")' = CallersAt("sending")
        /\ jobsInQueue' = jobsInQueue /\ jobChannel' = jobChannel
    BY DEF DispatcherStep, CreateWorker, CountWorker, ReceiveSignal, Decide, callerVars,
           CallersAt
  <2> QED
    BY <2>1, <2>2 DEF Counted, GaugeAccounting
<1> USE SetsAreFinite, ConfigAssumption DEF Typed, TypeOK
<1>2. CASE \E w \in Worker : CreateWorker(w)
  <2>1. PICK w \in Worker : CreateWorker(w)
    BY <1>2
  <2>2. /\ LiveWorkers' = LiveWorkers \cup {w} /\ w \notin LiveWorkers
        /\ Serving' = Serving \cup {w} /\ w \notin Serving
    BY <2>1 DEF CreateWorker, LiveWorkers, Serving
  <2>3. /\ Cardinality(LiveWorkers') = Cardinality(LiveWorkers) + 1
        /\ Cardinality(Serving') = Cardinality(Serving) + 1
    BY <2>2, FS_AddElement
  <2> QED
    BY <2>1, <2>3, <1>1
    DEF CreateWorker, Counted, PoolAccounting, WaitGroupAccounting
<1>3. CASE CountWorker \/ ReceiveSignal \/ Decide
  <2>1. LiveWorkers' = LiveWorkers /\ Serving' = Serving
    BY <1>3 DEF CountWorker, ReceiveSignal, Decide, workerVars, LiveWorkers, Serving
  <2> QED
    BY <1>3, <2>1, <1>1
    DEF CountWorker, ReceiveSignal, Decide, MayCreate, counterVars, Counted, PoolAccounting,
        WaitGroupAccounting
<1> QED
  BY <1>2, <1>3 DEF DispatcherStep

LEMMA CountedWorker ==
  ASSUME Typed, Counted, NEW w \in Worker, WorkerStep(w)
  PROVE  Counted'
<1> USE SetsAreFinite, ConfigAssumption DEF Typed, TypeOK
<1>1. CallersAt("sending")' = CallersAt("sending") /\ dispatcher' = dispatcher
  BY DEF WorkerStep, Take, Finish, StopWorker, IdleTimeout, Leave, UncountWorker, callerVars,
         dispatcherVars, CallersAt
<1>2. CASE Take(w)
  <2>1. /\ LiveWorkers' = LiveWorkers /\ Serving' = Serving
        /\ WorkersAt("busy")' = WorkersAt("busy") \cup {w} /\ w \notin WorkersAt("busy")
    BY <1>2 DEF Take, LiveWorkers, Serving, WorkersAt
  <2>2. Cardinality(WorkersAt("busy")') = Cardinality(WorkersAt("busy")) + 1
    BY <2>1, FS_AddElement
  <2>3. Len(jobChannel') = Len(jobChannel) - 1
    BY <1>2 DEF Take
  <2> QED
    BY <1>1, <1>2, <2>1, <2>2, <2>3
    DEF Take, callerVars, counterVars, Counted, PoolAccounting, WaitGroupAccounting,
        GaugeAccounting
<1>3. CASE Finish(w)
  <2>1. /\ LiveWorkers' = LiveWorkers /\ Serving' = Serving
        /\ WorkersAt("busy")' = WorkersAt("busy") \ {w} /\ w \in WorkersAt("busy")
    BY <1>3 DEF Finish, LiveWorkers, Serving, WorkersAt
  <2>2. Cardinality(WorkersAt("busy")') = Cardinality(WorkersAt("busy")) - 1
    BY <2>1, FS_RemoveElement
  <2> QED
    BY <1>1, <1>3, <2>1, <2>2
    DEF Finish, counterVars, Counted, PoolAccounting, WaitGroupAccounting, GaugeAccounting
<1>4. CASE Leave(w)
  <2>1. /\ LiveWorkers' = LiveWorkers /\ WorkersAt("busy")' = WorkersAt("busy")
        /\ Serving' = Serving \ {w} /\ w \in Serving
    BY <1>4 DEF Leave, LiveWorkers, Serving, WorkersAt
  <2>2. Cardinality(Serving') = Cardinality(Serving) - 1
    BY <2>1, FS_RemoveElement
  <2> QED
    BY <1>1, <1>4, <2>1, <2>2
    DEF Leave, callerVars, Counted, PoolAccounting, WaitGroupAccounting, GaugeAccounting
<1>5. CASE UncountWorker(w)
  <2>1. /\ LiveWorkers' = LiveWorkers \ {w} /\ w \in LiveWorkers
        /\ Serving' = Serving /\ WorkersAt("busy")' = WorkersAt("busy")
    BY <1>5 DEF UncountWorker, LiveWorkers, Serving, WorkersAt
  <2>2. Cardinality(LiveWorkers') = Cardinality(LiveWorkers) - 1
    BY <2>1, FS_RemoveElement
  <2> QED
    BY <1>1, <1>5, <2>1, <2>2
    DEF UncountWorker, callerVars, Counted, PoolAccounting, WaitGroupAccounting,
        GaugeAccounting
<1> QED
  BY <1>2, <1>3, <1>4, <1>5 DEF WorkerStep, StopWorker, IdleTimeout

LEMMA CountedStep == Typed /\ Counted /\ [Next]_poolVars => Counted'
<1> SUFFICES ASSUME Typed, Counted, [Next]_poolVars PROVE Counted'
  OBVIOUS
<1>1. CASE \E j \in Job : CallerStep(j)
  BY <1>1, CountedCaller
<1>2. CASE DispatcherStep
  BY <1>2, CountedDispatcher
<1>3. CASE \E w \in Worker : WorkerStep(w)
  BY <1>3, CountedWorker
<1>4. CASE CloseStop \/ UNCHANGED poolVars
  BY <1>4 DEF CloseStop, poolVars, callerVars, dispatcherVars, workerVars, counterVars,
              Counted, PoolAccounting, WaitGroupAccounting, GaugeAccounting, LiveWorkers,
              Serving, WorkersAt, CallersAt
<1> QED
  BY <1>1, <1>2, <1>3, <1>4 DEF Next

LEMMA CountedAlways == Spec => []Counted
  BY TypeCorrect, CountedInit, CountedStep, PTL DEF Spec

\* The counter the dispatcher trusts is the number of live workers, in every
\* interleaving of createWorker and removeWorker.
THEOREM CounterExact == Spec => []PoolAccounting
<1>1. Counted => PoolAccounting
  BY DEF Counted
<1> QED
  BY <1>1, CountedAlways, PTL

\* The pool never has more than MaxWorkerCount workers.
THEOREM PoolBounded == Spec => []PoolBound
<1>1. Typed /\ Counted => PoolBound
  BY SetsAreFinite, ConfigAssumption DEF Typed, TypeOK, Counted, PoolAccounting, PoolBound
<1> QED
  BY <1>1, TypeCorrect, CountedAlways, PTL

\* The WaitGroup counts the workers that have not left: Done never makes it
\* negative, and it is zero only when no worker is idle or busy.
THEOREM WaitGroupExact == Spec => []WaitGroupAccounting
<1>1. Counted => WaitGroupAccounting
  BY DEF Counted
<1> QED
  BY <1>1, CountedAlways, PTL

\* The gauge of jobs in the queue is exact.
THEOREM GaugeExact == Spec => []GaugeAccounting
<1>1. Counted => GaugeAccounting
  BY DEF Counted
<1> QED
  BY <1>1, CountedAlways, PTL

-----------------------------------------------------------------------------
(***************************************************************************)
(* A pool that does not retire its workers always has one                   *)
(***************************************************************************)

Staffed ==
    /\ PoolNeverEmpty
    /\ MinWorkerCount <= 1 /\ ~stopWorkerChannel => WorkersAt("leaving") = {}

LEMMA StaffedInit == Init => Staffed
  BY DEF Init, Staffed, PoolNeverEmpty, WorkersAt

LEMMA StaffedStep == Typed /\ Staffed /\ [Next]_poolVars => Staffed'
<1> SUFFICES ASSUME Typed, Staffed, [Next]_poolVars,
                    MinWorkerCount <= 1, ~stopWorkerChannel'
             PROVE  /\ Serving' # {} \/ (dispatcher' = "creating" /\ currentWorkerCount' = 0)
                    /\ WorkersAt("leaving")' = {}
  BY DEF Staffed, PoolNeverEmpty
<1> USE ConfigAssumption DEF Typed, TypeOK
<1>1. ~stopWorkerChannel
  BY DEF Next, CallerStep, Submit, Send, CountRequest, Signal, DispatcherStep, CreateWorker,
         CountWorker, ReceiveSignal, Decide, WorkerStep, Take, Finish, StopWorker,
         IdleTimeout, Leave, UncountWorker, CloseStop, poolVars
<1>2. /\ Serving # {} \/ (dispatcher = "creating" /\ currentWorkerCount = 0)
      /\ WorkersAt("leaving") = {}
  BY <1>1 DEF Staffed, PoolNeverEmpty
<1>3. CASE (\E j \in Job : CallerStep(j)) \/ UNCHANGED poolVars
  BY <1>2, <1>3 DEF CallerStep, Submit, Send, CountRequest, Signal, poolVars, workerVars,
                    counterVars, dispatcherVars, Serving, WorkersAt
<1>4. CASE \E w \in Worker : CreateWorker(w)
  <2>1. PICK w \in Worker : CreateWorker(w)
    BY <1>4
  <2>2. w \in Serving' /\ WorkersAt("leaving")' = WorkersAt("leaving")
    BY <2>1 DEF CreateWorker, Serving, WorkersAt
  <2> QED
    BY <1>2, <2>2
<1>5. CASE CountWorker \/ ReceiveSignal \/ Decide
  BY <1>2, <1>5 DEF CountWorker, ReceiveSignal, Decide, workerVars, Serving, WorkersAt
<1>6. CASE \E w \in Worker : Take(w) \/ Finish(w)
  <2>1. PICK w \in Worker : Take(w) \/ Finish(w)
    BY <1>6
  <2>2. w \in Serving' /\ WorkersAt("leaving")' = WorkersAt("leaving")
    BY <2>1 DEF Take, Finish, Serving, WorkersAt
  <2> QED
    BY <1>2, <2>2
<1>7. CASE \E w \in Worker : StopWorker(w) \/ IdleTimeout(w) \/ UncountWorker(w)
  BY <1>1, <1>2, <1>7 DEF StopWorker, IdleTimeout, Retires, UncountWorker, WorkersAt
<1> QED
  BY <1>1, <1>3, <1>4, <1>5, <1>6, <1>7 DEF Next, DispatcherStep, WorkerStep, CloseStop

\* With MinWorkerCount at most 1 the pool has a worker from its start to its stop.
THEOREM PoolStaffed == Spec => []PoolNeverEmpty
<1>1. Staffed => PoolNeverEmpty
  BY DEF Staffed
<1> QED
  BY <1>1, StaffedInit, StaffedStep, TypeCorrect, PTL DEF Spec

-----------------------------------------------------------------------------
(***************************************************************************)
(* No signal to the dispatcher is lost                                      *)
(***************************************************************************)

\* The workers asked for and not yet created: a caller has still to signal, the signal
\* is in the channel, or the dispatcher has received it.
Asking == Cardinality(CallersAt("signalling"))
Received == IF dispatcher \in {"deciding", "creating"} THEN 1 ELSE 0
UnderWay == Asking + dispatcherChannel + Received

\* The workers that are due, after the first.
Due == requestCount \div RequestsPerNewWorkerCount

\* The dispatcher counts no more workers than it created, ...
CountedWereCreated ==
    currentWorkerCount + (IF dispatcher = "counting" THEN 1 ELSE 0) <= created

\* ... and has created as many as the limit allows, or there is a worker, created or under
\* way, for each full RequestsPerNewWorkerCount requests, and the first one.
Grown ==
    /\ CountedWereCreated
    /\ created >= MaxWorkerCount \/ created + UnderWay >= 1 + Due

\* One more request brings one more full RequestsPerNewWorkerCount at most, and only
\* when it asks for a worker.
LEMMA OneMoreRequest ==
  ASSUME NEW n \in Nat
  PROVE  LET r == RequestsPerNewWorkerCount
         IN  /\ n \div r \in Nat /\ (n + 1) \div r \in Nat /\ 0 \div r = 0
             /\ (n + 1) \div r <= (n \div r) + 1
             /\ (n + 1) % r # 0 => (n + 1) \div r = n \div r
<1>1. RequestsPerNewWorkerCount \in Nat \ {0}
  BY ConfigAssumption
<1> QED
  BY <1>1

LEMMA GrownInit == Init => Grown
<1> SUFFICES ASSUME Init PROVE Grown
  OBVIOUS
<1>1. Asking = 0
  <2>1. CallersAt("signalling") = {}
    BY DEF Init, CallersAt
  <2> QED
    BY <2>1, FS_EmptySet DEF Asking
<1>2. /\ dispatcherChannel = 0 /\ Received = 1 /\ requestCount = 0
      /\ created = 0 /\ currentWorkerCount = 0 /\ dispatcher = "creating"
  BY DEF Init, Received
<1>3. Due = 0
  BY <1>2, OneMoreRequest DEF Due
<1> QED
  BY <1>1, <1>2, <1>3 DEF Grown, CountedWereCreated, UnderWay

LEMMA GrownTypes ==
  ASSUME Typed
  PROVE  /\ Asking \in Nat /\ dispatcherChannel \in Nat /\ Received \in Nat
         /\ Due \in Nat /\ UnderWay \in Nat /\ requestCount \in Nat
         /\ currentWorkerCount \in Int /\ created \in Nat /\ MaxWorkerCount \in Int
<1>1. Asking \in Nat
  BY SetsAreFinite DEF Asking
<1>2. /\ requestCount \in Nat /\ dispatcherChannel \in Nat /\ currentWorkerCount \in Int
      /\ created \in Nat
  BY DEF Typed, TypeOK
<1>3. Due \in Nat
  BY <1>2, OneMoreRequest DEF Due
<1> QED
  BY <1>1, <1>2, <1>3, ConfigAssumption DEF Received, UnderWay

LEMMA SumOfThree ==
  ASSUME NEW x \in Nat, NEW y \in Nat, NEW z \in Nat
  PROVE  x + y + z \in Nat
OBVIOUS

\* One more under way makes up for one more due.
LEMMA OneEach ==
  ASSUME NEW c \in Nat, NEW u \in Nat, NEW d \in Nat, NEW d1 \in Nat, d1 <= d + 1
  PROVE  c + (u + 1) + d >= c + u + d1
OBVIOUS

\* What made up for what was due still does.
LEMMA StillEnough ==
  ASSUME NEW c \in Nat, NEW c1 \in Nat, NEW u \in Nat, NEW u1 \in Nat, NEW d \in Nat,
         NEW d1 \in Nat, c + u >= 1 + d, c1 + u1 + d >= c + u + d1
  PROVE  c1 + u1 >= 1 + d1
OBVIOUS

\* A worker is created before it is counted, and uncounting does no harm.
LEMMA CountedWereCreatedStep ==
  ASSUME Typed, CountedWereCreated, [Next]_poolVars
  PROVE  CountedWereCreated'
<1> USE DEF Typed, TypeOK, CountedWereCreated
<1>1. CASE DispatcherStep
  BY <1>1 DEF DispatcherStep, CreateWorker, CountWorker, ReceiveSignal, Decide, counterVars
<1>2. CASE \E w \in Worker : WorkerStep(w)
  BY <1>2 DEF WorkerStep, Take, Finish, StopWorker, IdleTimeout, Leave, UncountWorker,
              counterVars, dispatcherVars
<1>3. CASE (\E j \in Job : CallerStep(j)) \/ CloseStop \/ UNCHANGED poolVars
  BY <1>3 DEF CallerStep, Submit, Send, CountRequest, Signal, CloseStop, poolVars,
              counterVars, dispatcherVars
<1> QED
  BY <1>1, <1>2, <1>3 DEF Next

\* No step of the pool loses a request for a worker.
LEMMA GrownStep == Typed /\ Grown /\ [Next]_poolVars => Grown'
<1> SUFFICES ASSUME Typed, Grown, [Next]_poolVars
             PROVE  created' >= MaxWorkerCount \/ created' + UnderWay' >= 1 + Due'
  BY CountedWereCreatedStep DEF Grown
<1>1. /\ Asking \in Nat /\ dispatcherChannel \in Nat /\ Received \in Nat
      /\ Due \in Nat /\ UnderWay \in Nat /\ requestCount \in Nat
      /\ currentWorkerCount \in Int /\ created \in Nat /\ MaxWorkerCount \in Int
      /\ UnderWay = Asking + dispatcherChannel + Received
  BY GrownTypes DEF UnderWay
<1>2. \/ created >= MaxWorkerCount
      \/ created + UnderWay >= 1 + Due
  BY DEF Grown
<1>3. currentWorkerCount <= created
  BY <1>1 DEF Grown, CountedWereCreated
<1>4. /\ Asking' \in Nat /\ dispatcherChannel' \in Nat /\ Received' \in Nat
      /\ Due' \in Nat /\ UnderWay' \in Nat /\ created' \in Nat
      /\ UnderWay' = Asking' + dispatcherChannel' + Received'
  <2>1. Typed'
    BY TypedStep
  <2>2. Asking' \in Nat
    <3>1. CallersAt("signalling")' \in SUBSET Job
      BY DEF CallersAt
    <3> QED
      BY <3>1, JobAssumption, FS_Subset, FS_CardinalityType DEF Asking
  <2>3. requestCount' \in Nat /\ dispatcherChannel' \in Nat /\ created' \in Nat
    BY <2>1 DEF Typed, TypeOK
  <2>4. Due' \in Nat
    BY <2>3, OneMoreRequest DEF Due
  <2>5. Received' \in Nat
    BY DEF Received
  <2>6. UnderWay' = Asking' + dispatcherChannel' + Received'
    BY DEF UnderWay
  <2>7. UnderWay' \in Nat
    BY <2>2, <2>3, <2>5, <2>6, SumOfThree
  <2> QED
    BY <2>2, <2>3, <2>4, <2>5, <2>6, <2>7
\* It is enough that a step makes up for what it makes due.
<1>5. ASSUME created' >= created, created' + UnderWay' + Due >= created + UnderWay + Due'
      PROVE  created' >= MaxWorkerCount \/ created' + UnderWay' >= 1 + Due'
  <2>1. ASSUME created + UnderWay >= 1 + Due PROVE created' + UnderWay' >= 1 + Due'
    <3>1. created \in Nat /\ UnderWay \in Nat /\ Due \in Nat
      BY <1>1
    <3>2. created' \in Nat /\ UnderWay' \in Nat /\ Due' \in Nat
      BY <1>4
    <3> QED
      BY <1>5, <2>1, <3>1, <3>2, StillEnough
  <2>2. created >= MaxWorkerCount => created' >= MaxWorkerCount
    BY <1>1, <1>4, <1>5
  <2> QED
    BY <1>2, <2>1, <2>2
<1>6. CASE \E j \in Job : Submit(j) \/ Send(j)
  <2>1. /\ CallersAt("signalling")' = CallersAt("signalling")
        /\ UNCHANGED <<requestCount, dispatcherChannel, dispatcher, created>>
    BY <1>6 DEF Submit, Send, CallersAt, dispatcherVars, Typed, TypeOK
  <2>2. Asking' = Asking /\ Received' = Received /\ Due' = Due
    BY <2>1 DEF Asking, Received, Due
  <2> QED
    BY <1>1, <1>4, <1>5, <2>1, <2>2
<1>7. CASE \E j \in Job : CountRequest(j)
  <2>1. PICK j \in Job : CountRequest(j)
    BY <1>7
  <2>2. /\ requestCount' = requestCount + 1
        /\ UNCHANGED <<dispatcherChannel, dispatcher, created>>
        /\ j \notin CallersAt("signalling")
    BY <2>1 DEF CountRequest, CallersAt, dispatcherVars
  <2>3. CASE AsksForWorker(j, requestCount')
    <3>1. CallersAt("signalling")' = CallersAt("signalling") \cup {j}
      BY <2>1, <2>3 DEF CountRequest, CallersAt, Typed, TypeOK
    <3>2. Asking' = Asking + 1
      BY <2>2, <3>1, SetsAreFinite, FS_AddElement DEF Asking
    <3>3. Due' <= Due + 1 /\ Received' = Received
      BY <1>1, <2>2, OneMoreRequest DEF Due, Received
    <3>4. UnderWay' = UnderWay + 1
      BY <1>1, <1>4, <2>2, <3>2, <3>3
    <3>5. created' + UnderWay' + Due >= created + UnderWay + Due'
      BY <1>1, <1>4, <2>2, <3>3, <3>4, OneEach
    <3> QED
      BY <1>1, <1>5, <2>2, <3>5
  <2>4. CASE ~AsksForWorker(j, requestCount')
    <3>1. CallersAt("signalling")' = CallersAt("signalling")
      BY <2>1, <2>4 DEF CountRequest, CallersAt, Typed, TypeOK
    <3>2. Asking' = Asking /\ Received' = Received
      BY <2>2, <3>1 DEF Asking, Received
    <3>3. Due' = Due
      <4>1. (requestCount + 1) % RequestsPerNewWorkerCount # 0
        BY <2>2, <2>4 DEF AsksForWorker
      <4> QED
        BY <1>1, <2>2, <4>1, OneMoreRequest DEF Due
    <3> QED
      BY <1>1, <1>4, <1>5, <2>2, <3>2, <3>3
  <2> QED
    BY <2>3, <2>4
<1>8. CASE \E j \in Job : Signal(j)
  <2>1. PICK j \in Job : Signal(j)
    BY <1>8
  <2>2. /\ dispatcherChannel' = dispatcherChannel + 1
        /\ UNCHANGED <<requestCount, dispatcher, created>>
        /\ j \in CallersAt("signalling")
        /\ CallersAt("signalling")' = CallersAt("signalling") \ {j}
    BY <2>1 DEF Signal, CallersAt, Typed, TypeOK
  <2>3. Asking' = Asking - 1
    BY <2>2, SetsAreFinite, FS_RemoveElement DEF Asking
  <2>4. Due' = Due /\ Received' = Received
    BY <2>2 DEF Due, Received
  <2> QED
    BY <1>1, <1>4, <1>5, <2>2, <2>3, <2>4
<1>9. CASE DispatcherStep
  <2>1. UNCHANGED <<caller, requestCount>>
    BY <1>9 DEF DispatcherStep, CreateWorker, CountWorker, ReceiveSignal, Decide, callerVars
  <2>2. Asking' = Asking /\ Due' = Due
    BY <2>1 DEF CallersAt, Asking, Due
  <2>3. CASE \E w \in Worker : CreateWorker(w)
    <3>1. /\ dispatcherChannel' = dispatcherChannel /\ Received' = 0 /\ Received = 1
          /\ created' = created + 1
      BY <2>3, <1>1 DEF CreateWorker, Received
    <3> QED
      BY <1>1, <1>4, <1>5, <2>2, <3>1
  <2>4. CASE CountWorker
    <3>1. UNCHANGED <<dispatcherChannel, created>> /\ Received' = Received
      BY <2>4 DEF CountWorker, Received
    <3> QED
      BY <1>1, <1>4, <1>5, <2>2, <3>1
  <2>5. CASE ReceiveSignal
    <3>1. /\ dispatcherChannel' = dispatcherChannel - 1 /\ dispatcherChannel > 0
          /\ Received' = 1 /\ Received = 0
          /\ created' = created
      BY <2>5 DEF ReceiveSignal, Received
    <3> QED
      BY <1>1, <1>4, <1>5, <2>2, <3>1
  <2>6. CASE Decide
    <3>1. UNCHANGED <<dispatcherChannel, created>>
      BY <2>6 DEF Decide
    <3>2. CASE MayCreate
      <4>1. Received' = Received
        BY <2>6, <3>2 DEF Decide, Received
      <4> QED
        BY <1>1, <1>4, <1>5, <2>2, <3>1, <4>1
    <3>3. CASE ~MayCreate
      BY <1>1, <1>3, <3>1, <3>3 DEF MayCreate
    <3> QED
      BY <3>2, <3>3
  <2> QED
    BY <1>9, <2>3, <2>4, <2>5, <2>6 DEF DispatcherStep
<1>10. CASE (\E w \in Worker : WorkerStep(w)) \/ CloseStop \/ UNCHANGED poolVars
  <2>1. UNCHANGED <<caller, requestCount, dispatcherChannel, dispatcher, created>>
    BY <1>10 DEF WorkerStep, Take, Finish, StopWorker, IdleTimeout, Leave, UncountWorker,
                 CloseStop, poolVars, callerVars, dispatcherVars
  <2>2. Asking' = Asking /\ Due' = Due /\ Received' = Received
    BY <2>1 DEF CallersAt, Asking, Due, Received
  <2> QED
    BY <1>1, <1>4, <1>5, <2>1, <2>2
<1> QED
  BY <1>6, <1>7, <1>8, <1>9, <1>10 DEF Next, CallerStep

\* However the requests, their signals, the dispatcher and workers that leave interleave,
\* and whatever the configuration, no signal is lost: a dispatcher at rest has created,
\* besides the first worker, one for each full RequestsPerNewWorkerCount requests, or as
\* many as the limit.
THEOREM SignalsAreServed == Spec => []NoSignalIsLost
<1>1. Typed /\ Grown => NoSignalIsLost
  <2> SUFFICES ASSUME Typed, Grown,
                      \A j \in Job : caller[j] \in {"new", "returned"},
                      dispatcher = "waiting", dispatcherChannel = 0
               PROVE  created >=
                         LesserOf(MaxWorkerCount,
                                  1 + requestCount \div RequestsPerNewWorkerCount)
    BY DEF NoSignalIsLost
  <2>1. CallersAt("signalling") = {}
    BY DEF CallersAt
  <2>2. UnderWay = 0
    BY <2>1, FS_EmptySet DEF UnderWay, Asking, Received
  <2>3. \/ created >= MaxWorkerCount
        \/ created >= 1 + requestCount \div RequestsPerNewWorkerCount
    BY <2>2 DEF Grown, Typed, TypeOK, Due
  <2>4. /\ requestCount \div RequestsPerNewWorkerCount \in Nat
        /\ created \in Nat /\ MaxWorkerCount \in Int
    BY GrownTypes DEF Due
  <2> QED
    BY <2>3, <2>4 DEF LesserOf
<1> QED
  BY <1>1, GrownInit, GrownStep, TypeCorrect, PTL DEF Spec

-----------------------------------------------------------------------------
(***************************************************************************)
(* A job is in one place                                                    *)
(***************************************************************************)

EachJobOnce ==
    /\ \A j \in Job : caller[j] \in {"new", "sending"} =>
          /\ \A i \in DOMAIN jobChannel : jobChannel[i] # j
          /\ \A w \in Worker : holds[w] # j
          /\ j \notin completed
    /\ \A i, k \in DOMAIN jobChannel : jobChannel[i] = jobChannel[k] => i = k
    /\ \A i \in DOMAIN jobChannel :
          jobChannel[i] \notin completed /\ \A w \in Worker : holds[w] # jobChannel[i]
    /\ \A v, w \in Worker : holds[v] = holds[w] /\ holds[v] \in Job => v = w
    /\ \A w \in Worker : holds[w] \notin completed

LEMMA EachJobOnceInit == Init => EachJobOnce
  BY JobAssumption DEF Init, EachJobOnce

LEMMA EachJobOnceStep == Typed /\ EachJobOnce /\ [Next]_poolVars => EachJobOnce'
<1> SUFFICES ASSUME Typed, EachJobOnce, [Next]_poolVars PROVE EachJobOnce'
  OBVIOUS
<1> USE JobAssumption DEF Typed, TypeOK
<1>1. CASE \E j \in Job : Send(j)
  <2>1. PICK j \in Job : Send(j)
    BY <1>1
  <2>2. /\ jobChannel' = Append(jobChannel, j)
        /\ DOMAIN jobChannel' = 1..(Len(jobChannel) + 1)
        /\ DOMAIN jobChannel = 1..Len(jobChannel)
        /\ \A i \in 1..Len(jobChannel) : jobChannel'[i] = jobChannel[i]
        /\ jobChannel'[Len(jobChannel) + 1] = j
        /\ Len(jobChannel) \in Nat
    BY <2>1 DEF Send
  <2>3. /\ holds' = holds /\ completed' = completed
        /\ \A k \in Job : caller'[k] \in {"new", "sending"} =>
                              k # j /\ caller[k] \in {"new", "sending"}
        /\ caller[j] = "sending"
    BY <2>1 DEF Send, workerVars
  <2> QED
    BY <2>2, <2>3 DEF EachJobOnce
<1>2. CASE \E j \in Job : Submit(j) \/ CountRequest(j) \/ Signal(j)
  <2>1. /\ jobChannel' = jobChannel /\ holds' = holds /\ completed' = completed
        /\ \A k \in Job : caller'[k] \in {"new", "sending"} =>
                              caller[k] \in {"new", "sending"}
    BY <1>2 DEF Submit, CountRequest, Signal, workerVars, CallerState
  <2> QED
    BY <2>1 DEF EachJobOnce
<1>3. CASE \E w \in Worker : Take(w)
  <2>1. PICK w \in Worker : Take(w)
    BY <1>3
  <2>2. /\ DOMAIN jobChannel' = 1..(Len(jobChannel) - 1)
        /\ DOMAIN jobChannel = 1..Len(jobChannel)
        /\ \A i \in 1..(Len(jobChannel) - 1) : jobChannel'[i] = jobChannel[i + 1]
        /\ Len(jobChannel) \in Nat \ {0}
        /\ Head(jobChannel) = jobChannel[1] /\ Head(jobChannel) \in Job
    BY <2>1 DEF Take
  <2>3. /\ caller' = caller /\ completed' = completed
        /\ \A v \in Worker : holds'[v] = IF v = w THEN jobChannel[1] ELSE holds[v]
    BY <2>1, <2>2 DEF Take, callerVars
  <2>4. /\ \A i \in DOMAIN jobChannel' :
              i + 1 \in DOMAIN jobChannel /\ i + 1 # 1 /\ jobChannel'[i] = jobChannel[i + 1]
        /\ 1 \in DOMAIN jobChannel
    BY <2>2
  <2>5. \A i, k \in DOMAIN jobChannel' : jobChannel'[i] = jobChannel'[k] => i = k
    BY <2>2, <2>4 DEF EachJobOnce
  <2>6. \A j \in Job : caller'[j] \in {"new", "sending"} =>
          /\ \A i \in DOMAIN jobChannel' : jobChannel'[i] # j
          /\ \A v \in Worker : holds'[v] # j
          /\ j \notin completed'
    BY <2>3, <2>4 DEF EachJobOnce
  <2>7. \A i \in DOMAIN jobChannel' :
          jobChannel'[i] \notin completed' /\ \A v \in Worker : holds'[v] # jobChannel'[i]
    BY <2>3, <2>4 DEF EachJobOnce
  <2>8. /\ \A u, v \in Worker : holds'[u] = holds'[v] /\ holds'[u] \in Job => u = v
        /\ \A v \in Worker : holds'[v] \notin completed'
    BY <2>3, <2>4 DEF EachJobOnce
  <2> QED
    BY <2>5, <2>6, <2>7, <2>8 DEF EachJobOnce
<1>4. CASE \E w \in Worker : Finish(w)
  <2>1. PICK w \in Worker : Finish(w)
    BY <1>4
  <2>2. /\ caller' = caller /\ jobChannel' = jobChannel
        /\ completed' = completed \cup {holds[w]}
        /\ \A v \in Worker : holds'[v] = IF v = w THEN NoJob ELSE holds[v]
        /\ holds[w] \in Job
    BY <2>1 DEF Finish
  <2> QED
    BY <2>2 DEF EachJobOnce
<1>5. CASE \/ DispatcherStep
           \/ \E w \in Worker : StopWorker(w) \/ IdleTimeout(w) \/ UncountWorker(w)
           \/ CloseStop
           \/ UNCHANGED poolVars
  <2>1. /\ caller' = caller /\ jobChannel' = jobChannel
        /\ holds' = holds /\ completed' = completed
    BY <1>5 DEF DispatcherStep, CreateWorker, CountWorker, ReceiveSignal, Decide, StopWorker,
                IdleTimeout, Leave, UncountWorker, CloseStop, poolVars, callerVars, workerVars
  <2> QED
    BY <2>1 DEF EachJobOnce
<1> QED
  BY <1>1, <1>2, <1>3, <1>4, <1>5 DEF Next, CallerStep, WorkerStep

\* A job is never in the channel twice, nor in the channel and in execution, nor
\* executed by two workers, nor queued again once completed.
THEOREM JobInOnePlace == Spec => []EachJobOnce
  BY TypeCorrect, EachJobOnceInit, EachJobOnceStep, PTL DEF Spec

-----------------------------------------------------------------------------
(***************************************************************************)
(* The pool implements the queue                                            *)
(***************************************************************************)

Running == {holds[w] : w \in WorkersAt("busy")}

LEMMA RunningBelowLimit ==
  ASSUME Typed, Counted, NEW w \in Worker, worker[w] = "idle"
  PROVE  Cardinality(Running) < MaxWorkerCount
<1> DEFINE hold == [v \in WorkersAt("busy") |-> holds[v]]
<1>1. hold \in Surjection(WorkersAt("busy"), Running)
  BY DEF Surjection, Running
<1>2. Cardinality(Running) <= Cardinality(WorkersAt("busy")) /\ IsFiniteSet(Running)
  BY <1>1, SetsAreFinite, FS_Surjection
<1>3. WorkersAt("busy") \in SUBSET (LiveWorkers \ {w}) /\ w \in LiveWorkers
  BY DEF WorkersAt, LiveWorkers
<1>4. /\ IsFiniteSet(LiveWorkers \ {w})
      /\ Cardinality(LiveWorkers \ {w}) = Cardinality(LiveWorkers) - 1
  BY <1>3, SetsAreFinite, FS_RemoveElement
<1>5. Cardinality(WorkersAt("busy")) <= Cardinality(LiveWorkers) - 1
  BY <1>3, <1>4, FS_Subset
<1>6. Cardinality(LiveWorkers) <= MaxWorkerCount
  BY SetsAreFinite, ConfigAssumption DEF Counted, PoolAccounting, Typed, TypeOK
<1>7. Cardinality(Running) \in Nat
  BY <1>2, FS_CardinalityType
<1> QED
  BY <1>2, <1>5, <1>6, <1>7, SetsAreFinite, ConfigAssumption

LEMMA QueueInit == Init => Queue!Init
<1> SUFFICES ASSUME Init PROVE Queue!Init
  OBVIOUS
<1>1. CallersAt("sending") = {} /\ WorkersAt("busy") = {}
  BY DEF Init, CallersAt, WorkersAt
<1> QED
  BY <1>1 DEF Init, Queue!Init

LEMMA QueueStep ==
  Typed /\ Counted /\ EachJobOnce /\ [Next]_poolVars => [Queue!Next]_Queue!vars
<1> SUFFICES ASSUME Typed, Counted, EachJobOnce, [Next]_poolVars
             PROVE  [Queue!Next]_Queue!vars
  OBVIOUS
<1> USE DEF Typed, TypeOK
<1>1. CASE \E j \in Job : Submit(j)
  <2>1. PICK j \in Job : Submit(j)
    BY <1>1
  <2>2. /\ CallersAt("sending")' = CallersAt("sending") \cup {j}
        /\ j \notin CallersAt("sending")
    BY <2>1 DEF Submit, CallersAt
  <2>3. /\ jobChannel' = jobChannel /\ completed' = completed /\ Running' = Running
        /\ j \notin Queue!Queued \cup Running \cup completed
    BY <2>1 DEF Submit, workerVars, WorkersAt, Running, EachJobOnce, Queue!Queued
  <2>4. Queue!Request(j)
    BY <2>2, <2>3 DEF Queue!Request, Running
  <2> QED
    BY <2>4 DEF Queue!Next
<1>2. CASE \E j \in Job : Send(j)
  <2>1. PICK j \in Job : Send(j)
    BY <1>2
  <2>2. /\ CallersAt("sending")' = CallersAt("sending") \ {j} /\ j \in CallersAt("sending")
    BY <2>1 DEF Send, CallersAt
  <2>3. completed' = completed /\ Running' = Running
    BY <2>1 DEF Send, workerVars, WorkersAt, Running
  <2>4. Queue!Enqueue(j)
    BY <2>1, <2>2, <2>3 DEF Send, HasRoom, Queue!Enqueue, Running
  <2> QED
    BY <2>4 DEF Queue!Next
<1>3. CASE \E w \in Worker : Take(w)
  <2>1. PICK w \in Worker : Take(w)
    BY <1>3
  <2>2. Running' = Running \cup {Head(jobChannel)}
    <3>1. WorkersAt("busy")' = WorkersAt("busy") \cup {w} /\ w \notin WorkersAt("busy")
      BY <2>1 DEF Take, WorkersAt
    <3>2. /\ holds'[w] = Head(jobChannel)
          /\ \A v \in WorkersAt("busy") : holds'[v] = holds[v]
      BY <2>1, <3>1 DEF Take, WorkersAt
    <3> QED
      BY <3>1, <3>2 DEF Running
  <2>3. Cardinality(Running) < MaxWorkerCount
    BY <2>1, RunningBelowLimit DEF Take
  <2>4. CallersAt("sending")' = CallersAt("sending") /\ completed' = completed
    BY <2>1 DEF Take, callerVars, CallersAt
  <2>5. jobChannel # <<>> /\ jobChannel' = Tail(jobChannel)
    BY <2>1 DEF Take
  <2>6. Queue!Start
    BY <2>2, <2>3, <2>4, <2>5, Zenon
    DEF Queue!Start, Running, Cardinality, Queue!Cardinality, IsFiniteSet, Queue!IsFiniteSet
  <2> QED
    BY <2>6 DEF Queue!Next
<1>4. CASE \E w \in Worker : Finish(w)
  <2>1. PICK w \in Worker : Finish(w)
    BY <1>4
  <2>2. PICK j \in Job : j = holds[w] /\ j \in Running
    BY <2>1 DEF Finish, Running, WorkersAt
  <2>3. Running' = Running \ {j}
    <3>1. WorkersAt("busy")' = WorkersAt("busy") \ {w} /\ w \in WorkersAt("busy")
      BY <2>1 DEF Finish, WorkersAt
    <3>2. \A v \in WorkersAt("busy") \ {w} : holds'[v] = holds[v] /\ holds[v] # j
      BY <2>1, <2>2 DEF Finish, WorkersAt, EachJobOnce
    <3> QED
      BY <2>2, <3>1, <3>2 DEF Running
  <2>4. /\ CallersAt("sending")' = CallersAt("sending") /\ jobChannel' = jobChannel
        /\ completed' = completed \cup {j}
    BY <2>1, <2>2 DEF Finish, CallersAt
  <2>5. Queue!Complete(j)
    BY <2>2, <2>3, <2>4 DEF Queue!Complete, Running
  <2> QED
    BY <2>5 DEF Queue!Next
<1>5. CASE \/ \E j \in Job : CountRequest(j) \/ Signal(j)
           \/ DispatcherStep
           \/ \E w \in Worker : StopWorker(w) \/ IdleTimeout(w) \/ UncountWorker(w)
           \/ CloseStop
           \/ UNCHANGED poolVars
  <2>1. CallersAt("sending")' = CallersAt("sending") /\ jobChannel' = jobChannel
    BY <1>5 DEF CountRequest, Signal, DispatcherStep, CreateWorker, CountWorker, ReceiveSignal,
                Decide, StopWorker, IdleTimeout, Leave, UncountWorker, CloseStop, poolVars,
                callerVars, CallersAt
  <2>2. /\ WorkersAt("busy")' = WorkersAt("busy") /\ holds' = holds
        /\ completed' = completed
    BY <1>5 DEF CountRequest, Signal, DispatcherStep, CreateWorker, CountWorker, ReceiveSignal,
                Decide, StopWorker, IdleTimeout, Leave, UncountWorker, CloseStop, poolVars,
                workerVars, WorkersAt
  <2>3. Running' = Running
    BY <2>2 DEF Running
  <2> QED
    BY <2>1, <2>2, <2>3, Zenon DEF Queue!vars, Running
<1> QED
  BY <1>1, <1>2, <1>3, <1>4, <1>5 DEF Next, CallerStep, WorkerStep

\* The pool implements the bounded FIFO queue of JobQueue.tla.
THEOREM PoolImplementsQueue == Spec => ImplementsJobQueue
  BY QueueInit, QueueStep, TypeCorrect, CountedAlways, JobInOnePlace, PTL
  DEF Spec, ImplementsJobQueue, Queue!Spec
=============================================================================
