------------------------------ MODULE JobQueue ------------------------------
(***************************************************************************)
(* What the job service and the worker pool promise together, with the     *)
(* workers, the dispatcher and the counters left out: a bounded FIFO        *)
(* queue served by at most MaxRunning executions at a time.  A job that was *)
(* requested waits until the buffer has room, is queued once, is started    *)
(* once, in the order of the queue, and completes once.                     *)
(*                                                                         *)
(* WorkerPool.tla is shown to implement this specification.                 *)
(***************************************************************************)
EXTENDS Naturals, Sequences, FiniteSets

CONSTANTS
    Job,            \* the jobs that clients may submit
    BufferLimit,    \* capacity of the job channel
    MaxRunning      \* most jobs in execution at any time

VARIABLES
    waiting,        \* jobs whose submitter is blocked, waiting for room
    queue,          \* jobs accepted and not yet started, oldest first
    running,        \* jobs being executed
    completed       \* jobs whose execution has ended

vars == <<waiting, queue, running, completed>>

-----------------------------------------------------------------------------
Queued == {queue[i] : i \in DOMAIN queue}

Init ==
    /\ waiting = {}
    /\ queue = <<>>
    /\ running = {}
    /\ completed = {}

\* A client asks for a job that nobody has asked for before.
Request(j) ==
    /\ j \notin waiting \cup Queued \cup running \cup completed
    /\ waiting' = waiting \cup {j}
    /\ UNCHANGED <<queue, running, completed>>

\* There is room for the job of a waiting client.
Enqueue(j) ==
    /\ j \in waiting
    /\ Len(queue) < BufferLimit
    /\ waiting' = waiting \ {j}
    /\ queue' = Append(queue, j)
    /\ UNCHANGED <<running, completed>>

\* The oldest job of the queue starts, unless the limit is reached.
Start ==
    /\ queue # <<>>
    /\ Cardinality(running) < MaxRunning
    /\ running' = running \cup {Head(queue)}
    /\ queue' = Tail(queue)
    /\ UNCHANGED <<waiting, completed>>

\* The execution of a job ends.
Complete(j) ==
    /\ j \in running
    /\ running' = running \ {j}
    /\ completed' = completed \cup {j}
    /\ UNCHANGED <<waiting, queue>>

Next ==
    \/ Start
    \/ \E j \in Job : Request(j) \/ Enqueue(j) \/ Complete(j)

Spec == Init /\ [][Next]_vars
=============================================================================
