\* The pool as shipped (MinWorkerCount = 1: no worker retires) with 3 jobs, a buffer
\* of 1 and a signal for each request; no symmetry, for liveness.
SPECIFICATION FairSpec
CONSTANTS
    Job = {j1, j2, i1}
    IngestJob = {i1}
    Worker = {w1, w2, w3, w4}
    NoJob = NoJob
    BufferLimit = 1
    MaxWorkerCount = 3
    MinWorkerCount = 1
    RequestsPerNewWorkerCount = 1
INVARIANTS
    PoolNeverEmpty
PROPERTIES
    JobsServed
    CallersReturn
\* When every job is done and the pool is stopped nothing is left to do.
CHECK_DEADLOCK FALSE
