\* Safety and refinement, with idle workers that retire (MinWorkerCount = 2, the
\* value of worker_test.go): a buffer of 2 for 4 jobs, a signal every 2 requests,
\* at most 3 workers.
SPECIFICATION Spec
CONSTANTS
    Job = {j1, j2, j3, i1}
    IngestJob = {i1}
    Worker = {w1, w2, w3, w4}
    NoJob = NoJob
    BufferLimit = 2
    MaxWorkerCount = 3
    MinWorkerCount = 2
    RequestsPerNewWorkerCount = 2
SYMMETRY PoolSymmetry
INVARIANTS
    TypeOK
    PoolAccounting
    PoolBound
    WaitGroupAccounting
    GaugeAccounting
    NoSignalIsLost
PROPERTIES
    ImplementsJobQueue
\* When every job is done and every worker has retired nothing is left to do.
CHECK_DEADLOCK FALSE
