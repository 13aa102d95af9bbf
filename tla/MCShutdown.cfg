\* The process, with two HTTP requests and one MCP tool, a buffer of 1, two workers
\* at most.
SPECIFICATION FairShutdownSpec
CONSTANTS
    Job = {i1, j2, t1}
    IngestJob = {i1}
    ToolJob = {t1}
    Worker = {w1, w2, w3}
    NoJob = NoJob
    BufferLimit = 1
    MaxWorkerCount = 2
    MinWorkerCount = 1
    RequestsPerNewWorkerCount = 3
INVARIANTS
    ShutdownTypeOK
    RequestsFinishFirst
    InFlightJobsFinish
PROPERTIES
    ShutdownEnds
\* The process ends.
CHECK_DEADLOCK FALSE
