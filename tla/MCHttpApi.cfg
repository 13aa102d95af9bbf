\* One request of each kind, all but one from one address; a burst of one, and one more
\* every two ticks; three ticks are more than a bucket holds.
SPECIFICATION HttpSpec
CONSTANTS
    Job = {c1, i1}
    IngestRequest = {i1}
    McpRequest = {m1}
    StatusRequest = {s1}
    OneFromThere = {m1}
    here = here
    there = there
    origin <- MCOrigin
    BufferLimit = 1
    MaxRunning = 1
    Address = {here, there}
    Burst = 1
    Cost = 2
    MaxTime = 3
INVARIANTS
    HttpTypeOK
    RateBound
    WorkIsAdmitted
    RefusalLeavesNothing
    AcceptedIsQueued
    FileReady
    NobodyIsIgnored
PROPERTIES
    RefusalIsDue
\* Every request is served in the end, and the clock stops at its bound.
CHECK_DEADLOCK FALSE
