\* One query that may search once, with a job store that works.
SPECIFICATION McpSpec
CONSTANTS
    q1 = q1
    Query = {q1}
    Provider = {"claude"}
    MaxIterations = 1
    PollTimes <- MCPollTimes
    PollTimeout = 16000
    StoresMayFail = FALSE
    MaxCalls = 1
    MaxSearches = 1
INVARIANTS
    SearchFindsItsJob
CHECK_DEADLOCK FALSE
