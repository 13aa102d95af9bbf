\* One query to each kind of provider, with a job store that may fail: two rounds of at
\* most two calls each, two of them searches.
SPECIFICATION FairMcpSpec
CONSTANTS
    q1 = q1
    Query = {q1}
    Provider = {"claude", "gemini", "openai"}
    MaxIterations = 2
    PollTimes <- MCPollTimes
    PollTimeout = 16000
    StoresMayFail = TRUE
    MaxCalls = 2
    MaxSearches = 2
INVARIANTS
    McpTypeOK
    ConversationAccepted
    SearchAnswersAreFinal
PROPERTIES
    McpImplementsStatus
    LoopEnds
CHECK_DEADLOCK FALSE
