\* One question; no crash and no fault of the stores, but contexts expire.
SPECIFICATION FairExecutionSpec
CONSTANTS
    q1 = q1
    q2 = q2
    m1 = m1
    i1 = i1
    c1 = c1
    c2 = c2
    A = A
    B = B
    Job = {q1}
    IngestJob = {}
    McpJob = {}
    NewChatJob = {q1}
    Chat = {c1, c2}
    Question = {A, B}
    ChatOf <- MCChatOf
    QuestionOf <- MCQuestionOf
    Seed = Seed
    NoAnswer = NoAnswer
    StoresMayFail = FALSE
    MaxCrashes = 0
    BufferLimit = 1
    MaxRunning = 2
PROPERTIES
    RunningEnds
CHECK_DEADLOCK FALSE
