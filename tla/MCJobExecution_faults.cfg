\* A conversation of two turns and a document; two workers; Redis calls that fail and
\* one crash of the process.
SPECIFICATION ExecutionSpec
CONSTANTS
    q1 = q1
    q2 = q2
    m1 = m1
    i1 = i1
    c1 = c1
    c2 = c2
    A = A
    B = B
    Job = {q1, q2, i1}
    IngestJob = {i1}
    McpJob = {}
    NewChatJob = {q1}
    Chat = {c1, c2}
    Question = {A, B}
    ChatOf <- MCChatOf
    QuestionOf <- MCQuestionOf
    Seed = Seed
    NoAnswer = NoAnswer
    StoresMayFail = TRUE
    MaxCrashes = 1
    BufferLimit = 1
    MaxRunning = 2
INVARIANTS
    ExecutionTypeOK
    ChatWellFormed
PROPERTIES
    ImplementsJobStatus
CHECK_DEADLOCK FALSE
