\* A conversation of three turns, or of two and a query of the MCP tool; two workers;
\* Redis works as long as contexts live; contexts expire and the process crashes once.
SPECIFICATION ConversationSpec
CONSTANTS
    q1 = q1
    q2 = q2
    q3 = q3
    m1 = m1
    c1 = c1
    c2 = c2
    A = A
    B = B
    C = C
    Job = {q1, q2, q3, m1}
    IngestJob = {}
    McpJob = {m1}
    NewChatJob = {q1, m1}
    Chat = {c1, c2}
    Question = {A, B, C}
    ChatOf <- MCChatOf
    QuestionOf <- MCQuestionOf
    Seed = Seed
    NoAnswer = NoAnswer
    NotRead = NotRead
    StoresMayFail = FALSE
    MaxCrashes = 1
    MaxCreated = 3
    BufferLimit = 1
    MaxRunning = 2
INVARIANTS
    AnswerIsToTheQuestion
    CompletedFollowUpIsInChat
PROPERTIES
    AnsweredTurnsAreSeen
CHECK_DEADLOCK FALSE
