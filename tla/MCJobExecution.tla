-------------------------- MODULE MCJobExecution ---------------------------
(* JobExecution on small instances: the jobs, their chats and questions. *)
EXTENDS JobExecution

CONSTANTS
    q1,     \* a question that opens chat c1
    q2,     \* a follow-up in c1
    m1,     \* a question of the MCP search tool, in a chat of its own
    i1,     \* a document
    c1, c2, A, B

\* The follow-up and the tool ask the same question.
MCChatOf == [j \in QueryJob |-> IF j = m1 THEN c2 ELSE c1]
MCQuestionOf == [j \in QueryJob |-> IF j = q1 THEN A ELSE B]
=============================================================================
