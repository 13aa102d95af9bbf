--------------------------- MODULE MCConversation ----------------------------
(* Conversation on small instances: the jobs, their chats and questions. *)
EXTENDS Conversation

CONSTANTS
    q1,         \* a question that opens chat c1
    q2, q3,     \* follow-ups in c1
    m1,         \* a question of the MCP search tool, in a chat of its own
    c1, c2, A, B, C

\* The first follow-up and the tool ask the same question.
MCChatOf == [j \in QueryJob |-> IF j = m1 THEN c2 ELSE c1]
MCQuestionOf == [j \in QueryJob |-> CASE j = q1 -> A [] j = q3 -> C [] OTHER -> B]
=============================================================================
