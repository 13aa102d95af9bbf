----------------------------- MODULE Conversation -----------------------------
(***************************************************************************)
(* A conversation of several turns: which earlier exchanges of its chat are  *)
(* handed to the LLM with a question.  JobExecution.tla has everything else: here *)
(* a worker also reads the history of the chat (processQuery), between       *)
(* saving RUNNING and the first step of the pipeline, while other jobs of    *)
(* the same chat are executed.                                              *)
(***************************************************************************)
EXTENDS JobExecution, SequencesExt

CONSTANTS
    NotRead,        \* no history was read
    MaxCreated      \* bound: jobs created in one behaviour, of those in Job

ASSUME ConversationAssumption ==
    NotRead \notin Seq(QueryJob \cup {Seed}) /\ MaxCreated \in Nat

VARIABLES
    history,        \* the past messages that an execution hands to the pipeline
    asked           \* history: the follow-ups of the chat that were COMPLETE when a
                    \* question was asked

conversationVars == <<history, asked, allVars>>

ConversationInit ==
    /\ ExecutionInit
    /\ history = [j \in QueryJob |-> NotRead]
    /\ asked = [j \in QueryJob |-> {}]

-----------------------------------------------------------------------------
\* The follow-ups of chat c whose outcome a client has polled, or could have.
CompleteTurns(c) == {k \in QueryJob \ NewChatJob : ChatOf[k] = c /\ Polled(k) = "COMPLETE"}

Created == {j \in Job : creator[j] # "new"}

Ask(j) ==
    /\ CreateJob(j) /\ Cardinality(Created) < MaxCreated
    /\ asked' = IF j \in QueryJob THEN [asked EXCEPT ![j] = CompleteTurns(ChatOf[j])] ELSE asked
    /\ UNCHANGED history

\* Variant: the range of the list ends before the last entry.
PastMessagesButLast(c) == IF Exists(c) THEN Front(chats[c]) ELSE <<>>

\* ListGet5PastMessage asks Redis whether the key exists, and takes the answer, 0 or 1,
\* for the number of entries: it is below 5, so that the whole list is read.
PastMessages(c) == chats[c]

\* The most recent exchange first.  The list only grows between the two calls, so that
\* what comes back is the list of one moment.  After an error the job goes on without.
ReadHistory(j) ==
    /\ step[j] = "embedding" /\ history[j] = NotRead
    /\ \/ /\ StoreWorks(context[j])
          /\ history' = [history EXCEPT ![j] = Reverse(PastMessages(ChatOf[j]))]
       \/ /\ StoreFails(context[j])
          /\ history' = [history EXCEPT ![j] = <<>>]
    /\ UNCHANGED <<asked, allVars>>

Pipeline == {"embedding", "cacheCheck", "searching", "generating"}

\* The pipeline starts when the history has been read, and the history is a local that
\* ends with it.
GoOn ==
    /\ \/ \E j \in Job : PushJob(j) \/ ExpireJob(j)
       \/ \E j \in NewChatJob : ClearChat(j) \/ SeedChat(j)
       \/ StartJob
       \/ \E j \in Job : /\ step[j] = "embedding" => history[j] # NotRead
                         /\ ExecuteJob(j)
       \/ \E j \in QueryJob : SaveToCache(j)
       \/ Crash
    /\ history' = [j \in QueryJob |-> IF step'[j] \in Pipeline THEN history[j] ELSE NotRead]
    /\ UNCHANGED asked

ConversationNext ==
    \/ \E j \in Job : Ask(j)
    \/ \E j \in QueryJob : ReadHistory(j)
    \/ GoOn

ConversationSpec == ConversationInit /\ [][ConversationNext]_conversationVars

-----------------------------------------------------------------------------
(***************************************************************************)
(* Properties                                                               *)
(***************************************************************************)

\* The LLM answers the question of j.
LlmAnswers(j) == step[j] = "generating" /\ answer'[j] # answer[j]

\* A question is answered in the light of the conversation: when a follow-up was
\* COMPLETE before the question was asked, the provider that answers the question is handed
\* that exchange, whatever else is executed in the same chat, expires or crashes in
\* between, as long as the stores themselves do not fail.  It takes that an exchange is
\* in the chat before its job is COMPLETE (executeJob), that no caller clears a chat in
\* use (InitNewChat), and that a history that could not be read ends in an error.
AnsweredTurnsAreSeen ==
    [][\A j \in QueryJob :
          ~StoresMayFail /\ LlmAnswers(j)
              => history[j] # NotRead /\ asked[j] \subseteq ToSet(history[j])]_conversationVars
=============================================================================
