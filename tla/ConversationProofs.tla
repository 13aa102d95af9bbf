-------------------------- MODULE ConversationProofs --------------------------
(***************************************************************************)
(* Proofs about Conversation.tla: it is the execution of jobs, with one more *)
(* local, so that what is proved of executions holds of it; and the LLM is   *)
(* shown the turns that were COMPLETE when a question was asked.            *)
(*                                                                         *)
(* The argument: those turns were in the chat by then (FollowUpsAreKept),    *)
(* and no exchange ever leaves a chat (ExchangesStay), so that they are in   *)
(* what is read.  A history that could not be read belongs to a context that *)
(* has expired, on which no LLM answers.                                    *)
(***************************************************************************)
EXTENDS Conversation, JobExecutionProofs

LEMMA ConversationTypes ==
  /\ QueryJob \subseteq Job
  /\ \A j \in QueryJob : ChatOf[j] \in Chat
  BY ChatOfTyped DEF QueryJob

-----------------------------------------------------------------------------
(***************************************************************************)
(* A conversation is an execution                                           *)
(***************************************************************************)

LEMMA ConversationExecutes ==
  ASSUME [ConversationNext]_conversationVars
  PROVE  [ExecutionNext]_allVars
<1>1. ASSUME NEW j \in Job, Ask(j) PROVE ExecutionNext
  BY <1>1 DEF Ask, ExecutionNext
<1>2. ASSUME NEW j \in QueryJob, ReadHistory(j) PROVE UNCHANGED allVars
  BY <1>2 DEF ReadHistory
<1>3. CASE GoOn
  BY <1>3 DEF GoOn, ExecutionNext
<1>4. CASE UNCHANGED conversationVars
  BY <1>4 DEF conversationVars
<1> QED
  BY <1>1, <1>2, <1>3, <1>4 DEF ConversationNext

\* Whatever is proved of the execution of jobs holds when their histories are read too.
THEOREM ConversationRunsJobs == ConversationSpec => ExecutionSpec
<1>1. ConversationInit => ExecutionInit
  BY DEF ConversationInit
<1>2. [ConversationNext]_conversationVars => [ExecutionNext]_allVars
  BY ConversationExecutes
<1> QED
  BY <1>1, <1>2, PTL DEF ConversationSpec, ExecutionSpec

-----------------------------------------------------------------------------
(***************************************************************************)
(* What the LLM is shown                                                    *)
(***************************************************************************)

\* Reversed messages are the same messages.
LEMMA ReversedMessages ==
  ASSUME NEW S, NEW q \in Seq(S)
  PROVE  \A i \in DOMAIN q : \E k \in DOMAIN Reverse(q) : Reverse(q)[k] = q[i]
<1> SUFFICES ASSUME NEW i \in DOMAIN q
             PROVE  \E k \in DOMAIN Reverse(q) : Reverse(q)[k] = q[i]
  OBVIOUS
<1>1. Len(q) \in Nat /\ DOMAIN q = 1..Len(q)
  OBVIOUS
<1> DEFINE k == (Len(q) - i) + 1
<1>2. k \in 1..Len(q) /\ (Len(q) - k) + 1 = i
  BY <1>1
<1>3. DOMAIN Reverse(q) = 1..Len(q) /\ Reverse(q)[k] = q[(Len(q) - k) + 1]
  BY <1>1, <1>2 DEF Reverse
<1> QED
  BY <1>2, <1>3

\* The turns a question may count on are in its chat, and in the history of an execution
\* that can still have an answer.
Shown ==
    /\ history \in [QueryJob -> Seq(QueryJob \cup {Seed}) \cup {NotRead}]
    /\ DOMAIN asked = QueryJob
    /\ \A j \in QueryJob :
          /\ asked[j] \subseteq Exchanges(ChatOf[j])
          /\ history[j] # NotRead =>
                /\ step[j] \in Pipeline
                /\ context[j] = "live" => asked[j] \subseteq ToSet(history[j])
          /\ step[j] \in Pipeline \ {"embedding"} => history[j] # NotRead

LEMMA ShownInitially == ConversationInit => Shown
<1> SUFFICES ASSUME ConversationInit PROVE Shown
  OBVIOUS
<1>1. /\ history = [j \in QueryJob |-> NotRead] /\ asked = [j \in QueryJob |-> {}]
      /\ \A j \in QueryJob : step[j] = "none"
  BY ConversationTypes DEF ConversationInit, ExecutionInit
<1>2. history \in [QueryJob -> Seq(QueryJob \cup {Seed}) \cup {NotRead}]
  BY <1>1
<1>3. DOMAIN asked = QueryJob
  BY <1>1
<1>4. ASSUME NEW j \in QueryJob
      PROVE  /\ asked[j] \subseteq Exchanges(ChatOf[j])
             /\ history[j] # NotRead =>
                   /\ step[j] \in Pipeline
                   /\ context[j] = "live" => asked[j] \subseteq ToSet(history[j])
             /\ step[j] \in Pipeline \ {"embedding"} => history[j] # NotRead
  <2>1. asked[j] = {} /\ history[j] = NotRead /\ step[j] = "none"
    BY <1>1
  <2>2. step[j] \notin Pipeline
    BY <2>1 DEF Pipeline
  <2> QED
    BY <2>1, <2>2
<1> QED
  BY <1>2, <1>3, <1>4 DEF Shown

\* A question is asked: the turns that are COMPLETE are in the chat.
LEMMA AskStep ==
  ASSUME Typed, Placed, Chats, Shown, CompletedFollowUpIsInChat, ~StoresMayFail,
         NEW i \in Job, Ask(i)
  PROVE  Shown'
<1>1. /\ history' = history /\ step' = step /\ context' = context /\ chats' = chats
      /\ creator[i] = "new"
  BY DEF Ask, CreateJob, executionVars, storeVars
<1>2. i \notin running /\ step[i] = "none"
  BY <1>1, ExecutionTypes DEF Placed
<1>3. /\ DOMAIN asked' = QueryJob
      /\ \A j \in QueryJob : j # i => asked'[j] = asked[j]
      /\ i \in QueryJob => asked'[i] = CompleteTurns(ChatOf[i])
  BY DEF Ask, Shown
<1>4. i \in QueryJob => asked'[i] \subseteq Exchanges(ChatOf[i])
  BY <1>3 DEF CompleteTurns, CompletedFollowUpIsInChat
<1>5. i \in QueryJob => history[i] = NotRead
  BY <1>2 DEF Shown, Pipeline
<1>6. ASSUME NEW j \in QueryJob
      PROVE  /\ asked'[j] \subseteq Exchanges(ChatOf[j])
             /\ history[j] # NotRead =>
                   /\ step[j] \in Pipeline
                   /\ context[j] = "live" => asked'[j] \subseteq ToSet(history[j])
             /\ step[j] \in Pipeline \ {"embedding"} => history[j] # NotRead
  <2>1. CASE j = i
    BY <1>2, <1>4, <1>5, <2>1 DEF Shown, Pipeline
  <2>2. CASE j # i
    BY <1>3, <2>2 DEF Shown
  <2> QED
    BY <2>1, <2>2
<1> QED
  BY <1>1, <1>3, <1>6 DEF Shown, Exchanges

\* A history is read: it is the chat, unless the context has expired.
LEMMA ReadStep ==
  ASSUME Typed, Shown, ~StoresMayFail, NEW i \in QueryJob, ReadHistory(i)
  PROVE  Shown'
<1>1. /\ asked' = asked /\ step' = step /\ context' = context /\ chats' = chats
      /\ step[i] = "embedding"
  BY DEF ReadHistory, allVars, executionVars, storeVars
<1>2. PICK q \in Seq(QueryJob \cup {Seed}) : q = chats[ChatOf[i]]
  BY ExecutionTypes, ConversationTypes
<1>3. \E h \in Seq(QueryJob \cup {Seed}) :
         /\ history' = [history EXCEPT ![i] = h]
         /\ context[i] = "live" => h = Reverse(q)
  <2>1. Reverse(q) \in Seq(QueryJob \cup {Seed}) /\ <<>> \in Seq(QueryJob \cup {Seed})
    BY DEF Reverse
  <2> QED
    BY <1>2, <2>1 DEF ReadHistory, PastMessages, StoreFails, StoreWorks
<1>4. PICK h \in Seq(QueryJob \cup {Seed}) :
         /\ history' = [history EXCEPT ![i] = h]
         /\ context[i] = "live" => h = Reverse(q)
  BY <1>3
<1>5. h # NotRead
  BY ConversationAssumption
<1>6. context[i] = "live" => asked[i] \subseteq ToSet(h)
  <2> SUFFICES ASSUME context[i] = "live", NEW k \in asked[i] PROVE k \in ToSet(h)
    OBVIOUS
  <2>1. PICK n \in DOMAIN q : q[n] = k
    BY <1>2 DEF Shown, Exchanges
  <2>2. \E m \in DOMAIN Reverse(q) : Reverse(q)[m] = q[n]
    BY ReversedMessages
  <2> QED
    BY <1>4, <2>1, <2>2 DEF ToSet
<1>7. /\ history' \in [QueryJob -> Seq(QueryJob \cup {Seed}) \cup {NotRead}]
      /\ history'[i] = h /\ \A j \in QueryJob : j # i => history'[j] = history[j]
  BY <1>4 DEF Shown
<1>8. \A j \in QueryJob :
         /\ asked'[j] \subseteq Exchanges(ChatOf[j])'
         /\ history'[j] # NotRead =>
               /\ step'[j] \in Pipeline
               /\ context'[j] = "live" => asked'[j] \subseteq ToSet(history'[j])
         /\ step'[j] \in Pipeline \ {"embedding"} => history'[j] # NotRead
  <2> TAKE j \in QueryJob
  <2>1. CASE j = i
    BY <1>1, <1>5, <1>6, <1>7, <2>1 DEF Shown, Exchanges, Pipeline
  <2>2. CASE j # i
    BY <1>1, <1>7, <2>2 DEF Shown, Exchanges
  <2> QED
    BY <2>1, <2>2
<1>9. DOMAIN asked' = QueryJob
  BY <1>1 DEF Shown
<1> QED
  BY <1>7, <1>8, <1>9 DEF Shown

\* Every other step leaves the questions alone, and the chats with their exchanges.
LEMMA GoOnStep ==
  ASSUME Typed, Placed, Chats, Shown, [ExecutionNext]_allVars, GoOn
  PROVE  Shown'
<1>0. /\ step \in [Job -> Step] /\ context \in [Job -> {"live", "expired", "cancelled"}]
      /\ QueryJob \subseteq Job
      /\ \A j \in QueryJob : ChatOf[j] \in Chat
  BY ExecutionTypes, ConversationTypes DEF Typed, ExecutionTypeOK
<1>1. /\ asked' = asked
      /\ history' = [j \in QueryJob |-> IF step'[j] \in Pipeline THEN history[j] ELSE NotRead]
  BY DEF GoOn
<1>2. \A j \in QueryJob : asked'[j] \subseteq Exchanges(ChatOf[j])'
  BY <1>0, <1>1, ExchangesStay DEF Shown
<1>3. \A j \in QueryJob : context'[j] = "live" => context[j] = "live"
  BY <1>0
     DEF GoOn, PushJob, ExpireJob, ClearChat, SeedChat, StartJob, ExecuteJob, SaveRunning,
         IngestDocument, ProcessRequest, ValidateChat, PushExchange, FinishJob, SaveToCache,
         Crash, executionVars
<1>4. \A j \in QueryJob :
         step'[j] \in Pipeline \ {"embedding"} => step[j] \in Pipeline /\ history[j] # NotRead
  <2>1. ASSUME NEW i \in Job, step[i] = "embedding" => history[i] # NotRead, ExecuteJob(i),
               NEW j \in QueryJob, step'[j] \in Pipeline \ {"embedding"}
        PROVE  step[j] \in Pipeline /\ history[j] # NotRead
    <3>1. CASE j # i
      BY <1>0, <2>1, <3>1, ExecutionIsLocal DEF Shown
    <3>2. CASE j = i
      <4>1. step[j] \in Pipeline
        BY <1>0, <2>1, <3>2
           DEF ExecuteJob, SaveRunning, IngestDocument, ProcessRequest, Embed, CheckCache,
               Search, Generate, ContinueRag, FailRag, AnswerWith, ValidateChat, PushExchange,
               FinishJob, GoTo, Pipeline
      <4> QED
        BY <2>1, <3>2, <4>1 DEF Shown
    <3> QED
      BY <3>1, <3>2
  <2>2. CASE StartJob
    BY <1>0, <2>2 DEF StartJob, GoTo, Shown, Pipeline
  <2>3. CASE Crash
    BY <1>0, <2>3 DEF Crash, Pipeline
  <2>4. CASE UNCHANGED step
    BY <2>4 DEF Shown
  <2> QED
    BY <2>1, <2>2, <2>3, <2>4
       DEF GoOn, PushJob, ExpireJob, ClearChat, SeedChat, SaveToCache, executionVars
<1>5. history' \in [QueryJob -> Seq(QueryJob \cup {Seed}) \cup {NotRead}]
  BY <1>1 DEF Shown
<1>6. ASSUME NEW j \in QueryJob
      PROVE  /\ history'[j] # NotRead =>
                   /\ step'[j] \in Pipeline
                   /\ context'[j] = "live" => asked'[j] \subseteq ToSet(history'[j])
             /\ step'[j] \in Pipeline \ {"embedding"} => history'[j] # NotRead
  BY <1>1, <1>3, <1>4 DEF Shown
<1> QED
  BY <1>1, <1>2, <1>5, <1>6 DEF Shown

LEMMA ShownStep ==
  ASSUME Typed, Placed, Chats, Shown, CompletedFollowUpIsInChat, ~StoresMayFail,
         [ConversationNext]_conversationVars
  PROVE  Shown'
<1>1. CASE UNCHANGED conversationVars
  BY <1>1 DEF Shown, Exchanges, conversationVars, allVars, executionVars, storeVars
<1>2. [ExecutionNext]_allVars
  BY ConversationExecutes
<1> QED
  BY <1>1, <1>2, AskStep, ReadStep, GoOnStep DEF ConversationNext

\* A question is answered in the light of every follow-up that was COMPLETE when it was
\* asked, for any number of jobs and chats, whatever expires or crashes.
THEOREM TurnsAreSeen == ConversationSpec => AnsweredTurnsAreSeen
<1> DEFINE Inv == ~StoresMayFail => Shown
           AllSeen == \A j \in QueryJob :
                         ~StoresMayFail /\ LlmAnswers(j)
                             => history[j] # NotRead /\ asked[j] \subseteq ToSet(history[j])
<1>1. ConversationInit => Inv
  BY ShownInitially
<1>2. Inv /\ Typed /\ Placed /\ Chats /\ CompletedFollowUpIsInChat
        /\ [ConversationNext]_conversationVars => Inv'
  BY ShownStep
<1>3. Inv /\ Typed /\ [ConversationNext]_conversationVars => [AllSeen]_conversationVars
  <2> SUFFICES ASSUME Inv, Typed, [ConversationNext]_conversationVars,
                      ~UNCHANGED conversationVars, NEW j \in QueryJob,
                      ~StoresMayFail, LlmAnswers(j)
               PROVE  history[j] # NotRead /\ asked[j] \subseteq ToSet(history[j])
    OBVIOUS
  <2>1. step[j] = "generating" /\ answer'[j] # answer[j] /\ j \in Job
    BY ConversationTypes DEF LlmAnswers
  <2>2. [ExecutionNext]_allVars
    BY ConversationExecutes
  <2>3. Works(j)
    <3>1. ASSUME NEW i \in Job, ExecuteJob(i) PROVE Works(j)
      <4>1. i = j
        BY <2>1, <3>1, ExecutionIsLocal
      <4>2. Generate(j)
        BY <2>1, <3>1, <4>1
           DEF ExecuteJob, SaveRunning, IngestDocument, ProcessRequest, Embed, CheckCache,
               Search, ValidateChat, PushExchange, FinishJob
      <4> QED
        BY <2>1, <4>2 DEF Generate, FailRag
    <3>2. CASE UNCHANGED answer
      BY <2>1, <3>2
    <3> QED
      BY <2>2, <3>1, <3>2
         DEF ExecutionNext, CreateJob, PushJob, ClearChat, SeedChat, StartJob, SaveToCache,
             ExpireJob, Crash, allVars, executionVars
  <2> QED
    BY <2>1, <2>3 DEF Works, Shown, Pipeline
<1> HIDE DEF Inv
<1> QED
  BY <1>1, <1>2, <1>3, ConversationRunsJobs, FollowUpsAreKept, ChatsHold, PlacedHolds,
     TypedHolds, PTL DEF ConversationSpec, AnsweredTurnsAreSeen
=============================================================================
