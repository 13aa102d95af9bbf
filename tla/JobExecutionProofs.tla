------------------------- MODULE JobExecutionProofs -------------------------
(***************************************************************************)
(* Theorems about JobExecution, for every set of jobs, chats and questions   *)
(* and every number of executions at once and of crashes: the types, the     *)
(* status that clients poll, the answers, and the chats.                    *)
(*                                                                         *)
(* The status moves only forward because a job is executed at most once,     *)
(* also across a crash, and its record is written by that execution alone.   *)
(* That needs three layers: Typed, where each job is (Placed), and what the  *)
(* store says of it by then (Ahead).                                        *)
(***************************************************************************)
EXTENDS JobExecution, TLAPS

\* The initial state is in its types.
LEMMA TypedInit == ExecutionInit => ExecutionTypeOK
<1> SUFFICES ASSUME ExecutionInit PROVE ExecutionTypeOK
  OBVIOUS
<1> USE JobKindAssumption DEF ExecutionInit, Init, ExecutionTypeOK
<1>1. chats \in [Chat -> Seq(QueryJob \cup {Seed})]
  OBVIOUS
<1>2. jobStore \in [Job -> Record]
  BY DEF Record, Status, Absent
<1>3. queue \in Seq(Job)
  OBVIOUS
<1> QED
  BY <1>1, <1>2, <1>3 DEF Step

\* Pushing to a chat keeps the type of the message store.
LEMMA ChatPushTyped ==
  ASSUME NEW S, NEW f \in [Chat -> Seq(S)], NEW c \in Chat, NEW x \in S
  PROVE  [f EXCEPT ![c] = Append(@, x)] \in [Chat -> Seq(S)]
<1>1. Append(f[c], x) \in Seq(S)
  OBVIOUS
<1> QED
  BY <1>1

\* Every query has its chat.
LEMMA ChatOfTyped == \A j \in QueryJob : ChatOf[j] \in Chat
  BY JobKindAssumption

\* The steps of a caller.
LEMMA TypedCaller ==
  ASSUME ExecutionTypeOK, NEW j \in Job,
         CreateJob(j) \/ PushJob(j) \/ (j \in NewChatJob /\ (ClearChat(j) \/ SeedChat(j)))
  PROVE  ExecutionTypeOK'
<1> USE DEF ExecutionTypeOK
<1>1. CASE CreateJob(j)
  BY <1>1 DEF CreateJob, Request, executionVars, storeVars, cacheVars
<1>2. CASE PushJob(j)
  BY <1>2 DEF PushJob, Enqueue, executionVars, storeVars, cacheVars
<1>3. CASE j \in NewChatJob /\ (ClearChat(j) \/ SeedChat(j))
  <2>1. ChatOf[j] \in Chat
    BY <1>3, ChatOfTyped, JobKindAssumption
  <2>2. [chats EXCEPT ![ChatOf[j]] = Append(@, Seed)] \in [Chat -> Seq(QueryJob \cup {Seed})]
    BY <2>1, ChatPushTyped
  <2>3. [chats EXCEPT ![ChatOf[j]] = <<>>] \in [Chat -> Seq(QueryJob \cup {Seed})]
    BY <2>1
  <2>4. chats' \in [Chat -> Seq(QueryJob \cup {Seed})]
    BY <1>3, <2>2, <2>3 DEF ClearChat, SeedChat
  <2>5. creator' \in [Job -> {"new", "pushing", "clearing", "seeding", "returned", "lost"}]
    BY <1>3 DEF ClearChat, SeedChat
  <2> QED
    BY <1>3, <2>4, <2>5 DEF ClearChat, SeedChat, vars, executionVars, cacheVars
<1> QED
  BY <1>1, <1>2, <1>3

\* SaveJob writes a record or leaves the store alone.
LEMMA SaveJobTyped ==
  ASSUME ExecutionTypeOK, NEW j \in Job, NEW s \in Status, SaveJob(j, s)
  PROVE  jobStore' \in [Job -> Record]
<1>1. [status |-> s, answer |-> answer[j]] \in Record
  BY DEF ExecutionTypeOK, Record
<1>2. jobStore \in [Job -> Record]
  BY DEF ExecutionTypeOK
<1> QED
  BY <1>1, <1>2 DEF SaveJob

\* Only ingestions ingest, and only queries go through the RAG pipeline.
StepFitsKind ==
    \A j \in Job :
        /\ step[j] = "ingesting" => j \in IngestJob
        /\ step[j] \in Step \ {"none", "starting", "ingesting", "saving"} => j \in QueryJob

Typed == ExecutionTypeOK /\ StepFitsKind

\* What Typed says of step.
StepTyped ==
    /\ step \in [Job -> Step]
    /\ \A j \in Job : step[j] # "none" <=> j \in running
    /\ StepFitsKind

\* A step of an execution to a step s that is not the end.
LEMMA GoToTyped ==
  ASSUME Typed, NEW j \in Job, step[j] # "none", running' = running,
         NEW s \in Step \ {"none"}, GoTo(j, s),
         s = "ingesting" => j \in IngestJob,
         s \notin {"starting", "ingesting", "saving"} => j \in QueryJob
  PROVE  StepTyped'
  BY DEF Typed, ExecutionTypeOK, StepFitsKind, StepTyped, GoTo

\* The steps of the RAG pipeline.
LEMMA TypedRag ==
  ASSUME Typed, NEW j \in Job, ProcessRequest(j)
  PROVE  Typed'
<1>1. j \in QueryJob
  BY DEF Typed, StepFitsKind, Step, ProcessRequest, Embed, CheckCache, Search, Generate
<1>2. PICK s \in {"cacheCheck", "searching", "generating", "savingChat", "saving"} : GoTo(j, s)
  BY DEF ProcessRequest, Embed, CheckCache, Search, Generate, ContinueRag, FailRag, AnswerWith
<1>3. StepTyped'
  <2>1. step[j] # "none" /\ running' = running
    BY DEF ProcessRequest, Embed, CheckCache, Search, Generate, vars
  <2>2. s \in Step \ {"none"} /\ s # "ingesting"
    BY DEF Step
  <2> QED
    BY <1>1, <1>2, <2>1, <2>2, GoToTyped
<1>4. result' \in [Job -> {"QUEUED", "COMPLETE", "Error"}]
  BY DEF Typed, ExecutionTypeOK, ProcessRequest, Embed, CheckCache, Search, Generate,
         ContinueRag, FailRag, AnswerWith
<1>5. answer' \in [Job -> QueryJob \cup {NoAnswer}]
  BY <1>1 DEF Typed, ExecutionTypeOK, ProcessRequest, Embed, CheckCache, Search, Generate,
         ContinueRag, FailRag, AnswerWith, SimilarInCache
<1>6. caching' \subseteq QueryJob /\ cache' \subseteq QueryJob
  BY <1>1 DEF Typed, ExecutionTypeOK, ProcessRequest, Embed, CheckCache, Search, Generate,
         ContinueRag, FailRag, cacheVars
<1> QED
  BY <1>3, <1>4, <1>5, <1>6 DEF Typed, ExecutionTypeOK, StepTyped, ProcessRequest, vars, storeVars

\* The steps of an execution.
LEMMA TypedExecution ==
  ASSUME Typed, NEW j \in Job, ExecuteJob(j)
  PROVE  Typed'
<1>1. CASE SaveRunning(j)
  <2>1. jobStore' \in [Job -> Record]
    BY <1>1, SaveJobTyped DEF SaveRunning, Status, Typed
  <2>2. StepTyped'
    BY <1>1, GoToTyped DEF SaveRunning, vars, Step, QueryJob
  <2> QED
    BY <1>1, <2>1, <2>2
       DEF Typed, StepTyped, ExecutionTypeOK, SaveRunning, vars, cacheVars
<1>2. CASE IngestDocument(j)
  <2>1. failedIngest' \subseteq IngestJob
    BY <1>2 DEF Typed, StepFitsKind, ExecutionTypeOK, IngestDocument
  <2>2. StepTyped'
    BY <1>2, GoToTyped DEF IngestDocument, vars, Step
  <2> QED
    BY <1>2, <2>1, <2>2
       DEF Typed, StepTyped, ExecutionTypeOK, IngestDocument, vars, storeVars, cacheVars
<1>3. CASE ProcessRequest(j)
  BY <1>3, TypedRag
<1>4. CASE ValidateChat(j)
  <2>1. j \in QueryJob
    BY <1>4 DEF Typed, StepFitsKind, Step, ValidateChat
  <2>2. StepTyped'
    BY <1>4, <2>1, GoToTyped DEF ValidateChat, vars, Step
  <2> QED
    BY <1>4, <2>2 DEF Typed, StepTyped, ExecutionTypeOK, ValidateChat, vars, storeVars, cacheVars
<1>5. CASE PushExchange(j)
  <2>1. j \in QueryJob
    BY <1>5 DEF Typed, StepFitsKind, Step, PushExchange
  <2>2. StepTyped'
    BY <1>5, GoToTyped DEF PushExchange, vars, Step
  <2>3. chats \in [Chat -> Seq(QueryJob \cup {Seed})] /\ ChatOf[j] \in Chat
    BY <2>1, ChatOfTyped DEF Typed, ExecutionTypeOK
  <2>4. [chats EXCEPT ![ChatOf[j]] = Append(@, j)] \in [Chat -> Seq(QueryJob \cup {Seed})]
    BY <2>1, <2>3, ChatPushTyped
  <2>5. chats' \in [Chat -> Seq(QueryJob \cup {Seed})]
    BY <1>5, <2>3, <2>4 DEF PushExchange
  <2> QED
    BY <1>5, <2>2, <2>5 DEF Typed, StepTyped, ExecutionTypeOK, PushExchange, vars, cacheVars
<1>6. CASE FinishJob(j)
  <2>1. jobStore' \in [Job -> Record]
    BY <1>6, SaveJobTyped DEF FinishJob, FinalStatus, Status, Typed
  <2>2. StepTyped'
    BY <1>6 DEF Typed, StepTyped, ExecutionTypeOK, StepFitsKind, FinishJob, GoTo, Complete, Step
  <2>3. result' \in [Job -> {"QUEUED", "COMPLETE", "Error"}]
    BY <1>6 DEF Typed, ExecutionTypeOK, FinishJob, FinalStatus
  <2>4. context' \in [Job -> {"live", "expired", "cancelled"}]
    BY <1>6 DEF Typed, ExecutionTypeOK, FinishJob
  <2>5. waiting' \subseteq Job /\ queue' \in Seq(Job) /\ running' \subseteq Job /\ completed' \subseteq Job
    BY <1>6 DEF Typed, ExecutionTypeOK, FinishJob, Complete
  <2> QED
    BY <1>6, <2>1, <2>2, <2>3, <2>4, <2>5
       DEF Typed, StepTyped, ExecutionTypeOK, FinishJob, cacheVars
<1> QED
  BY <1>1, <1>2, <1>3, <1>4, <1>5, <1>6 DEF ExecuteJob

\* Every step keeps Typed: callers, executions, the cache, time and crashes.
LEMMA TypedStep ==
  ASSUME Typed, [ExecutionNext]_allVars
  PROVE  Typed'
<1>1. CASE \E j \in Job : CreateJob(j) \/ PushJob(j)
  <2>1. PICK j \in Job : CreateJob(j) \/ PushJob(j)
    BY <1>1
  <2>2. ExecutionTypeOK'
    BY <2>1, TypedCaller DEF Typed
  <2>3. StepFitsKind'
    BY <2>1 DEF Typed, StepFitsKind, CreateJob, PushJob, executionVars
  <2> QED
    BY <2>2, <2>3 DEF Typed
<1>2. CASE \E j \in NewChatJob : ClearChat(j) \/ SeedChat(j)
  <2>1. PICK j \in NewChatJob : ClearChat(j) \/ SeedChat(j)
    BY <1>2
  <2>2. j \in Job
    BY JobKindAssumption DEF QueryJob
  <2>3. ExecutionTypeOK'
    BY <2>1, <2>2, TypedCaller DEF Typed
  <2>4. StepFitsKind'
    BY <2>1 DEF Typed, StepFitsKind, ClearChat, SeedChat, executionVars
  <2> QED
    BY <2>3, <2>4 DEF Typed
<1>3. CASE StartJob
  <2>1. Head(queue) \in Job /\ Tail(queue) \in Seq(Job)
    BY <1>3 DEF Typed, ExecutionTypeOK, StartJob, Start
  <2>2. StepTyped'
    BY <1>3, <2>1 DEF Typed, StepTyped, ExecutionTypeOK, StepFitsKind, StartJob, Start, GoTo, Step
  <2>3. waiting' \subseteq Job /\ queue' \in Seq(Job) /\ running' \subseteq Job /\ completed' \subseteq Job
    BY <1>3, <2>1 DEF Typed, ExecutionTypeOK, StartJob, Start
  <2> QED
    BY <1>3, <2>2, <2>3 DEF Typed, StepTyped, ExecutionTypeOK, StartJob, storeVars, cacheVars
<1>4. CASE \E j \in Job : ExecuteJob(j)
  BY <1>4, TypedExecution
<1>5. CASE \E j \in QueryJob : SaveToCache(j)
  BY <1>5 DEF Typed, ExecutionTypeOK, StepFitsKind, SaveToCache, vars, executionVars, storeVars
<1>6. CASE \E j \in Job : ExpireJob(j)
  BY <1>6 DEF Typed, ExecutionTypeOK, StepFitsKind, ExpireJob, vars, storeVars, cacheVars
<1>7. CASE Crash
  <2>1. creator' \in [Job -> {"new", "pushing", "clearing", "seeding", "returned", "lost"}]
    BY <1>7 DEF Typed, ExecutionTypeOK, Crash
  <2>2. StepTyped'
    BY <1>7 DEF StepTyped, StepFitsKind, Crash, Step
  <2>3. crashes' \in 0..MaxCrashes
    BY <1>7, JobKindAssumption DEF Typed, ExecutionTypeOK, Crash
  <2> QED
    BY <1>7, <2>1, <2>2, <2>3 DEF Typed, StepTyped, ExecutionTypeOK, Crash, storeVars
<1>8. CASE UNCHANGED allVars
  BY <1>8 DEF Typed, ExecutionTypeOK, StepFitsKind, allVars, vars, executionVars, storeVars, cacheVars
<1> QED
  BY <1>1, <1>2, <1>3, <1>4, <1>5, <1>6, <1>7, <1>8 DEF ExecutionNext

LEMMA TypedHolds == ExecutionSpec => []Typed
<1>1. ExecutionInit => Typed
  <2> SUFFICES ASSUME ExecutionInit PROVE StepFitsKind
    BY TypedInit DEF Typed
  <2> QED
    BY DEF ExecutionInit, StepFitsKind
<1> QED
  BY <1>1, TypedStep, PTL DEF ExecutionSpec

\* Every execution is at a step of the code, and a job is at a step exactly while a
\* worker holds it.
THEOREM ExecutionTypesHold == ExecutionSpec => []ExecutionTypeOK
<1>1. Typed => ExecutionTypeOK
  BY DEF Typed
<1> QED
  BY <1>1, TypedHolds, PTL

-----------------------------------------------------------------------------
(***************************************************************************)
(* A job is in one place, and is executed at most once, also across crashes. *)
(***************************************************************************)

\* A job is blocked in its caller, in the channel or with a worker; one that was not
\* requested is in none of them.  It is in the channel once.
Placed ==
    /\ \A j \in Job : creator[j] = "new" => j \notin waiting \cup Queued \cup running
    /\ waiting \cap Queued = {} /\ waiting \cap running = {} /\ Queued \cap running = {}
    /\ \A i, k \in DOMAIN queue : queue[i] = queue[k] => i = k

\* Pushing a job to the channel.
LEMMA AppendQueued ==
  ASSUME queue \in Seq(Job), NEW j \in Job, queue' = Append(queue, j), j \notin Queued,
         \A i, k \in DOMAIN queue : queue[i] = queue[k] => i = k
  PROVE  /\ Queued' = Queued \cup {j}
         /\ \A i, k \in DOMAIN queue' : queue'[i] = queue'[k] => i = k
<1>1. DOMAIN queue' = 1..(Len(queue) + 1) /\ DOMAIN queue = 1..Len(queue) /\ Len(queue) \in Nat
  OBVIOUS
<1>2. \A i \in DOMAIN queue' : queue'[i] = IF i = Len(queue) + 1 THEN j ELSE queue[i]
  BY <1>1
<1> QED
  BY <1>1, <1>2 DEF Queued

\* Receiving the first job of the channel.
LEMMA TailQueued ==
  ASSUME queue \in Seq(Job), queue # <<>>, queue' = Tail(queue),
         \A i, k \in DOMAIN queue : queue[i] = queue[k] => i = k
  PROVE  /\ Head(queue) \in Queued
         /\ Queued' = Queued \ {Head(queue)}
         /\ \A i, k \in DOMAIN queue' : queue'[i] = queue'[k] => i = k
<1>1. DOMAIN queue = 1..Len(queue) /\ Len(queue) \in Nat \ {0} /\ Head(queue) = queue[1]
  OBVIOUS
<1>2. DOMAIN queue' = 1..(Len(queue) - 1)
  BY <1>1
<1>3. \A i \in DOMAIN queue' : queue'[i] = queue[i + 1]
  BY <1>1, <1>2
<1>4. \A i \in DOMAIN queue : i = 1 \/ i - 1 \in DOMAIN queue'
  BY <1>1, <1>2
<1>5. \A i \in DOMAIN queue \ {1} : queue'[i - 1] = queue[i]
  BY <1>1, <1>2, <1>3
<1>6. Queued' \subseteq Queued \ {Head(queue)}
  BY <1>1, <1>2, <1>3 DEF Queued
<1>7. Queued \ {Head(queue)} \subseteq Queued'
  <2> SUFFICES ASSUME NEW i \in DOMAIN queue, queue[i] # Head(queue) PROVE queue[i] \in Queued'
    BY DEF Queued
  <2>1. i # 1
    BY <1>1
  <2>2. i - 1 \in DOMAIN queue' /\ queue'[i - 1] = queue[i]
    BY <1>4, <1>5, <2>1
  <2> QED
    BY <2>2 DEF Queued
<1>8. \A i, k \in DOMAIN queue' : queue'[i] = queue'[k] => i = k
  BY <1>1, <1>2, <1>3
<1>9. Head(queue) \in Queued
  BY <1>1 DEF Queued
<1> QED
  BY <1>6, <1>7, <1>8, <1>9

\* An execution keeps its worker until it ends, and touches the pool in no other way.
LEMMA ExecutionKeepsPool ==
  ASSUME NEW j \in Job, ExecuteJob(j)
  PROVE  /\ UNCHANGED <<waiting, queue, creator>>
         /\ running' = running \/ running' = running \ {j}
         /\ step[j] # "none"
  BY DEF ExecuteJob, SaveRunning, IngestDocument, ProcessRequest, Embed, CheckCache, Search,
         Generate, ValidateChat, PushExchange, FinishJob, Complete, vars

\* A job moves from its caller to the channel to a worker, and a crash takes it nowhere.
LEMMA PlacedStep ==
  ASSUME Typed, Placed, [ExecutionNext]_allVars
  PROVE  Placed'
<1> USE DEF Placed
<1>0. queue \in Seq(Job) /\ creator \in [Job -> {"new", "pushing", "clearing", "seeding", "returned", "lost"}]
  BY DEF Typed, ExecutionTypeOK
<1>1. ASSUME NEW j \in Job, CreateJob(j) PROVE Placed'
  BY <1>0, <1>1 DEF CreateJob, Request, Queued
<1>2. ASSUME NEW j \in Job, PushJob(j) PROVE Placed'
  <2>1. j \in waiting /\ j \notin Queued /\ creator[j] # "new"
    BY <1>2 DEF PushJob, Enqueue
  <2>2. /\ Queued' = Queued \cup {j}
        /\ \A i, k \in DOMAIN queue' : queue'[i] = queue'[k] => i = k
    BY <1>0, <1>2, <2>1, AppendQueued DEF PushJob, Enqueue
  <2>3. \A k \in Job : creator'[k] = "new" => creator[k] = "new" /\ k # j
    BY <1>0, <1>2, <2>1 DEF PushJob
  <2>4. waiting' = waiting \ {j} /\ running' = running
    BY <1>2 DEF PushJob, Enqueue
  <2> QED
    BY <2>1, <2>2, <2>3, <2>4
<1>3. ASSUME NEW j \in NewChatJob, ClearChat(j) \/ SeedChat(j) PROVE Placed'
  <2>1. \A k \in Job : creator'[k] = "new" => creator[k] = "new"
    BY <1>0, <1>3 DEF ClearChat, SeedChat
  <2> QED
    BY <1>3, <2>1 DEF ClearChat, SeedChat, vars, Queued
<1>4. CASE StartJob
  <2>1. /\ Head(queue) \in Queued
        /\ Queued' = Queued \ {Head(queue)}
        /\ \A i, k \in DOMAIN queue' : queue'[i] = queue'[k] => i = k
    BY <1>0, <1>4, TailQueued DEF StartJob, Start
  <2>2. running' = running \cup {Head(queue)} /\ waiting' = waiting /\ creator' = creator
    BY <1>4 DEF StartJob, Start
  <2> QED
    BY <2>1, <2>2
<1>5. ASSUME NEW j \in Job, ExecuteJob(j) PROVE Placed'
  BY <1>5, ExecutionKeepsPool DEF Queued
<1>6. ASSUME NEW j \in QueryJob, SaveToCache(j) PROVE Placed'
  BY <1>6 DEF SaveToCache, vars, Queued
<1>7. ASSUME NEW j \in Job, ExpireJob(j) PROVE Placed'
  BY <1>7 DEF ExpireJob, vars, Queued
<1>8. CASE Crash
  <2>1. queue' = <<>> /\ Queued' = {}
    BY <1>8 DEF Crash, Queued
  <2> QED
    BY <1>8, <2>1 DEF Crash
<1>9. CASE UNCHANGED allVars
  BY <1>9 DEF allVars, vars, Queued
<1> QED
  BY <1>1, <1>2, <1>3, <1>4, <1>5, <1>6, <1>7, <1>8, <1>9 DEF ExecutionNext

LEMMA PlacedHolds == ExecutionSpec => []Placed
<1>1. ExecutionInit => Placed
  BY DEF ExecutionInit, Init, Placed, Queued
<1> QED
  BY <1>1, PlacedStep, TypedHolds, PTL DEF ExecutionSpec

-----------------------------------------------------------------------------
(***************************************************************************)
(* What a client polls                                                      *)
(***************************************************************************)

\* Until its execution saves a status nothing is known of a job, and while it is
\* executed the status is not final.  This is what makes the next write of the
\* worker a step forward.
Ahead ==
    /\ \A j \in Job :
          creator[j] = "new" \/ j \in waiting \cup Queued \/ step[j] = "starting"
             => Polled(j) = "unknown"
    /\ \A j \in running : Polled(j) \notin {"COMPLETE", "Error"}

\* The job store is written by executions only, and an execution writes its own record.
LEMMA SaveJobWrites ==
  ASSUME Typed, NEW j \in Job, NEW s \in Status, SaveJob(j, s)
  PROVE  /\ \A k \in Job \ {j} : jobStore'[k] = jobStore[k]
         /\ \/ jobStore'[j] = jobStore[j]
            \/ jobStore'[j].status = s /\ jobStore'[j].answer = answer[j]
  BY DEF SaveJob, Typed, ExecutionTypeOK

\* Only an execution writes a status, and it leaves its job or its worker behind with it.
LEMMA AheadStep ==
  ASSUME Typed, Placed, Ahead, [ExecutionNext]_allVars
  PROVE  Ahead'
<1> USE DEF Ahead, Polled
<1>0. /\ queue \in Seq(Job)
      /\ step \in [Job -> Step]
      /\ creator \in [Job -> {"new", "pushing", "clearing", "seeding", "returned", "lost"}]
      /\ running \subseteq Job
      /\ \A j \in Job : step[j] # "none" <=> j \in running
  BY DEF Typed, ExecutionTypeOK
<1>1. ASSUME NEW j \in Job, CreateJob(j) PROVE Ahead'
  BY <1>0, <1>1 DEF CreateJob, Request, Queued, executionVars, storeVars
<1>2. ASSUME NEW j \in Job, PushJob(j) PROVE Ahead'
  <2>1. j \in waiting /\ j \notin Queued /\ waiting' \subseteq waiting
    BY <1>2 DEF PushJob, Enqueue, Placed
  <2>2. Queued' = Queued \cup {j}
    BY <1>0, <1>2, <2>1, AppendQueued DEF PushJob, Enqueue, Placed
  <2>3. \A k \in Job : creator'[k] = "new" => creator[k] = "new"
    BY <1>0, <1>2 DEF PushJob
  <2>4. UNCHANGED <<running, step, jobStore>>
    BY <1>2 DEF PushJob, Enqueue, executionVars, storeVars
  <2> QED
    BY <2>1, <2>2, <2>3, <2>4
<1>3. ASSUME NEW j \in NewChatJob, ClearChat(j) \/ SeedChat(j) PROVE Ahead'
  <2>1. \A k \in Job : creator'[k] = "new" => creator[k] = "new"
    BY <1>0, <1>3 DEF ClearChat, SeedChat
  <2> QED
    BY <1>3, <2>1 DEF ClearChat, SeedChat, vars, executionVars, Queued
<1>4. CASE StartJob
  <2>1. Head(queue) \in Queued /\ Queued' = Queued \ {Head(queue)}
    BY <1>0, <1>4, TailQueued DEF StartJob, Start, Placed
  <2>2. Head(queue) \in Job
    BY <1>0, <1>4 DEF StartJob, Start
  <2>3. Polled(Head(queue)) = "unknown"
    BY <2>1, <2>2
  <2>4. /\ running' = running \cup {Head(queue)}
        /\ UNCHANGED <<waiting, creator, jobStore>>
    BY <1>4 DEF StartJob, Start, storeVars
  <2>5. \A k \in Job : step'[k] = "starting" => step[k] = "starting" \/ k = Head(queue)
    BY <1>0, <1>4 DEF StartJob, GoTo
  <2> QED
    BY <2>1, <2>2, <2>3, <2>4, <2>5
<1>5. ASSUME NEW j \in Job, ExecuteJob(j) PROVE Ahead'
  <2>1. /\ UNCHANGED <<waiting, Queued, creator>>
        /\ running' \subseteq running
        /\ j \in running /\ j \notin waiting \cup Queued /\ creator[j] # "new"
    BY <1>0, <1>5, ExecutionKeepsPool DEF Queued, Placed
  <2>2. step'[j] # "starting" /\ \A k \in Job \ {j} : step'[k] = step[k]
    <3>1. \E s \in Step \ {"starting"} : GoTo(j, s)
      BY <1>5 DEF ExecuteJob, SaveRunning, IngestDocument, ProcessRequest, Embed, CheckCache,
                  Search, Generate, ContinueRag, FailRag, AnswerWith, ValidateChat,
                  PushExchange, FinishJob, Step
    <3> QED
      BY <1>0, <3>1 DEF GoTo
  <2>3. CASE jobStore' = jobStore
    BY <2>1, <2>2, <2>3
  <2>4. CASE SaveRunning(j)
    <3>1. /\ \A k \in Job \ {j} : jobStore'[k] = jobStore[k]
          /\ jobStore'[j] = jobStore[j] \/ jobStore'[j].status = "RUNNING"
      BY <2>4, SaveJobWrites DEF SaveRunning, Status
    <3> QED
      BY <1>0, <2>1, <2>2, <3>1
  <2>5. CASE FinishJob(j)
    <3>1. \A k \in Job \ {j} : jobStore'[k] = jobStore[k]
      BY <2>5, SaveJobWrites DEF FinishJob, FinalStatus, Status
    <3>2. running' = running \ {j}
      BY <2>5 DEF FinishJob, Complete
    <3> QED
      BY <1>0, <2>1, <2>2, <3>1, <3>2
  <2> QED
    BY <1>5, <2>3, <2>4, <2>5
       DEF ExecuteJob, IngestDocument, ProcessRequest, ValidateChat, PushExchange, storeVars
<1>6. ASSUME NEW j \in QueryJob, SaveToCache(j) PROVE Ahead'
  BY <1>6 DEF SaveToCache, vars, executionVars, storeVars, Queued
<1>7. ASSUME NEW j \in Job, ExpireJob(j) PROVE Ahead'
  BY <1>7 DEF ExpireJob, vars, storeVars, Queued
<1>8. CASE Crash
  <2>1. \A k \in Job : creator'[k] = "new" => creator[k] = "new"
    BY <1>0, <1>8 DEF Crash
  <2>2. waiting' \cup Queued' = {} /\ running' = {} /\ \A k \in Job : step'[k] = "none"
    BY <1>8 DEF Crash, Queued
  <2> QED
    BY <1>8, <2>1, <2>2 DEF Crash, storeVars
<1>9. CASE UNCHANGED allVars
  BY <1>9 DEF allVars, vars, executionVars, storeVars, Queued
<1> QED
  BY <1>1, <1>2, <1>3, <1>4, <1>5, <1>6, <1>7, <1>8, <1>9 DEF ExecutionNext

LEMMA AheadHolds == ExecutionSpec => []Ahead
<1>1. ExecutionInit => Ahead
  BY DEF ExecutionInit, Init, Ahead, Queued, Polled, Absent
<1> QED
  BY <1>1, AheadStep, PlacedHolds, TypedHolds, PTL DEF ExecutionSpec

\* A step leaves what clients poll alone, or moves the status of one job forward.
LEMMA StatusStep ==
  ASSUME Typed, Placed, Ahead, [ExecutionNext]_allVars
  PROVE  ClientView!Next \/ UNCHANGED [j \in Job |-> Polled(j)]
<1>1. ASSUME NEW j \in Job, SaveRunning(j)
      PROVE  ClientView!Next \/ UNCHANGED [k \in Job |-> Polled(k)]
  <2>1. /\ \A k \in Job \ {j} : jobStore'[k] = jobStore[k]
        /\ jobStore'[j] = jobStore[j] \/ jobStore'[j].status = "RUNNING"
    BY <1>1, SaveJobWrites DEF SaveRunning, Status
  <2>2. Polled(j) = "unknown"
    BY <1>1 DEF Ahead, SaveRunning
  <2>3. CASE jobStore'[j] = jobStore[j]
    BY <2>1, <2>3 DEF Polled
  <2>4. CASE jobStore'[j].status = "RUNNING"
    <3>1. ClientView!Run(j)
      BY <2>1, <2>2, <2>4 DEF ClientView!Run, Polled
    <3> QED
      BY <3>1 DEF ClientView!Next
  <2> QED
    BY <2>1, <2>3, <2>4
<1>2. ASSUME NEW j \in Job, FinishJob(j)
      PROVE  ClientView!Next \/ UNCHANGED [k \in Job |-> Polled(k)]
  <2>1. PICK s \in {"COMPLETE", "Error"} : SaveJob(j, s)
    BY <1>2 DEF FinishJob, FinalStatus
  <2>2. /\ \A k \in Job \ {j} : jobStore'[k] = jobStore[k]
        /\ jobStore'[j] = jobStore[j] \/ jobStore'[j].status = s
    BY <2>1, SaveJobWrites DEF Status
  <2>3. Polled(j) \notin {"COMPLETE", "Error"}
    BY <1>2 DEF Ahead, FinishJob, Complete
  <2>4. CASE jobStore'[j] = jobStore[j]
    BY <2>2, <2>4 DEF Polled
  <2>5. CASE jobStore'[j].status = s
    <3>1. ClientView!End(j)
      BY <2>2, <2>3, <2>5 DEF ClientView!End, ClientView!Final, Polled
    <3> QED
      BY <3>1 DEF ClientView!Next
  <2> QED
    BY <2>2, <2>4, <2>5
<1>3. CASE UNCHANGED jobStore
  BY <1>3 DEF Polled
<1> QED
  BY <1>1, <1>2, <1>3
     DEF ExecutionNext, CreateJob, PushJob, ClearChat, SeedChat, StartJob, ExecuteJob,
         IngestDocument, ProcessRequest, ValidateChat, PushExchange, SaveToCache, ExpireJob,
         Crash, allVars, storeVars

\* For every number of jobs, workers and crashes, and whatever writes are lost, the
\* status that clients poll goes from unknown to RUNNING to COMPLETE or Error, never back.
THEOREM StatusOnlyMovesForward == ExecutionSpec => ImplementsJobStatus
<1>1. ExecutionInit => ClientView!Init
  BY DEF ExecutionInit, ClientView!Init, Polled, Absent
<1>2. Typed /\ Placed /\ Ahead /\ [ExecutionNext]_allVars
        => [ClientView!Next]_([j \in Job |-> Polled(j)])
  BY StatusStep
<1> QED
  BY <1>1, <1>2, TypedHolds, PlacedHolds, AheadHolds, PTL
     DEF ExecutionSpec, ImplementsJobStatus, ClientView!Spec

-----------------------------------------------------------------------------
(***************************************************************************)
(* Answers                                                                  *)
(***************************************************************************)

\* Answer a may be given to query j: it is to its question, and an MCP job gets
\* none but its own.
Fits(j, a) ==
    /\ a \in QueryJob
    /\ QuestionOf[a] = QuestionOf[j]
    /\ j \in McpJob => a = j

\* Once a query has passed generation it carries an answer that fits or is an error,
\* and so does a record that says COMPLETE.
Answered ==
    \A j \in QueryJob :
        /\ step[j] = "cacheCheck" => LooksAtCache(j)
        /\ step[j] \in {"savingChat", "pushingChat"} => Fits(j, answer[j])
        /\ step[j] = "saving" => result[j] = "Error" \/ Fits(j, answer[j])
        /\ Polled(j) = "COMPLETE" => Fits(j, jobStore[j].answer)

\* Answered says nothing of a job at a step without an answer, and is otherwise about
\* four variables.
LEMMA AnsweredKept ==
  ASSUME Typed, Answered, UNCHANGED <<answer, result, jobStore>>,
         \A k \in QueryJob : step'[k] = step[k] \/ step'[k] \in {"none", "starting"}
  PROVE  Answered'
  BY DEF Answered, Fits, Polled, LooksAtCache

\* An execution takes its answer from its own LLM call or from a query like its own.
LEMMA AnsweredExecution ==
  ASSUME Typed, Answered, NEW j \in Job, ExecuteJob(j)
  PROVE  Answered'
<1>0. /\ step \in [Job -> Step]
      /\ result \in [Job -> {"QUEUED", "COMPLETE", "Error"}]
      /\ answer \in [Job -> QueryJob \cup {NoAnswer}]
      /\ jobStore \in [Job -> Record]
      /\ QueryJob \subseteq Job
  BY DEF Typed, ExecutionTypeOK, QueryJob
<1>1. CASE SaveRunning(j)
  <2>1. \A k \in QueryJob : Polled(k)' = "COMPLETE" => jobStore'[k] = jobStore[k]
    BY <1>0, <1>1, SaveJobWrites DEF SaveRunning, Status, Polled
  <2>2. step' = [step EXCEPT ![j] = IF j \in IngestJob THEN "ingesting" ELSE "embedding"]
    BY <1>1 DEF SaveRunning, GoTo
  <2>3. UNCHANGED <<result, answer>>
    BY <1>1 DEF SaveRunning
  <2> QED
    BY <1>0, <2>1, <2>2, <2>3 DEF Answered, Fits, Polled, LooksAtCache
<1>2. CASE IngestDocument(j)
  <2>1. j \notin QueryJob
    BY <1>2 DEF Typed, StepFitsKind, QueryJob, IngestDocument
  <2> QED
    BY <1>0, <1>2, <2>1 
       DEF IngestDocument, GoTo, storeVars, Answered, Fits, Polled, LooksAtCache
<1>3. CASE ProcessRequest(j)
  <2>1. j \in QueryJob
    BY <1>3 DEF Typed, StepFitsKind, Step, ProcessRequest, Embed, CheckCache, Search, Generate
  <2>2. jobStore' = jobStore
    BY <1>3 DEF ProcessRequest, storeVars
  <2>3. CASE FailRag(j)
    BY <1>0, <2>1, <2>2, <2>3 DEF Answered, Fits, Polled, LooksAtCache, FailRag, GoTo
  <2>4. ASSUME NEW s \in {"cacheCheck", "searching", "generating"}, GoTo(j, s),
               s = "cacheCheck" => LooksAtCache(j), UNCHANGED <<result, answer>>
        PROVE  Answered'
    BY <1>0, <2>1, <2>2, <2>4 DEF Answered, Fits, Polled, LooksAtCache, GoTo
  <2>5. ASSUME NEW a, Fits(j, a), AnswerWith(j, a)
        PROVE  Answered'
    BY <1>0, <2>1, <2>2, <2>5 DEF Answered, Fits, Polled, LooksAtCache, GoTo, AnswerWith
  <2>6. CASE Embed(j)
    BY <2>3, <2>4, <2>6 DEF Embed, ContinueRag
  <2>7. CASE CheckCache(j)
    <3>1. ASSUME NEW a \in SimilarInCache(j) PROVE Fits(j, a)
      BY <2>1, <2>7, <3>1
         DEF CheckCache, Answered, Fits, SimilarInCache, LooksAtCache, Typed, ExecutionTypeOK
    <3> QED
      BY <2>4, <2>5, <2>7, <3>1 DEF CheckCache
  <2>8. CASE Search(j)
    BY <2>3, <2>4, <2>8 DEF Search, ContinueRag
  <2>9. CASE Generate(j)
    <3>1. Fits(j, j)
      BY <2>1 DEF Fits
    <3> QED
      BY <2>3, <2>5, <2>9, <3>1 DEF Generate
  <2> QED
    BY <1>3, <2>6, <2>7, <2>8, <2>9 DEF ProcessRequest
<1>4. CASE ValidateChat(j) \/ PushExchange(j)
  <2>1. UNCHANGED <<answer, result, jobStore>>
    BY <1>4 DEF ValidateChat, PushExchange, storeVars
  <2>2. j \in QueryJob /\ Fits(j, answer[j])
    BY <1>4 DEF Typed, StepFitsKind, Step, Answered, ValidateChat, PushExchange
  <2>3. GoTo(j, "pushingChat") \/ GoTo(j, "saving")
    BY <1>4 DEF ValidateChat, PushExchange
  <2> QED
    BY <1>0, <2>1, <2>2, <2>3 DEF Answered, Fits, Polled, LooksAtCache, GoTo
<1>5. CASE FinishJob(j)
  <2>1. /\ \A k \in Job \ {j} : jobStore'[k] = jobStore[k]
        /\ \/ jobStore'[j] = jobStore[j]
           \/ jobStore'[j].status = FinalStatus(j) /\ jobStore'[j].answer = answer[j]
    BY <1>5, SaveJobWrites DEF FinishJob, FinalStatus, Status
  <2>2. \A k \in Job \ {j} : step'[k] = step[k] /\ result'[k] = result[k]
    BY <1>0, <1>5 DEF FinishJob, GoTo
  <2>3. step'[j] = "none" /\ step[j] = "saving" /\ answer' = answer
    BY <1>0, <1>5 DEF FinishJob, GoTo
  <2>4. ASSUME NEW k \in QueryJob, Polled(k)' = "COMPLETE" PROVE Fits(k, jobStore'[k].answer)
    BY <1>0, <2>1, <2>3, <2>4 DEF Answered, Polled, FinalStatus, Fits
  <2> QED
    BY <1>0, <2>2, <2>3, <2>4 DEF Answered, Fits, LooksAtCache
<1> QED
  BY <1>1, <1>2, <1>3, <1>4, <1>5 DEF ExecuteJob

\* The other steps touch neither answers nor records, and lead to no step with an answer.
LEMMA AnsweredStep ==
  ASSUME Typed, Answered, [ExecutionNext]_allVars
  PROVE  Answered'
<1>1. ASSUME NEW j \in Job, ExecuteJob(j) PROVE Answered'
  BY <1>1, AnsweredExecution
<1>2. CASE StartJob
  <2>1. \A k \in QueryJob : step'[k] = step[k] \/ step'[k] = "starting"
    BY <1>2 DEF Typed, ExecutionTypeOK, QueryJob, StartJob, GoTo
  <2> QED
    BY <1>2, <2>1, AnsweredKept DEF StartJob, storeVars
<1>3. CASE Crash
  <2>1. \A k \in QueryJob : step'[k] = "none"
    BY <1>3 DEF Crash, QueryJob
  <2> QED
    BY <1>3, <2>1, AnsweredKept DEF Crash, storeVars
<1>4. CASE UNCHANGED <<step, answer, result, jobStore>>
  BY <1>4, AnsweredKept
<1> QED
  BY <1>1, <1>2, <1>3, <1>4
     DEF ExecutionNext, CreateJob, PushJob, ClearChat, SeedChat, SaveToCache, ExpireJob,
         allVars, executionVars, storeVars

LEMMA AnsweredHolds == ExecutionSpec => []Answered
<1>1. ExecutionInit => Answered
  BY DEF ExecutionInit, Answered, Polled, Absent, QueryJob
<1> QED
  BY <1>1, AnsweredStep, TypedHolds, PTL DEF ExecutionSpec

\* Whatever executions, cache writes and crashes interleave, a query that is COMPLETE
\* has an answer to its own question, and an MCP job one of its own LLM call.
THEOREM AnswersFitQuestions == ExecutionSpec => []AnswerIsToTheQuestion
<1>1. Answered => AnswerIsToTheQuestion
  BY JobKindAssumption DEF Answered, Fits, AnswerIsToTheQuestion, QueryJob
<1> QED
  BY <1>1, AnsweredHolds, PTL

-----------------------------------------------------------------------------
(***************************************************************************)
(* The message store: a chat stays well formed, and a follow-up that is     *)
(* COMPLETE is in it.                                                       *)
(*                                                                          *)
(* The argument: an exchange is pushed by the one execution its job ever    *)
(* has, when the job has an answer and is no error, and after that step     *)
(* neither the answer nor the outcome of the job changes; and a chat is     *)
(* cleared and seeded only by the caller that opens it, before any job can  *)
(* find it.                                                                 *)
(***************************************************************************)

\* No worker has received the job yet, and one still may.
NotStarted(j) == creator[j] = "new" \/ j \in waiting \cup Queued

\* A job becomes an error only by a step after which its outcome is saved.
Results ==
    \A j \in Job :
        NotStarted(j) \/ step[j] \in Step \ {"none", "saving"} => result[j] # "Error"

\* A job that is past its exchange, with its answer.
Settled(j) ==
    /\ ~NotStarted(j)
    /\ step[j] \in {"none", "saving"}
    /\ answer[j] # NoAnswer
    /\ result[j] # "Error"

\* The types these proofs use.
LEMMA ExecutionTypes ==
  ASSUME Typed
  PROVE  /\ queue \in Seq(Job)
         /\ creator \in [Job -> {"new", "pushing", "clearing", "seeding", "returned", "lost"}]
         /\ step \in [Job -> Step]
         /\ result \in [Job -> {"QUEUED", "COMPLETE", "Error"}]
         /\ answer \in [Job -> QueryJob \cup {NoAnswer}]
         /\ chats \in [Chat -> Seq(QueryJob \cup {Seed})]
         /\ \A j \in Job : step[j] # "none" <=> j \in running
         /\ QueryJob \subseteq Job
  BY DEF Typed, ExecutionTypeOK, QueryJob

\* A job that was started does not come back to its caller or to the channel.
LEMMA StartedForGood ==
  ASSUME Typed, Placed, [ExecutionNext]_allVars, NEW j \in Job, ~NotStarted(j)
  PROVE  ~NotStarted(j)'
<1>0. /\ queue \in Seq(Job)
      /\ creator \in [Job -> {"new", "pushing", "clearing", "seeding", "returned", "lost"}]
  BY ExecutionTypes
<1>1. ASSUME NEW k \in Job, CreateJob(k) PROVE ~NotStarted(j)'
  BY <1>0, <1>1 DEF NotStarted, CreateJob, Request, Queued
<1>2. ASSUME NEW k \in Job, PushJob(k) PROVE ~NotStarted(j)'
  <2>1. k \in waiting /\ waiting' \subseteq waiting /\ Queued' = Queued \cup {k}
    BY <1>0, <1>2, AppendQueued DEF PushJob, Enqueue, Placed
  <2>2. creator'[j] = creator[j] \/ creator'[j] # "new"
    BY <1>0, <1>2 DEF PushJob
  <2> QED
    BY <2>1, <2>2 DEF NotStarted
<1>3. ASSUME NEW k \in NewChatJob, ClearChat(k) \/ SeedChat(k) PROVE ~NotStarted(j)'
  <2>1. creator'[j] = creator[j] \/ creator'[j] # "new"
    BY <1>0, <1>3 DEF ClearChat, SeedChat
  <2> QED
    BY <1>3, <2>1 DEF NotStarted, ClearChat, SeedChat, vars, Queued
<1>4. CASE StartJob
  <2>1. Queued' \subseteq Queued
    BY <1>0, <1>4, TailQueued DEF StartJob, Start, Placed
  <2> QED
    BY <1>4, <2>1 DEF NotStarted, StartJob, Start
<1>5. ASSUME NEW k \in Job, ExecuteJob(k) PROVE ~NotStarted(j)'
  BY <1>5, ExecutionKeepsPool DEF NotStarted, Queued
<1>6. CASE Crash
  <2>1. creator'[j] # "new" /\ waiting' = {} /\ Queued' = {}
    BY <1>0, <1>6 DEF Crash, NotStarted, Queued
  <2> QED
    BY <2>1 DEF NotStarted
<1>7. CASE UNCHANGED <<vars, creator>>
  BY <1>7 DEF NotStarted, vars, Queued
<1> QED
  BY <1>1, <1>2, <1>3, <1>4, <1>5, <1>6, <1>7
     DEF ExecutionNext, SaveToCache, ExpireJob, allVars

\* A step of an execution is about its own job.
LEMMA ExecutionIsLocal ==
  ASSUME Typed, NEW j \in Job, ExecuteJob(j)
  PROVE  \A k \in Job \ {j} : /\ step'[k] = step[k]
                              /\ result'[k] = result[k]
                              /\ answer'[k] = answer[k]
  BY ExecutionTypes
     DEF ExecuteJob, SaveRunning, IngestDocument, ProcessRequest, Embed, CheckCache, Search,
         Generate, ContinueRag, FailRag, AnswerWith, ValidateChat, PushExchange, FinishJob, GoTo

\* An execution becomes an error by the step that leads to saving its outcome.
LEMMA ResultsStep ==
  ASSUME Typed, Placed, Results, [ExecutionNext]_allVars
  PROVE  Results'
<1>0. /\ step \in [Job -> Step] /\ result \in [Job -> {"QUEUED", "COMPLETE", "Error"}]
      /\ \A j \in Job : step[j] # "none" <=> j \in running
  BY ExecutionTypes
<1>1. \A j \in Job : NotStarted(j)' => NotStarted(j)
  BY StartedForGood
<1>2. ASSUME NEW j \in Job, ExecuteJob(j) PROVE Results'
  <2>1. ~NotStarted(j)
    BY <1>0, <1>2, ExecutionKeepsPool DEF NotStarted, Placed
  <2>2. step'[j] \in {"none", "saving"} \/ (step[j] \notin {"none", "saving"} /\ result' = result)
    BY <1>0, <1>2
       DEF ExecuteJob, SaveRunning, IngestDocument, ProcessRequest, Embed, CheckCache, Search,
           Generate, ContinueRag, FailRag, AnswerWith, ValidateChat, PushExchange, FinishJob, GoTo
  <2> QED
    BY <1>0, <1>1, <1>2, <2>1, <2>2, ExecutionIsLocal DEF Results
<1>3. CASE StartJob
  <2>1. Head(queue) \in Queued /\ Head(queue) \in Job
    BY <1>3, TailQueued, ExecutionTypes DEF StartJob, Start, Placed
  <2>2. \A k \in Job \ {Head(queue)} : step'[k] = step[k]
    BY <1>0, <1>3 DEF StartJob, GoTo
  <2> QED
    BY <1>1, <1>3, <2>1, <2>2 DEF Results, NotStarted, StartJob
<1>4. CASE Crash
  BY <1>1, <1>4 DEF Results, Crash
<1>5. CASE UNCHANGED <<step, result>>
  BY <1>1, <1>5 DEF Results
<1> QED
  BY <1>2, <1>3, <1>4, <1>5
     DEF ExecutionNext, CreateJob, PushJob, ClearChat, SeedChat, SaveToCache, ExpireJob,
         allVars, executionVars

LEMMA ResultsHold == ExecutionSpec => []Results
<1>1. ExecutionInit => Results
  BY DEF ExecutionInit, Results
<1> QED
  BY <1>1, ResultsStep, PlacedHolds, TypedHolds, PTL DEF ExecutionSpec

\* The answer and the outcome of a job that is past its exchange do not change.
LEMMA SettledForGood ==
  ASSUME Typed, Placed, [ExecutionNext]_allVars, NEW j \in Job, Settled(j)
  PROVE  Settled(j)'
<1>0. /\ step \in [Job -> Step] /\ result \in [Job -> {"QUEUED", "COMPLETE", "Error"}]
  BY ExecutionTypes
<1>1. ~NotStarted(j)'
  BY StartedForGood DEF Settled
<1>2. ASSUME NEW k \in Job, ExecuteJob(k) PROVE Settled(j)'
  <2>1. CASE k # j
    BY <1>1, <1>2, <2>1, ExecutionIsLocal DEF Settled
  <2>2. CASE k = j
    <3>1. FinishJob(j)
      BY <1>2, <2>2
         DEF Settled, ExecuteJob, SaveRunning, IngestDocument, ProcessRequest, Embed,
             CheckCache, Search, Generate, ValidateChat, PushExchange
    <3> QED
      BY <1>0, <1>1, <3>1 DEF Settled, FinishJob, FinalStatus, GoTo
  <2> QED
    BY <2>1, <2>2
<1>3. CASE StartJob
  <2>1. Head(queue) \in Queued
    BY <1>3, TailQueued, ExecutionTypes DEF StartJob, Start, Placed
  <2>2. step'[j] = step[j]
    BY <1>0, <1>3, <2>1 DEF StartJob, GoTo, Settled, NotStarted
  <2> QED
    BY <1>1, <1>3, <2>2 DEF Settled, StartJob
<1>4. CASE Crash
  BY <1>1, <1>4 DEF Settled, Crash
<1>5. CASE UNCHANGED <<step, result, answer>>
  BY <1>1, <1>5 DEF Settled
<1> QED
  BY <1>2, <1>3, <1>4, <1>5
     DEF ExecutionNext, CreateJob, PushJob, ClearChat, SeedChat, SaveToCache, ExpireJob,
         allVars, executionVars

-----------------------------------------------------------------------------
(***************************************************************************)
(* The message store                                                        *)
(***************************************************************************)

\* A list of exchanges of chat c: the seed first, then settled jobs of that chat.
WellFormed(q, c) ==
    /\ \A i \in DOMAIN q : i = 1 => q[i] = Seed
    /\ \A i \in DOMAIN q :
          i # 1 => q[i] \in QueryJob /\ ChatOf[q[i]] = c /\ Settled(q[i])
    /\ \A i, k \in DOMAIN q : q[i] = q[k] => i = k

\* Until its caller has seeded it a new chat does not exist; from then on it does, and
\* only chats that exist are named by follow-ups and pushed to.
ChatLifeCycle ==
    /\ \A j \in NewChatJob :
          creator[j] \in {"new", "pushing", "clearing", "seeding"} => ~Exists(ChatOf[j])
    /\ \A j \in QueryJob \ NewChatJob : creator[j] # "new" => Exists(ChatOf[j])
    /\ \A j \in QueryJob : step[j] = "pushingChat" => Exists(ChatOf[j])
    /\ \A j \in waiting : creator[j] = "pushing"

Chats ==
    /\ ChatLifeCycle
    /\ \A c \in Chat : WellFormed(chats[c], c)

\* Chats that are not touched stay well formed.
LEMMA WellFormedKept ==
  ASSUME Typed, Placed, [ExecutionNext]_allVars,
         NEW c \in Chat, WellFormed(chats[c], c), chats'[c] = chats[c]
  PROVE  WellFormed(chats[c], c)'
<1>1. \A j \in QueryJob : Settled(j) => Settled(j)'
  BY SettledForGood DEF QueryJob
<1> QED
  BY <1>1 DEF WellFormed

\* The exchange of a job that was not settled yet is new to its chat.
LEMMA ExchangePushed ==
  ASSUME NEW q \in Seq(QueryJob \cup {Seed}), NEW c \in Chat, NEW j \in QueryJob,
         WellFormed(q, c), q # <<>>, ~Settled(j), ChatOf[j] = c,
         \A k \in QueryJob : Settled(k) => Settled(k)', Settled(j)'
  PROVE  LET r == Append(q, j)
         IN  /\ \A i \in DOMAIN r : i = 1 => r[i] = Seed
             /\ \A i \in DOMAIN r :
                   i # 1 => r[i] \in QueryJob /\ ChatOf[r[i]] = c /\ Settled(r[i])'
             /\ \A i, k \in DOMAIN r : r[i] = r[k] => i = k
<1> DEFINE r == Append(q, j)
<1>1. DOMAIN r = 1..(Len(q) + 1) /\ DOMAIN q = 1..Len(q) /\ Len(q) \in Nat \ {0}
  OBVIOUS
<1>2. \A i \in DOMAIN r : r[i] = IF i = Len(q) + 1 THEN j ELSE q[i]
  BY <1>1
<1>3. \A i \in DOMAIN q : q[i] # j
  BY JobKindAssumption DEF WellFormed, QueryJob
<1> HIDE DEF r
<1>4. \A i \in DOMAIN r : i = 1 => r[i] = Seed
  BY <1>1, <1>2 DEF WellFormed
<1>5. \A i \in DOMAIN r : i # 1 => r[i] \in QueryJob /\ ChatOf[r[i]] = c
  BY <1>1, <1>2 DEF WellFormed
<1>6. \A i \in DOMAIN r : i # 1 => r[i] = j \/ (r[i] \in QueryJob /\ Settled(r[i]))
  BY <1>1, <1>2 DEF WellFormed
<1>7. \A i \in DOMAIN r : i # 1 => Settled(r[i])'
  BY <1>6
<1>8. \A i, k \in DOMAIN r : r[i] = r[k] => i = k
  BY <1>1, <1>2, <1>3 DEF WellFormed
<1> QED
  BY <1>4, <1>5, <1>7, <1>8 DEF r

\* The life cycle looks at chats only through whether they exist.
LEMMA LifeCycleOfCaller ==
  ASSUME Typed, Chats, UNCHANGED <<step, chats>>, NEW j \in Job, CreateJob(j) \/ PushJob(j)
  PROVE  ChatLifeCycle'
<1>0. /\ creator \in [Job -> {"new", "pushing", "clearing", "seeding", "returned", "lost"}]
      /\ QueryJob \subseteq Job /\ NewChatJob \subseteq QueryJob
  BY ExecutionTypes, JobKindAssumption
<1>1. CASE CreateJob(j)
  BY <1>0, <1>1 DEF Chats, ChatLifeCycle, CreateJob, ChatIsValid, Request, Exists
<1>2. CASE PushJob(j)
  BY <1>0, <1>2 DEF Chats, ChatLifeCycle, PushJob, Enqueue, Exists
<1> QED
  BY <1>1, <1>2

\* An execution pushes to a chat that exists, when it has an answer and before it is settled.
LEMMA ChatsExecution ==
  ASSUME Typed, Placed, Results, Answered, Chats, [ExecutionNext]_allVars,
         NEW j \in Job, ExecuteJob(j)
  PROVE  Chats'
<1>0. /\ step \in [Job -> Step]
      /\ chats \in [Chat -> Seq(QueryJob \cup {Seed})]
      /\ QueryJob \subseteq Job /\ NewChatJob \subseteq QueryJob
      /\ \A k \in QueryJob : ChatOf[k] \in Chat
  BY ExecutionTypes, JobKindAssumption, ChatOfTyped
<1>1. UNCHANGED <<waiting, creator>>
  BY ExecutionKeepsPool
<1>2. CASE ~PushExchange(j)
  <2>1. chats' = chats
    BY <1>2 DEF ExecuteJob, SaveRunning, IngestDocument, ProcessRequest, ValidateChat, FinishJob,
               storeVars
  <2>2. step'[j] = "pushingChat" => Exists(ChatOf[j])
    BY <1>0, <1>2
       DEF ExecuteJob, SaveRunning, IngestDocument, ProcessRequest, Embed, CheckCache, Search,
           Generate, ContinueRag, FailRag, AnswerWith, ValidateChat, FinishJob, GoTo
  <2>3. ChatLifeCycle'
    BY <1>0, <1>1, <2>1, <2>2, ExecutionIsLocal DEF Chats, ChatLifeCycle, Exists
  <2>4. \A c \in Chat : WellFormed(chats[c], c)'
    BY <2>1, WellFormedKept DEF Chats
  <2> QED
    BY <2>3, <2>4 DEF Chats
<1>3. CASE PushExchange(j)
  <2>1. j \in QueryJob /\ step[j] = "pushingChat"
    BY <1>3 DEF Typed, StepFitsKind, Step, PushExchange
  <2>2. step' = [step EXCEPT ![j] = "saving"] /\ UNCHANGED <<answer, result>>
    BY <1>3 DEF PushExchange, GoTo
  <2> DEFINE c == ChatOf[j]
  <2>3. c \in Chat /\ Exists(c)
    BY <1>0, <2>1 DEF Chats, ChatLifeCycle
  <2>4. /\ \A d \in Chat \ {c} : chats'[d] = chats[d]
        /\ chats'[c] = chats[c] \/ chats'[c] = Append(chats[c], j)
    BY <1>0, <1>3, <2>3 DEF PushExchange
  <2>5. Append(chats[c], j) # <<>>
    <3>1. chats[c] \in Seq(QueryJob \cup {Seed})
      BY <1>0, <2>3
    <3> HIDE DEF c
    <3> QED
      BY <2>1, <3>1
  <2>6. ChatLifeCycle'
    <3>1. \A d \in Chat : (chats'[d] = <<>>) <=> (chats[d] = <<>>)
      BY <2>3, <2>4, <2>5 DEF Exists
    <3> QED
      BY <1>0, <1>1, <2>2, <3>1 DEF Chats, ChatLifeCycle, Exists
  <2>7. Settled(j)'
    <3>1. ~NotStarted(j) /\ result[j] # "Error" /\ answer[j] # NoAnswer
      <4>1. j \in running
        BY <2>1, ExecutionTypes
      <4>2. ~NotStarted(j)
        BY <4>1 DEF Placed, NotStarted
      <4>3. result[j] # "Error"
        BY <2>1 DEF Results, Step, QueryJob
      <4>4. answer[j] # NoAnswer
        BY <2>1, JobKindAssumption DEF Answered, Fits, QueryJob
      <4> QED
        BY <4>2, <4>3, <4>4
    <3>2. ~NotStarted(j)'
      BY <3>1, StartedForGood
    <3>3. step'[j] = "saving"
      BY <1>0, <2>2
    <3> QED
      BY <2>2, <3>1, <3>2, <3>3 DEF Settled
  <2>8. \A k \in QueryJob : Settled(k) => Settled(k)'
    BY SettledForGood DEF QueryJob
  <2>9. ~Settled(j)
    BY <2>1 DEF Settled
  <2>10. ASSUME NEW d \in Chat PROVE WellFormed(chats[d], d)'
    <3>1. CASE chats'[d] = chats[d]
      BY <3>1, WellFormedKept DEF Chats
    <3>2. CASE d = c /\ chats'[c] = Append(chats[c], j)
      <4>1. PICK q \in Seq(QueryJob \cup {Seed}) : q = chats[c]
        BY <1>0, <2>3
      <4>2. WellFormed(q, c) /\ q # <<>>
        BY <2>3, <4>1 DEF Chats, Exists
      <4> DEFINE r == Append(q, j)
      <4>3. /\ \A i \in DOMAIN r : i = 1 => r[i] = Seed
            /\ \A i \in DOMAIN r :
                  i # 1 => r[i] \in QueryJob /\ ChatOf[r[i]] = c /\ Settled(r[i])'
            /\ \A i, k \in DOMAIN r : r[i] = r[k] => i = k
        BY <2>1, <2>3, <2>7, <2>8, <2>9, <4>2, ExchangePushed
      <4>4. chats'[d] = r /\ d = c
        BY <3>2, <4>1
      <4> HIDE DEF r
      <4> QED
        BY <4>3, <4>4 DEF WellFormed
    <3> QED
      BY <2>4, <3>1, <3>2
  <2> QED
    BY <2>6, <2>10 DEF Chats
<1> QED
  BY <1>2, <1>3

\* Callers clear and seed only chats that do not exist yet; nothing else but an execution touches a chat.
LEMMA ChatsStep ==
  ASSUME Typed, Placed, Results, Answered, Chats, [ExecutionNext]_allVars
  PROVE  Chats'
<1>0. /\ step \in [Job -> Step]
      /\ creator \in [Job -> {"new", "pushing", "clearing", "seeding", "returned", "lost"}]
      /\ chats \in [Chat -> Seq(QueryJob \cup {Seed})]
      /\ QueryJob \subseteq Job /\ NewChatJob \subseteq QueryJob
      /\ \A k \in QueryJob : ChatOf[k] \in Chat
  BY ExecutionTypes, JobKindAssumption, ChatOfTyped
<1>1. ASSUME chats' = chats, ChatLifeCycle' PROVE Chats'
  BY <1>1, WellFormedKept DEF Chats
<1>2. ASSUME NEW j \in Job, CreateJob(j) \/ PushJob(j) PROVE Chats'
  BY <1>1, <1>2, LifeCycleOfCaller DEF CreateJob, PushJob, executionVars, storeVars
<1>3. ASSUME NEW j \in NewChatJob, ClearChat(j) PROVE Chats'
  <2>1. chats[ChatOf[j]] = <<>> /\ creator[j] = "clearing"
    BY <1>3 DEF ClearChat, Chats, ChatLifeCycle, Exists
  <2>2. chats' = chats
    BY <1>0, <1>3, <2>1 DEF ClearChat
  <2>3. ChatLifeCycle'
    BY <1>0, <1>3, <2>1, <2>2 DEF ClearChat, Chats, ChatLifeCycle, Exists, vars, executionVars
  <2> QED
    BY <1>1, <2>2, <2>3
<1>4. ASSUME NEW j \in NewChatJob, SeedChat(j) PROVE Chats'
  <2> DEFINE c == ChatOf[j]
  <2>1. c \in Chat /\ chats[c] = <<>> /\ creator[j] = "seeding"
    BY <1>0, <1>4 DEF SeedChat, Chats, ChatLifeCycle, Exists
  <2>2. /\ \A d \in Chat \ {c} : chats'[d] = chats[d]
        /\ chats'[c] = chats[c] \/ chats'[c] = <<Seed>>
    BY <1>0, <1>4, <2>1 DEF SeedChat
  <2>3. ChatLifeCycle'
    <3>1. /\ creator' = [creator EXCEPT ![j] = "returned"]
          /\ UNCHANGED <<waiting, step>>
      BY <1>4 DEF SeedChat, vars, executionVars
    <3>2. \A k \in NewChatJob : ChatOf[k] = c => k = j
      BY JobKindAssumption
    <3>3. \A d \in Chat : chats[d] # <<>> => chats'[d] # <<>>
      BY <2>1, <2>2
    <3>4. ASSUME NEW k \in NewChatJob, creator'[k] \in {"new", "pushing", "clearing", "seeding"}
          PROVE  chats'[ChatOf[k]] = <<>>
      BY <1>0, <2>2, <3>1, <3>2, <3>4 DEF Chats, ChatLifeCycle, Exists
    <3> QED
      BY <1>0, <2>1, <3>1, <3>3, <3>4 DEF Chats, ChatLifeCycle, Exists
  <2>4. ASSUME NEW d \in Chat PROVE WellFormed(chats[d], d)'
    <3>1. CASE chats'[d] = chats[d]
      BY <3>1, WellFormedKept DEF Chats
    <3>2. CASE chats'[d] = <<Seed>>
      <4>1. DOMAIN chats'[d] = {1} /\ chats'[d][1] = Seed
        BY <3>2
      <4> QED
        BY <4>1 DEF WellFormed
    <3> QED
      BY <2>2, <3>1, <3>2
  <2> QED
    BY <2>3, <2>4 DEF Chats
<1>5. CASE StartJob
  <2>1. \A k \in Job : step'[k] = "pushingChat" => step[k] = "pushingChat"
    BY <1>0, <1>5 DEF StartJob, GoTo
  <2>2. UNCHANGED <<waiting, creator, chats>>
    BY <1>5 DEF StartJob, Start, storeVars
  <2> QED
    BY <1>0, <1>1, <2>1, <2>2 DEF Chats, ChatLifeCycle, Exists
<1>6. ASSUME NEW j \in Job, ExecuteJob(j) PROVE Chats'
  BY <1>6, ChatsExecution
<1>7. CASE Crash
  <2>1. ChatLifeCycle'
    BY <1>0, <1>7 DEF Crash, storeVars, Chats, ChatLifeCycle, Exists
  <2> QED
    BY <1>1, <1>7, <2>1 DEF Crash, storeVars
<1>8. CASE UNCHANGED <<waiting, creator, step, chats>>
  BY <1>1, <1>8 DEF Chats, ChatLifeCycle, Exists
<1> QED
  BY <1>2, <1>3, <1>4, <1>5, <1>6, <1>7, <1>8
     DEF ExecutionNext, SaveToCache, ExpireJob, allVars, vars, executionVars, storeVars

LEMMA ChatsHold == ExecutionSpec => []Chats
<1>1. ExecutionInit => Chats
  BY ChatOfTyped, JobKindAssumption
     DEF ExecutionInit, Init, Chats, ChatLifeCycle, WellFormed, Exists, QueryJob
<1> QED
  BY <1>1, ChatsStep, ResultsHold, AnsweredHolds, PlacedHolds, TypedHolds, PTL DEF ExecutionSpec

\* Whatever callers, executions, lost writes and crashes interleave, a chat is its seed
\* followed by answered exchanges of that chat, each once.
THEOREM ChatsStayWellFormed == ExecutionSpec => []ChatWellFormed
<1>1. Typed /\ Chats => ChatWellFormed
  <2> SUFFICES ASSUME Typed, Chats, NEW c \in Chat, Exists(c)
               PROVE  /\ chats[c][1] = Seed
                      /\ \A i \in 2..Len(chats[c]) :
                            /\ chats[c][i] \in QueryJob
                            /\ ChatOf[chats[c][i]] = c
                            /\ answer[chats[c][i]] # NoAnswer /\ result[chats[c][i]] # "Error"
                      /\ \A i, k \in DOMAIN chats[c] : chats[c][i] = chats[c][k] => i = k
    BY DEF ChatWellFormed
  <2>1. chats[c] \in Seq(QueryJob \cup {Seed}) /\ chats[c] # <<>>
    BY ExecutionTypes DEF Exists
  <2>2. DOMAIN chats[c] = 1..Len(chats[c]) /\ Len(chats[c]) \in Nat \ {0}
    BY <2>1
  <2>3. WellFormed(chats[c], c)
    BY DEF Chats
  <2>4. 1 \in DOMAIN chats[c] /\ \A i \in 2..Len(chats[c]) : i \in DOMAIN chats[c] /\ i # 1
    BY <2>2
  <2> QED
    BY <2>3, <2>4 DEF WellFormed, Settled
<1> QED
  BY <1>1, ChatsHold, TypedHolds, PTL

-----------------------------------------------------------------------------
(***************************************************************************)
(* Follow-ups                                                               *)
(***************************************************************************)

\* A query that does not open its chat, when calls to the stores fail only because
\* the context of the execution is over: once its outcome is being saved, on a context
\* that is still live, its exchange is in the chat.
FollowUps ==
    \A j \in QueryJob \ NewChatJob :
        /\ step[j] = "saving" /\ result[j] # "Error" /\ context[j] = "live"
             => j \in Exchanges(ChatOf[j])
        /\ Polled(j) = "COMPLETE" => j \in Exchanges(ChatOf[j])

\* Pushing to a list keeps what is in it and adds one entry.
LEMMA PushedEntries ==
  ASSUME NEW S, NEW q \in Seq(S), NEW x \in S
  PROVE  \A y : (\E i \in DOMAIN Append(q, x) : Append(q, x)[i] = y)
                  <=> (y = x \/ \E i \in DOMAIN q : q[i] = y)
<1> DEFINE r == Append(q, x)
<1>1. DOMAIN r = 1..(Len(q) + 1) /\ DOMAIN q = 1..Len(q) /\ Len(q) \in Nat
  OBVIOUS
<1>2. \A i \in DOMAIN r : r[i] = IF i = Len(q) + 1 THEN x ELSE q[i]
  BY <1>1
<1> HIDE DEF r
<1>3. \A y : (\E i \in DOMAIN r : r[i] = y) <=> (y = x \/ \E i \in DOMAIN q : q[i] = y)
  BY <1>1, <1>2
<1> QED
  BY <1>3 DEF r

\* An execution pushes its own exchange and removes none.
LEMMA PushedExchange ==
  ASSUME Typed, NEW j \in Job, PushExchange(j)
  PROVE  /\ \A c \in Chat : Exchanges(c) \subseteq Exchanges(c)'
         /\ ~StoresMayFail /\ context[j] = "live" => j \in Exchanges(ChatOf[j])'
<1>1. j \in QueryJob /\ ChatOf[j] \in Chat /\ chats \in [Chat -> Seq(QueryJob \cup {Seed})]
  BY ExecutionTypes, ChatOfTyped DEF Typed, StepFitsKind, Step, PushExchange
<1>2. CASE StoreFails(context[j]) /\ UNCHANGED chats
  BY <1>2 DEF Exchanges, StoreFails
<1>3. CASE chats' = [chats EXCEPT ![ChatOf[j]] = Append(@, j)]
  <2>1. PICK q \in Seq(QueryJob \cup {Seed}) : q = chats[ChatOf[j]]
    BY <1>1
  <2> DEFINE r == Append(q, j)
  <2>2. \A y : (\E i \in DOMAIN r : r[i] = y) <=> (y = j \/ \E i \in DOMAIN q : q[i] = y)
    <3> DEFINE S == QueryJob \cup {Seed}
    <3>1. q \in Seq(S) /\ j \in S
      BY <1>1
    <3> HIDE DEF S
    <3> QED
      BY <3>1, PushedEntries
  <2>3. chats'[ChatOf[j]] = r /\ \A c \in Chat \ {ChatOf[j]} : chats'[c] = chats[c]
    BY <1>1, <1>3, <2>1
  <2> HIDE DEF r
  <2>4. Exchanges(ChatOf[j])' = Exchanges(ChatOf[j]) \cup {j}
    <3>1. \A y : y \in Exchanges(ChatOf[j])' <=> \E i \in DOMAIN r : r[i] = y
      BY <2>3 DEF Exchanges
    <3>2. \A y : y \in Exchanges(ChatOf[j]) <=> \E i \in DOMAIN q : q[i] = y
      BY <2>1 DEF Exchanges
    <3> QED
      BY <2>2, <3>1, <3>2
  <2>5. \A c \in Chat \ {ChatOf[j]} : Exchanges(c)' = Exchanges(c)
    BY <2>3 DEF Exchanges
  <2> QED
    BY <2>4, <2>5
<1> QED
  BY <1>2, <1>3 DEF PushExchange

\* No exchange is ever lost.
LEMMA ExchangesStay ==
  ASSUME Typed, Chats, [ExecutionNext]_allVars, NEW c \in Chat
  PROVE  Exchanges(c) \subseteq Exchanges(c)'
<1>0. chats \in [Chat -> Seq(QueryJob \cup {Seed})]
  BY ExecutionTypes
<1>1. ASSUME NEW j \in NewChatJob, ClearChat(j) \/ SeedChat(j)
      PROVE  Exchanges(c) \subseteq Exchanges(c)'
  <2>1. ChatOf[j] \in Chat /\ chats[ChatOf[j]] = <<>>
    BY <1>1, ChatOfTyped, JobKindAssumption
       DEF ClearChat, SeedChat, Chats, ChatLifeCycle, Exists
  <2>2. CASE c = ChatOf[j]
    BY <2>1, <2>2 DEF Exchanges
  <2>3. CASE c # ChatOf[j]
    BY <1>0, <1>1, <2>1, <2>3 DEF ClearChat, SeedChat, Exchanges
  <2> QED
    BY <2>2, <2>3
<1>2. ASSUME NEW j \in Job, PushExchange(j) PROVE Exchanges(c) \subseteq Exchanges(c)'
  BY <1>2, PushedExchange
<1>3. CASE UNCHANGED chats
  BY <1>3 DEF Exchanges
<1> QED
  BY <1>1, <1>2, <1>3
     DEF ExecutionNext, CreateJob, PushJob, StartJob, ExecuteJob, SaveRunning, IngestDocument,
         ProcessRequest, ValidateChat, FinishJob, SaveToCache, ExpireJob, Crash, allVars, storeVars

\* An execution of a follow-up with a live context does not lose its exchange.
LEMMA FollowUpsExecution ==
  ASSUME Typed, Placed, Chats, FollowUps, ~StoresMayFail, [ExecutionNext]_allVars,
         NEW j \in Job, ExecuteJob(j)
  PROVE  FollowUps'
<1>0. /\ step \in [Job -> Step]
      /\ result \in [Job -> {"QUEUED", "COMPLETE", "Error"}]
      /\ context \in [Job -> {"live", "expired", "cancelled"}]
      /\ QueryJob \subseteq Job
      /\ \A k \in QueryJob : ChatOf[k] \in Chat
  BY ExecutionTypes, ChatOfTyped DEF Typed, ExecutionTypeOK
<1>1. \A k \in QueryJob : k \in Exchanges(ChatOf[k]) => k \in Exchanges(ChatOf[k])'
  BY <1>0, ExchangesStay
<1>2. \A k \in Job \ {j} : step'[k] = step[k] /\ result'[k] = result[k] /\ context'[k] = context[k]
  BY <1>0, ExecutionIsLocal
     DEF ExecuteJob, SaveRunning, IngestDocument, ProcessRequest, ValidateChat, PushExchange,
         FinishJob
<1>3. \A k \in Job \ {j} : jobStore'[k] = jobStore[k]
  BY SaveJobWrites
     DEF ExecuteJob, SaveRunning, IngestDocument, ProcessRequest, ValidateChat, PushExchange,
         FinishJob, FinalStatus, Status, storeVars
<1>4. ASSUME NEW k \in QueryJob \ NewChatJob, k # j
      PROVE  /\ step'[k] = "saving" /\ result'[k] # "Error" /\ context'[k] = "live"
                  => k \in Exchanges(ChatOf[k])'
             /\ Polled(k)' = "COMPLETE" => k \in Exchanges(ChatOf[k])'
  BY <1>0, <1>1, <1>2, <1>3, <1>4 DEF FollowUps, Polled
<1>5. ASSUME j \in QueryJob \ NewChatJob
      PROVE  /\ step'[j] = "saving" /\ result'[j] # "Error" /\ context'[j] = "live"
                  => j \in Exchanges(ChatOf[j])'
             /\ Polled(j)' = "COMPLETE" => j \in Exchanges(ChatOf[j])'
  <2>1. CASE SaveRunning(j)
    <3>1. step'[j] # "saving"
      BY <1>0, <2>1 DEF SaveRunning, GoTo
    <3>2. jobStore'[j] = jobStore[j] \/ jobStore'[j].status = "RUNNING"
      BY <2>1, SaveJobWrites DEF SaveRunning, Status
    <3> QED
      BY <1>1, <1>5, <3>1, <3>2 DEF FollowUps, Polled
  <2>2. CASE IngestDocument(j)
    BY <1>5, <2>2 DEF IngestDocument, Typed, StepFitsKind, QueryJob
  <2>3. CASE ProcessRequest(j)
    <3>1. step'[j] # "saving" \/ result'[j] = "Error"
      BY <1>0, <2>3
         DEF ProcessRequest, Embed, CheckCache, Search, Generate, ContinueRag, FailRag,
             AnswerWith, GoTo
    <3>2. jobStore' = jobStore
      BY <2>3 DEF ProcessRequest, storeVars
    <3> QED
      BY <1>1, <1>5, <3>1, <3>2 DEF FollowUps, Polled
  <2>4. CASE ValidateChat(j)
    <3>1. Exists(ChatOf[j])
      <4>1. j \in running
        BY <2>4, ExecutionTypes DEF ValidateChat
      <4> QED
        BY <1>5, <4>1 DEF Placed, Chats, ChatLifeCycle
    <3>2. step'[j] # "saving" \/ context'[j] # "live"
      BY <1>0, <2>4, <3>1 DEF ValidateChat, StoreFails, GoTo
    <3>3. jobStore' = jobStore
      BY <2>4 DEF ValidateChat, storeVars
    <3> QED
      BY <1>1, <1>5, <3>2, <3>3 DEF FollowUps, Polled
  <2>5. CASE PushExchange(j)
    <3>1. UNCHANGED <<context, jobStore>>
      BY <2>5 DEF PushExchange
    <3> QED
      BY <1>1, <1>5, <2>5, <3>1, PushedExchange DEF FollowUps, Polled
  <2>6. CASE FinishJob(j)
    <3>1. step'[j] = "none" /\ step[j] = "saving"
      BY <1>0, <2>6 DEF FinishJob, GoTo
    <3>2. \/ jobStore'[j] = jobStore[j]
          \/ jobStore'[j].status = FinalStatus(j) /\ context[j] = "live"
      BY <2>6 DEF FinishJob, SaveJob, StoreWorks, Typed, ExecutionTypeOK
    <3> QED
      BY <1>1, <1>5, <3>1, <3>2 DEF FollowUps, Polled, FinalStatus
  <2> QED
    BY <2>1, <2>2, <2>3, <2>4, <2>5, <2>6 DEF ExecuteJob
<1> QED
  BY <1>4, <1>5 DEF FollowUps

\* No other step makes a follow-up COMPLETE or a context live again.
LEMMA FollowUpsStep ==
  ASSUME Typed, Placed, Chats, FollowUps, ~StoresMayFail, [ExecutionNext]_allVars
  PROVE  FollowUps'
<1>0. /\ step \in [Job -> Step]
      /\ context \in [Job -> {"live", "expired", "cancelled"}]
      /\ QueryJob \subseteq Job
      /\ \A k \in QueryJob : ChatOf[k] \in Chat
  BY ExecutionTypes, ChatOfTyped DEF Typed, ExecutionTypeOK
<1>1. \A k \in QueryJob : k \in Exchanges(ChatOf[k]) => k \in Exchanges(ChatOf[k])'
  BY <1>0, ExchangesStay
<1>2. ASSUME NEW j \in Job, ExecuteJob(j) PROVE FollowUps'
  BY <1>2, FollowUpsExecution
<1>3. ASSUME UNCHANGED <<result, jobStore>>,
             \A k \in QueryJob : step'[k] = "saving" => step[k] = "saving",
             \A k \in QueryJob : context'[k] = "live" => context[k] = "live"
      PROVE  FollowUps'
  BY <1>1, <1>3 DEF FollowUps, Polled
<1>4. CASE StartJob
  <2>1. \A k \in QueryJob : step'[k] = "saving" => step[k] = "saving"
    BY <1>0, <1>4 DEF StartJob, GoTo
  <2> QED
    BY <1>3, <1>4, <2>1 DEF StartJob, storeVars
<1>5. ASSUME NEW j \in Job, ExpireJob(j) PROVE FollowUps'
  <2>1. \A k \in QueryJob : context'[k] = "live" => context[k] = "live"
    BY <1>0, <1>5 DEF ExpireJob
  <2> QED
    BY <1>3, <1>5, <2>1 DEF ExpireJob, storeVars
<1>6. CASE Crash
  BY <1>0, <1>3, <1>6 DEF Crash, storeVars
<1>7. CASE UNCHANGED <<step, context, result, jobStore>>
  BY <1>3, <1>7
<1> QED
  BY <1>2, <1>4, <1>5, <1>6, <1>7
     DEF ExecutionNext, CreateJob, PushJob, ClearChat, SeedChat, SaveToCache,
         allVars, executionVars, storeVars

\* A client that polls COMPLETE after a follow-up finds the exchange in the chat, across
\* crashes and contexts that expire, as long as the stores themselves do not fail.
THEOREM FollowUpsAreKept == ExecutionSpec => []CompletedFollowUpIsInChat
<1> DEFINE Inv == ~StoresMayFail => FollowUps
<1>1. ExecutionInit => Inv
  BY DEF ExecutionInit, FollowUps, Polled, Absent, QueryJob
<1>2. Inv /\ Typed /\ Placed /\ Chats /\ [ExecutionNext]_allVars => Inv'
  BY FollowUpsStep
<1>3. Inv => CompletedFollowUpIsInChat
  BY DEF FollowUps, CompletedFollowUpIsInChat
<1> HIDE DEF Inv
<1> QED
  BY <1>1, <1>2, <1>3, ChatsHold, PlacedHolds, TypedHolds, PTL DEF ExecutionSpec
=============================================================================
