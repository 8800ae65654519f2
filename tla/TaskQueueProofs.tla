--------------------------- MODULE TaskQueueProofs ---------------------------
(***************************************************************************)
(* What TaskQueue guarantees for any number of tasks, documents and        *)
(* workers, any retry limit and any number of crashes and outages.         *)
(***************************************************************************)
EXTENDS TaskQueue, SequenceTheorems, TLAPS

USE TaskQueueAssumption

\* The initial state is well typed.
LEMMA InitTypeOK == Init => TypeOK
  BY DEF Init, TypeOK, AgentNames, WorkerState

\* Every action keeps the types.
LEMMA NextTypeOK == TypeOK /\ [Next]_vars => TypeOK'
<1> SUFFICES ASSUME TypeOK, [Next]_vars PROVE TypeOK'
  OBVIOUS
<1> USE DEF TypeOK, TaskStatus, DocStatus, WorkerState, AgentNames
<1>1. ASSUME NEW t \in Tasks, NEW d \in Docs, BeginUpload(t, d) PROVE TypeOK'
  BY <1>1 DEF BeginUpload, redisVars, workerVars, history
<1>2. ASSUME NEW t \in Tasks, PushToRedis(t) PROVE TypeOK'
  <2>1. <<t>> \o queue \in Seq(Tasks)
    OBVIOUS
  <2>2. QED
    BY ZenonT(60), <1>2, <2>1 DEF PushToRedis, taskVars, docVars, workerVars, history
<1>3. ASSUME NEW t \in Tasks, CommitUpload(t) PROVE TypeOK'
  BY <1>3 DEF CommitUpload, redisVars, workerVars, history
<1>4. ASSUME NEW t \in Tasks, AbortUpload(t) PROVE TypeOK'
  BY <1>4 DEF AbortUpload, taskVars, docVars, redisVars, workerVars, history
<1>5. ASSUME NEW t \in Tasks, NEW a \in Agents, NEW d \in Docs \cup {NoDoc},
             SubmitTask(t, a, d)
      PROVE  TypeOK'
  BY <1>5 DEF SubmitTask, docVars, redisVars, workerVars, history
<1>6. ASSUME NEW d \in Docs, ClientUpload(d) PROVE TypeOK'
  BY <1>6 DEF ClientUpload, taskVars, apiVars, redisVars, workerVars, history
<1>7. ASSUME NEW d \in Docs, NEW decision \in {"validated", "rejected"},
             ValidateDocument(d, decision)
      PROVE  TypeOK'
  BY <1>7 DEF ValidateDocument, taskVars, apiVars, redisVars, workerVars,
              history
<1>8. ASSUME NEW w \in Workers, PopTask(w) PROVE TypeOK'
  <2>1. /\ SubSeq(queue, 1, Len(queue) - 1) \in Seq(Tasks)
        /\ queue[Len(queue)] \in Tasks
    BY <1>8 DEF PopTask
  <2>2. QED
    BY SMTT(30), <1>8, <2>1 DEF PopTask, taskVars, docVars, apiVars, history
<1>9. ASSUME NEW w \in Workers, PopNothing(w) PROVE TypeOK'
  BY <1>9 DEF PopNothing, taskVars, docVars, apiVars, redisVars, history
<1>10. ASSUME NEW w \in Workers, ScanDatabase(w) PROVE TypeOK'
  <2> USE DEF taskVars, docVars, apiVars, redisVars, history
  <2>1. CASE pc' = [pc EXCEPT ![w] = "idle"] /\ UNCHANGED held
    BY <1>10, <2>1 DEF ScanDatabase
  <2>2. ASSUME NEW t \in Tasks, held' = [held EXCEPT ![w] = t],
               pc' = [pc EXCEPT ![w] = "picked"]
        PROVE  TypeOK'
    BY <1>10, <2>2 DEF ScanDatabase
  <2>3. QED
    BY <1>10, <2>1, <2>2 DEF ScanDatabase, Queued
<1>11. ASSUME NEW w \in Workers, LoadTask(w) PROVE TypeOK'
  <2> USE DEF taskVars, docVars, apiVars, redisVars, history
  <2>1. CASE NextRound(w)
    BY <1>11, <2>1 DEF LoadTask, NextRound
  <2>2. CASE Claimable(held[w])
    <3>1. /\ held[w] \in Tasks
          /\ retry[held[w]] \in Nat
          /\ status[held[w]] \in {"queued", "processing"}
      BY <1>11, <2>2 DEF LoadTask, Claimable
    <3>2. /\ seenStatus' = [seenStatus EXCEPT ![w] = status[held[w]]]
          /\ seenRetry' = [seenRetry EXCEPT ![w] = retry[held[w]]]
          /\ pc' = [pc EXCEPT ![w] = "loaded"]
          /\ UNCHANGED held
      <4> HIDE DEF TypeOK
      <4>1. QED
        BY <1>11, <2>2 DEF LoadTask
    <3>3. /\ seenStatus' \in [Workers -> {"queued", "processing"}]
          /\ seenRetry' \in [Workers -> Nat]
      BY <3>1, <3>2
    <3>4. UNCHANGED <<taskVars, docVars, apiVars, redisVars, history>>
      BY <1>11 DEF LoadTask
    <3>5. QED
      BY <3>1, <3>2, <3>3, <3>4
  <2>3. QED
    <3> HIDE DEF TypeOK
    <3>1. QED
      BY <1>11, <2>1, <2>2 DEF LoadTask
<1>12. ASSUME NEW w \in Workers, ClaimTask(w) PROVE TypeOK'
  BY <1>12 DEF ClaimTask, docVars, apiVars, redisVars, history
<1>13. ASSUME NEW w \in Workers, NEW confident \in BOOLEAN,
              FinishTask(w, confident)
       PROVE  TypeOK'
  BY <1>13 DEF FinishTask, NextRound, TouchesDoc, OcrVerdict, apiVars,
               redisVars, history
<1>14. ASSUME NEW w \in Workers, FailTask(w) PROVE TypeOK'
  <2>1. /\ seenRetry[w] + 1 \in Nat
        /\ StatusAfterFailure(seenRetry[w] + 1) \in TaskStatus
        /\ held[w] \in Tasks
    BY <1>14 DEF FailTask, StatusAfterFailure
  <2>0. /\ retry' = [retry EXCEPT ![held[w]] = seenRetry[w] + 1]
        /\ status' = [status EXCEPT ![held[w]] =
                        StatusAfterFailure(seenRetry[w] + 1)]
    BY <1>14 DEF FailTask
  <2>2. SUFFICES ASSUME NEW n \in Nat, NEW s \in TaskStatus,
                        retry' = [retry EXCEPT ![held[w]] = n],
                        status' = [status EXCEPT ![held[w]] = s]
                 PROVE  TypeOK'
    <3> HIDE DEF TypeOK
    <3>1. QED
      BY <2>0, <2>1
  <2>3. failures' \in [Tasks -> Nat]
    BY <1>14 DEF FailTask
  <2>4. /\ NextRound(w)
        /\ UNCHANGED <<agent, taskDoc, origin, docVars, apiVars, redisVars,
                       crashes>>
    BY <1>14 DEF FailTask
  <2>5. QED
    BY ZenonT(60), <2>1, <2>2, <2>3, <2>4 DEF NextRound, docVars, apiVars, redisVars
<1>15. ASSUME NEW w \in Workers, CrashWorker(w) PROVE TypeOK'
  BY SMTT(30), <1>15 DEF CrashWorker, NextRound, taskVars, docVars, apiVars, redisVars
<1>16. CASE RedisFails
  <2>1. queue' = queue \/ queue' = << >>
    BY <1>16 DEF RedisFails
  <2>2. queue' \in Seq(Tasks)
    <3>1. queue \in Seq(Tasks) /\ << >> \in Seq(Tasks)
      OBVIOUS
    <3>2. QED
      BY <2>1, <3>1, ZenonT(40)
  <2>3. outages' \in Nat
    BY <1>16 DEF RedisFails
  <2>4. redisUp' \in BOOLEAN
    BY <1>16 DEF RedisFails
  <2>5. UNCHANGED <<taskVars, docVars, apiVars, workerVars, history>>
    BY <1>16 DEF RedisFails
  <2>6. QED
    BY <2>2, <2>3, <2>4, <2>5
    DEF taskVars, docVars, apiVars, workerVars, history
<1>17. CASE RedisRecovers
  BY <1>17 DEF RedisRecovers, taskVars, docVars, apiVars, workerVars, history
<1>18. CASE UNCHANGED vars
  BY <1>18 DEF vars, taskVars, docVars, apiVars, redisVars, workerVars, history
<1>19. CASE ApiStep
  <2> HIDE DEF TypeOK
  <2>1. QED
    BY <1>19, <1>1, <1>2, <1>3, <1>4, <1>5, <1>6, <1>7 DEF ApiStep
<1>20. ASSUME NEW w \in Workers, WorkerStep(w) PROVE TypeOK'
  <2> HIDE DEF TypeOK
  <2>1. QED
    BY <1>20, <1>8, <1>9, <1>10, <1>11, <1>12, <1>13, <1>14 DEF WorkerStep
<1>21. QED
  <2> HIDE DEF TypeOK
  <2>1. QED
    BY <1>15, <1>16, <1>17, <1>18, <1>19, <1>20 DEF Next

\* Every variable keeps its type: rows keep statuses of the schema and a
\* worker that has picked a task really holds one.
THEOREM TypeCorrect == Spec => []TypeOK
  BY InitTypeOK, NextTypeOK, PTL DEF Spec

-----------------------------------------------------------------------------
(* A row in "processing" is in somebody's hands.                           *)

\* Nothing is in processing at the start.
LEMMA InitProcessing == Init => ProcessingIsHeld
  BY DEF Init, ProcessingIsHeld

\* Every action keeps a task in processing with the worker that claimed it.
LEMMA NextProcessing ==
  TypeOK /\ ProcessingIsHeld /\ [Next]_vars => ProcessingIsHeld'
<1> SUFFICES ASSUME TypeOK, ProcessingIsHeld, [Next]_vars
             PROVE  ProcessingIsHeld'
  OBVIOUS
<1> USE DEF ProcessingIsHeld, HeldBySomeone
\* Steps of the API and of Redis leave workers alone and queue tasks at most.
<1>1. ASSUME UNCHANGED <<workerVars, history>>,
             \A t \in Tasks : status'[t] = "processing" => status[t] = "processing"
      PROVE  ProcessingIsHeld'
  BY <1>1 DEF workerVars, history
<1>2. CASE ApiStep
  <2>1. UNCHANGED <<workerVars, history>>
    BY <1>2 DEF ApiStep, BeginUpload, PushToRedis, CommitUpload, AbortUpload,
                SubmitTask, ClientUpload, ValidateDocument
  <2>2. \A t \in Tasks :
          status'[t] = "processing" => status[t] = "processing"
    <3>1. \/ UNCHANGED status
          \/ \E t \in Tasks : status' = [status EXCEPT ![t] = "queued"]
      BY <1>2 DEF ApiStep, BeginUpload, PushToRedis, CommitUpload,
                  AbortUpload, SubmitTask, ClientUpload, ValidateDocument,
                  taskVars
    <3>2. status \in [Tasks -> TaskStatus \cup {"absent"}]
      BY DEF TypeOK
    <3>3. QED
      BY <3>1, <3>2
  <2>3. QED
    BY <1>1, <2>1, <2>2
<1>3. CASE RedisFails \/ RedisRecovers \/ UNCHANGED vars
  <2>1. UNCHANGED <<taskVars, workerVars, history>>
    BY <1>3 DEF RedisFails, RedisRecovers, vars
  <2>2. QED
    BY <1>1, <2>1 DEF taskVars
<1>4. ASSUME NEW w \in Workers,
             PopTask(w) \/ PopNothing(w) \/ ScanDatabase(w) \/ LoadTask(w)
      PROVE  ProcessingIsHeld'
  <2>1. /\ UNCHANGED <<taskVars, history>>
        /\ \A v \in Workers :
             pc[v] = "running" => pc'[v] = "running" /\ held'[v] = held[v]
    BY SMTT(30), <1>4 DEF PopTask, PopNothing, ScanDatabase, LoadTask, NextRound, TypeOK
  <2>2. QED
    BY <2>1 DEF taskVars, history
<1>5. ASSUME NEW w \in Workers, ClaimTask(w) PROVE ProcessingIsHeld'
  BY <1>5 DEF ClaimTask, history, TypeOK
<1>6. ASSUME NEW w \in Workers,
             (\E confident \in BOOLEAN : FinishTask(w, confident)) \/ FailTask(w)
      PROVE  ProcessingIsHeld'
  <2>1. /\ held[w] \in Tasks
        /\ status'[held[w]] # "processing"
        /\ \A t \in Tasks \ {held[w]} : status'[t] = status[t]
        /\ \A v \in Workers \ {w} : pc'[v] = pc[v] /\ held'[v] = held[v]
        /\ UNCHANGED crashes
    BY <1>6 DEF FinishTask, FailTask, StatusAfterFailure, NextRound, history,
                TypeOK
  <2>2. QED
    BY <2>1
<1>7. ASSUME NEW w \in Workers, CrashWorker(w) PROVE ProcessingIsHeld'
  <2>1. /\ held[w] \in Tasks
        /\ crashes'[held[w]] > 0
        /\ \A t \in Tasks \ {held[w]} : crashes'[t] = crashes[t]
        /\ \A v \in Workers \ {w} : pc'[v] = pc[v] /\ held'[v] = held[v]
        /\ UNCHANGED status
    BY <1>7 DEF CrashWorker, NextRound, taskVars, TypeOK
  <2>2. QED
    BY <2>1
<1>8. QED
  BY <1>2, <1>3, <1>4, <1>5, <1>6, <1>7 DEF Next, WorkerStep

\* Whatever the number of workers and however they overwrite each other, a
\* task is "processing" only while a worker runs it or after one died with it.
THEOREM NoSilentlyStuckTask == Spec => []ProcessingIsHeld
  BY InitProcessing, NextProcessing, TypeCorrect, PTL DEF Spec

-----------------------------------------------------------------------------
(* Retry counts never exceed the failures that happened.                   *)

\* Inductive form: the count a session has loaded is a true one as well.
RetryInv ==
  /\ GivesUpOnlyAfterRetries
  /\ \A w \in Workers :
       pc[w] \in {"loaded", "running"} => seenRetry[w] <= failures[held[w]]

\* No attempt was made at the start.
LEMMA InitRetry == Init => RetryInv
  BY TaskQueueAssumption DEF Init, RetryInv, GivesUpOnlyAfterRetries

\* Every action keeps the loaded and stored counts below the failures.
LEMMA NextRetry == TypeOK /\ RetryInv /\ [Next]_vars => RetryInv'
<1> SUFFICES ASSUME TypeOK, RetryInv, [Next]_vars PROVE RetryInv'
  OBVIOUS
<1> USE DEF RetryInv, GivesUpOnlyAfterRetries
\* Steps that fail nothing and load nothing.
<1>1. ASSUME UNCHANGED <<retry, failures>>,
             \A t \in Tasks : status'[t] = "failed" => status[t] = "failed",
             \A w \in Workers : pc'[w] \in {"loaded", "running"} =>
               /\ pc[w] \in {"loaded", "running"}
               /\ held'[w] = held[w]
               /\ seenRetry'[w] = seenRetry[w]
      PROVE  RetryInv'
  BY <1>1
<1>2. CASE ApiStep \/ RedisFails \/ RedisRecovers \/ UNCHANGED vars
  <2>1. UNCHANGED <<workerVars, retry, failures>>
    BY <1>2 DEF ApiStep, BeginUpload, PushToRedis, CommitUpload, AbortUpload,
                SubmitTask, ClientUpload, ValidateDocument, RedisFails,
                RedisRecovers, vars, taskVars, history
  <2>2. \A t \in Tasks : status'[t] = "failed" => status[t] = "failed"
    <3>1. \/ UNCHANGED status
          \/ \E t \in Tasks : status' = [status EXCEPT ![t] = "queued"]
      BY <1>2 DEF ApiStep, BeginUpload, PushToRedis, CommitUpload,
                  AbortUpload, SubmitTask, ClientUpload, ValidateDocument,
                  RedisFails, RedisRecovers, vars, taskVars
    <3>2. status \in [Tasks -> TaskStatus \cup {"absent"}]
      BY DEF TypeOK
    <3>3. QED
      BY <3>1, <3>2
  <2>3. QED
    BY <1>1, <2>1, <2>2 DEF workerVars
<1>3. ASSUME NEW w \in Workers,
             \/ PopTask(w) \/ PopNothing(w) \/ ScanDatabase(w) \/ ClaimTask(w)
             \/ \E confident \in BOOLEAN : FinishTask(w, confident)
             \/ CrashWorker(w)
      PROVE  RetryInv'
  <2>1. /\ UNCHANGED <<retry, failures>>
        /\ \A t \in Tasks : status'[t] = "failed" => status[t] = "failed"
    BY <1>3 DEF PopTask, PopNothing, ScanDatabase, ClaimTask, FinishTask,
                CrashWorker, NextRound, taskVars, history, TypeOK
  <2>2. \A v \in Workers : pc'[v] \in {"loaded", "running"} =>
               /\ pc[v] \in {"loaded", "running"}
               /\ held'[v] = held[v]
               /\ seenRetry'[v] = seenRetry[v]
    BY <1>3 DEF PopTask, PopNothing, ScanDatabase, ClaimTask, FinishTask,
                CrashWorker, NextRound, TypeOK
  <2>3. QED
    BY <1>1, <2>1, <2>2
<1>4. ASSUME NEW w \in Workers, LoadTask(w) PROVE RetryInv'
  <2>1. UNCHANGED <<status, retry, failures>>
    BY <1>4 DEF LoadTask, taskVars, history
  <2>2. ASSUME NEW v \in Workers, pc'[v] \in {"loaded", "running"}
        PROVE  seenRetry'[v] <= failures[held'[v]]
    <3>1. CASE v = w
      BY <1>4, <2>2, <3>1 DEF LoadTask, NextRound, TypeOK
    <3>2. CASE v # w
      <4>1. /\ pc'[v] = pc[v]
            /\ held'[v] = held[v]
            /\ seenRetry'[v] = seenRetry[v]
        BY <1>4, <3>2 DEF LoadTask, NextRound, TypeOK
      <4>2. QED
        BY <2>2, <4>1
    <3>3. QED
      BY <3>1, <3>2
  <2>3. QED
    BY <2>1, <2>2
<1>5. ASSUME NEW w \in Workers, FailTask(w) PROVE RetryInv'
  <2>1. PICK t \in Tasks : t = held[w]
    BY <1>5 DEF FailTask, TypeOK
  <2>2. /\ retry'[t] = seenRetry[w] + 1
        /\ status'[t] = StatusAfterFailure(seenRetry[w] + 1)
        /\ failures'[t] = failures[t] + 1
        /\ seenRetry[w] <= failures[t]
        /\ seenRetry[w] \in Nat
    BY <1>5, <2>1 DEF FailTask, TypeOK
  <2>3. \A u \in Tasks \ {t} :
          retry'[u] = retry[u] /\ status'[u] = status[u] /\ failures'[u] = failures[u]
    BY <1>5, <2>1 DEF FailTask, TypeOK
  <2>4. ASSUME NEW u \in Tasks
        PROVE  /\ retry'[u] <= failures'[u]
               /\ status'[u] = "failed" => failures'[u] >= MaxRetries
    <3>1. CASE u = t
      BY <2>2, <3>1, TaskQueueAssumption DEF StatusAfterFailure, TypeOK,
         TaskQueueAssumption
    <3>2. CASE u # t
      BY <2>3, <3>2
    <3>3. QED
      BY <3>1, <3>2
  <2>5. ASSUME NEW v \in Workers, pc'[v] \in {"loaded", "running"}
        PROVE  seenRetry'[v] <= failures'[held'[v]]
    <3>1. /\ v # w
          /\ pc'[v] = pc[v]
          /\ held'[v] = held[v]
          /\ seenRetry'[v] = seenRetry[v]
          /\ held[v] \in Tasks
      <4>1. pc'[w] = "idle"
        BY <1>5 DEF FailTask, NextRound, TypeOK
      <4>2. v # w
        BY <2>5, <4>1
      <4>3. /\ pc'[v] = pc[v]
            /\ held'[v] = held[v]
            /\ seenRetry'[v] = seenRetry[v]
        BY <1>5, <4>2 DEF FailTask, NextRound, TypeOK
      <4>4. held[v] \in Tasks
        BY <2>5, <4>3 DEF TypeOK
      <4>5. QED
        BY <4>2, <4>3, <4>4
    <3>2. failures'[held[v]] \in {failures[held[v]], failures[held[v]] + 1}
      BY <2>2, <2>3, <3>1
    <3>3. QED
      <4>1. /\ seenRetry[v] \in Nat
            /\ failures[held[v]] \in Nat
            /\ seenRetry[v] <= failures[held[v]]
        BY <2>5, <3>1 DEF TypeOK
      <4>2. QED
        BY <3>1, <3>2, <4>1
  <2>6. QED
    BY <2>4, <2>5
<1>6. QED
  BY <1>2, <1>3, <1>4, <1>5 DEF Next, WorkerStep

\* A task is given up only after MaxRetries attempts have really failed.
THEOREM NeverGivesUpEarly == Spec => []GivesUpOnlyAfterRetries
<1>1. RetryInv => GivesUpOnlyAfterRetries
  BY DEF RetryInv
<1>2. QED
  BY <1>1, InitRetry, NextRetry, TypeCorrect, PTL DEF Spec

-----------------------------------------------------------------------------
(* Uploads are atomic, and a document in "processing" has a task.          *)

IsUpload(t) == origin[t] = "upload" /\ taskDoc[t] # NoDoc

\* Inductive form: what an open request has written so far, one upload per
\* document, and that tasks name documents that exist.
UploadInv ==
  /\ \A t \in Tasks : request[t] # "closed" => status[t] = "absent"
  /\ \A t \in Tasks : request[t] \in {"flushed", "pushed"} =>
       /\ agent[t] = "ocr"
       /\ IsUpload(t)
       /\ taskDoc[t] \in blobs
  /\ \A t, u \in Tasks :
       IsUpload(t) /\ IsUpload(u) /\ taskDoc[t] = taskDoc[u] => t = u
  /\ \A t \in Tasks : origin[t] = "api" /\ taskDoc[t] # NoDoc =>
       docs[taskDoc[t]] # "absent"
  /\ \A w \in Workers :
       pc[w] \in {"loaded", "running"} => status[held[w]] # "absent"
  /\ \A t \in Tasks :
       IsUpload(t) => (status[t] = "absent" <=> docs[taskDoc[t]] = "absent")
  /\ \A d \in Docs : docs[d] # "absent" => d \in blobs

\* Nothing was uploaded at the start.
LEMMA InitUpload == Init => UploadInv /\ ProcessingDocHasTask
  BY DEF Init, UploadInv, IsUpload, ProcessingDocHasTask

\* A step that keeps tasks and documents, and loads nothing, keeps both.
LEMMA FrameUpload ==
  ASSUME TypeOK, UploadInv, ProcessingDocHasTask,
         UNCHANGED <<agent, taskDoc, origin, docs, blobs>>,
         \A t \in Tasks : \/ request'[t] = request[t]
                          \/ request'[t] = "pushed" /\ request[t] = "flushed"
                          \/ request'[t] = "closed",
         \A t \in Tasks : \/ status'[t] = status[t]
                          \/ /\ status[t] # "absent"
                             /\ status'[t] \in {"queued", "processing", "failed"},
         \A w \in Workers : pc'[w] \in {"loaded", "running"} =>
           \/ pc[w] \in {"loaded", "running"} /\ held'[w] = held[w]
           \/ status[held'[w]] # "absent",
         \A w \in Workers : pc'[w] \in {"loaded", "running"} => held'[w] \in Tasks
  PROVE  UploadInv' /\ ProcessingDocHasTask'
<1> USE DEF UploadInv, IsUpload
<1>1. UploadInv'
  <2>1. \A t \in Tasks : status'[t] = "absent" <=> status[t] = "absent"
    OBVIOUS
  <2>2. \A t \in Tasks : request'[t] # "closed" => status'[t] = "absent"
    BY <2>1
  <2>3. \A w \in Workers :
          pc'[w] \in {"loaded", "running"} => status'[held'[w]] # "absent"
    BY <2>1
  <2>4. \A t \in Tasks : request'[t] \in {"flushed", "pushed"} =>
          request[t] \in {"flushed", "pushed"}
    OBVIOUS
  <2>5. QED
    BY <2>1, <2>2, <2>3, <2>4
<1>2. ProcessingDocHasTask'
  BY DEF ProcessingDocHasTask, TouchesDoc
<1>3. QED
  BY <1>1, <1>2

\* Every step of an upload keeps documents and tasks together.
LEMMA NextUpload ==
  TypeOK /\ UploadInv /\ ProcessingDocHasTask /\ [Next]_vars
    => UploadInv' /\ ProcessingDocHasTask'
<1> SUFFICES ASSUME TypeOK, UploadInv, ProcessingDocHasTask, [Next]_vars
             PROVE  UploadInv' /\ ProcessingDocHasTask'
  OBVIOUS
<1>1. ASSUME NEW t \in Tasks, NEW d \in Docs, BeginUpload(t, d)
      PROVE  UploadInv' /\ ProcessingDocHasTask'
  <2>1. UploadInv'
    BY <1>1 DEF BeginUpload, FreshDoc, UploadInv, IsUpload, workerVars, TypeOK
  <2>2. ProcessingDocHasTask'
    BY ZenonT(60), <1>1 DEF BeginUpload, ProcessingDocHasTask, TouchesDoc, UploadInv, TypeOK
  <2>3. QED
    BY <2>1, <2>2
<1>2. ASSUME NEW t \in Tasks, PushToRedis(t) \/ AbortUpload(t)
      PROVE  UploadInv' /\ ProcessingDocHasTask'
  <2>1. UNCHANGED <<taskVars, docVars, workerVars>>
    BY <1>2 DEF PushToRedis, AbortUpload
  <2>2. \A u \in Tasks : \/ request'[u] = request[u]
                         \/ request'[u] = "pushed" /\ request[u] = "flushed"
                         \/ request'[u] = "closed"
    BY <1>2 DEF PushToRedis, AbortUpload, TypeOK
  <2>3. \A w \in Workers : pc[w] \in {"loaded", "running"} => held[w] \in Tasks
    BY DEF TypeOK
  <2>4. QED
    BY <2>1, <2>2, <2>3, FrameUpload DEF taskVars, docVars, workerVars
<1>3. ASSUME NEW t \in Tasks, CommitUpload(t)
      PROVE  UploadInv' /\ ProcessingDocHasTask'
  <2>1. /\ taskDoc[t] \in Docs
        /\ agent[t] = "ocr"
        /\ IsUpload(t)
        /\ taskDoc[t] \in blobs
    BY <1>3 DEF CommitUpload, UploadInv, IsUpload, TypeOK
  <2>2. UploadInv'
    BY <1>3, <2>1 DEF CommitUpload, UploadInv, IsUpload, workerVars, TypeOK
  <2>3. ProcessingDocHasTask'
    BY <1>3, <2>1 DEF CommitUpload, ProcessingDocHasTask, TouchesDoc, IsUpload,
                      TypeOK
  <2>4. QED
    BY <2>2, <2>3
<1>4. ASSUME NEW t \in Tasks, NEW a \in Agents, NEW d \in Docs \cup {NoDoc},
             SubmitTask(t, a, d)
      PROVE  UploadInv' /\ ProcessingDocHasTask'
  <2>1. UploadInv'
    BY <1>4 DEF SubmitTask, UploadInv, IsUpload, docVars, workerVars, TypeOK
  <2>2. ProcessingDocHasTask'
    BY ZenonT(60), <1>4 DEF SubmitTask, ProcessingDocHasTask, TouchesDoc, UploadInv,
                docVars, TypeOK
  <2>3. QED
    BY <2>1, <2>2
<1>5. ASSUME NEW d \in Docs, ClientUpload(d)
      PROVE  UploadInv' /\ ProcessingDocHasTask'
  <2>1. UploadInv'
    BY <1>5 DEF ClientUpload, FreshDoc, UploadInv, IsUpload, taskVars, apiVars,
                workerVars, TypeOK
  <2>2. ProcessingDocHasTask'
    BY <1>5 DEF ClientUpload, ProcessingDocHasTask, TouchesDoc, taskVars, TypeOK
  <2>3. QED
    BY <2>1, <2>2
<1>6. ASSUME NEW d \in Docs, NEW decision \in {"validated", "rejected"},
             ValidateDocument(d, decision)
      PROVE  UploadInv' /\ ProcessingDocHasTask'
  <2>1. UploadInv'
    BY <1>6 DEF ValidateDocument, UploadInv, IsUpload, taskVars, apiVars,
                workerVars, TypeOK
  <2>2. ProcessingDocHasTask'
    BY <1>6 DEF ValidateDocument, ProcessingDocHasTask, TouchesDoc, taskVars,
                TypeOK
  <2>3. QED
    BY <2>1, <2>2
<1>7. ASSUME NEW w \in Workers,
             \/ PopTask(w) \/ PopNothing(w) \/ ScanDatabase(w) \/ LoadTask(w)
             \/ CrashWorker(w)
      PROVE  UploadInv' /\ ProcessingDocHasTask'
  <2>1. UNCHANGED <<taskVars, docVars, apiVars>>
    BY <1>7 DEF PopTask, PopNothing, ScanDatabase, LoadTask, CrashWorker
  <2>2. \A v \in Workers : pc'[v] \in {"loaded", "running"} =>
          \/ pc[v] \in {"loaded", "running"} /\ held'[v] = held[v]
          \/ status[held'[v]] # "absent"
    BY <1>7 DEF PopTask, PopNothing, ScanDatabase, LoadTask, CrashWorker,
                Claimable, NextRound, TypeOK
  <2>3. \A v \in Workers : pc'[v] \in {"loaded", "running"} => held'[v] \in Tasks
    BY NextTypeOK DEF TypeOK
  <2>4. QED
    BY <2>1, <2>2, <2>3, FrameUpload DEF taskVars, docVars, apiVars
<1>8. ASSUME NEW w \in Workers, ClaimTask(w) \/ FailTask(w)
      PROVE  UploadInv' /\ ProcessingDocHasTask'
  <2>1. UNCHANGED <<agent, taskDoc, origin, docs, blobs, request>>
    BY <1>8 DEF ClaimTask, FailTask, docVars, apiVars
  <2>2. \A v \in Workers : pc'[v] \in {"loaded", "running"} =>
          pc[v] \in {"loaded", "running"} /\ held'[v] = held[v]
    BY SMTT(30), <1>8 DEF ClaimTask, FailTask, NextRound, TypeOK
  <2>3. \A t \in Tasks : \/ status'[t] = status[t]
                         \/ /\ status[t] # "absent"
                            /\ status'[t] \in {"queued", "processing", "failed"}
    BY <1>8 DEF ClaimTask, FailTask, StatusAfterFailure, UploadInv, TypeOK
  <2>4. \A v \in Workers : pc'[v] \in {"loaded", "running"} => held'[v] \in Tasks
    BY NextTypeOK DEF TypeOK
  <2>5. QED
    BY <2>1, <2>2, <2>3, <2>4, FrameUpload
<1>9. ASSUME NEW w \in Workers, NEW confident \in BOOLEAN,
             FinishTask(w, confident)
      PROVE  UploadInv' /\ ProcessingDocHasTask'
  <2>1. PICK t \in Tasks : t = held[w]
    BY <1>9 DEF FinishTask, TypeOK
  <2>2. status[t] # "absent"
    BY <1>9, <2>1 DEF FinishTask, UploadInv
  <2>3. status' = [status EXCEPT ![t] = "completed"]
    BY <1>9, <2>1 DEF FinishTask
  <2>4. \A v \in Workers : pc'[v] \in {"loaded", "running"} =>
          pc[v] \in {"loaded", "running"} /\ held'[v] = held[v]
    BY <1>9 DEF FinishTask, NextRound, TypeOK
  <2>5. /\ docs' = IF TouchesDoc(t)
                   THEN [docs EXCEPT ![taskDoc[t]] = OcrVerdict(confident)]
                   ELSE docs
        /\ UNCHANGED <<agent, taskDoc, origin, blobs, request>>
    BY <1>9, <2>1 DEF FinishTask, apiVars
  <2>6. OcrVerdict(confident) \in {"extracted", "uploaded"}
    BY DEF OcrVerdict
  <2>7. TouchesDoc(t) => taskDoc[t] \in Docs /\ docs[taskDoc[t]] # "absent"
    BY <2>2 DEF TouchesDoc, UploadInv, IsUpload, TypeOK
  <2>8. \A d \in Docs : docs'[d] = "absent" <=> docs[d] = "absent"
    BY <2>5, <2>6, <2>7 DEF TypeOK
  <2>9. UploadInv'
    <3>1. \A u \in Tasks : status'[u] = "absent" <=> status[u] = "absent"
      BY <2>2, <2>3 DEF TypeOK
    <3>2. \A u \in Tasks : taskDoc[u] # NoDoc =>
            (docs'[taskDoc[u]] = "absent" <=> docs[taskDoc[u]] = "absent")
      BY <2>8 DEF TypeOK
    <3>3. \A v \in Workers :
            pc'[v] \in {"loaded", "running"} => status'[held'[v]] # "absent"
      <4>1. \A v \in Workers : pc[v] \in {"loaded", "running"} =>
              held[v] \in Tasks /\ status[held[v]] # "absent"
        BY DEF UploadInv, TypeOK
      <4>2. QED
        BY <2>4, <3>1, <4>1
    <3>4. QED
      BY <2>5, <2>8, <3>1, <3>2, <3>3 DEF UploadInv, IsUpload
  <2>10. ProcessingDocHasTask'
    <3>1. ASSUME NEW d \in Docs, docs'[d] = "processing"
          PROVE  \E u \in Tasks :
                   /\ TouchesDoc(u)
                   /\ taskDoc[u] = d
                   /\ status'[u] \in {"queued", "processing", "failed"}
      <4>1. docs[d] = "processing" /\ ~(TouchesDoc(t) /\ taskDoc[t] = d)
        BY <2>5, <2>6, <3>1 DEF TypeOK
      <4>2. PICK u \in Tasks :
              /\ TouchesDoc(u)
              /\ taskDoc[u] = d
              /\ status[u] \in {"queued", "processing", "failed"}
        BY <4>1 DEF ProcessingDocHasTask
      <4>3. u # t
        BY <4>1, <4>2
      <4>4. QED
        BY <2>3, <4>2, <4>3 DEF TypeOK
    <3>2. QED
      BY <2>5, <3>1 DEF ProcessingDocHasTask, TouchesDoc
  <2>11. QED
    BY <2>9, <2>10
<1>10. CASE RedisFails \/ RedisRecovers \/ UNCHANGED vars
  <2>1. UNCHANGED <<taskVars, docVars, apiVars, workerVars>>
    BY <1>10 DEF RedisFails, RedisRecovers, vars
  <2>2. \A w \in Workers : pc[w] \in {"loaded", "running"} => held[w] \in Tasks
    BY DEF TypeOK
  <2>3. QED
    BY <2>1, <2>2, FrameUpload DEF taskVars, docVars, apiVars, workerVars
<1>11. QED
  BY <1>1, <1>2, <1>3, <1>4, <1>5, <1>6, <1>7, <1>8, <1>9, <1>10
  DEF Next, ApiStep, WorkerStep

\* A worker never runs an upload that has not committed; document, task and
\* file appear together, for any interleaving of uploads and workers.
THEOREM UploadsAreAtomic == Spec => []UploadIsAtomic
<1>1. TypeOK /\ UploadInv => UploadIsAtomic
  BY DEF UploadInv, IsUpload, UploadIsAtomic, TypeOK
<1>2. QED
  BY <1>1, InitUpload, NextUpload, TypeCorrect, PTL DEF Spec

\* No document is left in "processing" by a task that completed.
THEOREM ProcessingDocIsBacked == Spec => []ProcessingDocHasTask
  BY InitUpload, NextUpload, TypeCorrect, PTL DEF Spec

-----------------------------------------------------------------------------
(* With one worker, the table behaves as TaskLifecycle.                    *)

OneWorker == \A v, w \in Workers : v = w

\* Nobody writes a row between the worker's reads and writes of it.
SoloInv ==
  /\ \A t \in Tasks :
       /\ retry[t] = failures[t]
       /\ retry[t] <= MaxRetries
       /\ status[t] \in {"absent", "queued", "processing"} => retry[t] < MaxRetries
  /\ \A w \in Workers :
       /\ pc[w] \in {"loaded", "running"} => seenRetry[w] = retry[held[w]]
       /\ pc[w] = "loaded" => status[held[w]] \in {"queued", "processing"}
       /\ pc[w] = "loaded" => seenStatus[w] = status[held[w]]
       /\ pc[w] = "running" => status[held[w]] = "processing"

\* The single worker starts with nothing loaded.
LEMMA InitSolo == Init => SoloInv
  BY TaskQueueAssumption DEF TaskQueueAssumption, Init, SoloInv

\* API requests only bring new rows; workers' rows are old ones.
LEMMA ApiSubmits ==
  ASSUME TypeOK, UploadInv, ApiStep
  PROVE  /\ UNCHANGED <<retry, failures, workerVars>>
         /\ \/ UNCHANGED status
            \/ \E t \in Tasks :
                 /\ status[t] = "absent"
                 /\ status' = [status EXCEPT ![t] = "queued"]
<1>1. UNCHANGED <<retry, failures, workerVars>>
  BY DEF ApiStep, BeginUpload, PushToRedis, CommitUpload, AbortUpload,
         SubmitTask, ClientUpload, ValidateDocument, taskVars, history
<1>2. ASSUME NEW t \in Tasks, CommitUpload(t)
      PROVE  /\ status[t] = "absent"
             /\ status' = [status EXCEPT ![t] = "queued"]
  BY <1>2 DEF CommitUpload, UploadInv
<1>3. ASSUME NEW t \in Tasks, NEW a \in Agents, NEW d \in Docs \cup {NoDoc},
             SubmitTask(t, a, d)
      PROVE  /\ status[t] = "absent"
             /\ status' = [status EXCEPT ![t] = "queued"]
  BY <1>3 DEF SubmitTask, UploadInv
<1>4. QED
  BY <1>1, <1>2, <1>3 DEF ApiStep, BeginUpload, PushToRedis, AbortUpload,
     ClientUpload, ValidateDocument, taskVars

\* The abstract step that each step of the worker and of Redis takes.
LEMMA NextSolo ==
  ASSUME OneWorker, TypeOK, UploadInv, SoloInv, [Next]_vars
  PROVE  SoloInv' /\ [Lifecycle!Next]_<<status, retry>>
<1> USE DEF Lifecycle!Next, Lifecycle!Submit, Lifecycle!Start,
            Lifecycle!Complete, Lifecycle!Retry, Lifecycle!GiveUp
<1>1. CASE ApiStep
  <2>1. CASE UNCHANGED status
    BY <1>1, <2>1, ApiSubmits DEF SoloInv, workerVars
  <2>2. ASSUME NEW t \in Tasks, status[t] = "absent",
               status' = [status EXCEPT ![t] = "queued"]
        PROVE  SoloInv' /\ [Lifecycle!Next]_<<status, retry>>
    <3>1. UNCHANGED <<retry, failures, workerVars>>
      BY <1>1, ApiSubmits
    <3>2. Lifecycle!Submit(t)
      BY <2>2, <3>1
    <3>3. \A w \in Workers : pc[w] \in {"loaded", "running"} =>
            held[w] \in Tasks /\ held[w] # t
      BY <2>2 DEF UploadInv, TypeOK
    <3>4. SoloInv'
      BY <2>2, <3>1, <3>3 DEF SoloInv, workerVars, TypeOK
    <3>5. QED
      BY <3>2, <3>4
  <2>3. QED
    BY <1>1, <2>1, <2>2, ApiSubmits
<1>2. CASE RedisFails \/ RedisRecovers \/ UNCHANGED vars
  <2>1. UNCHANGED <<taskVars, workerVars, history>>
    BY <1>2 DEF RedisFails, RedisRecovers, vars
  <2>2. QED
    BY <2>1 DEF taskVars, workerVars, history, SoloInv
<1>3. ASSUME NEW w \in Workers,
             \/ PopTask(w) \/ PopNothing(w) \/ ScanDatabase(w) \/ CrashWorker(w)
      PROVE  SoloInv' /\ [Lifecycle!Next]_<<status, retry>>
  <2>1. /\ UNCHANGED <<taskVars, failures>>
        /\ pc'[w] \notin {"loaded", "running"}
    BY <1>3 DEF PopTask, PopNothing, ScanDatabase, CrashWorker, NextRound,
                history, TypeOK
  <2>2. \A v \in Workers : v = w
    BY DEF OneWorker
  <2>3. QED
    BY <2>1, <2>2 DEF SoloInv, taskVars
<1>4. ASSUME NEW w \in Workers, LoadTask(w)
      PROVE  SoloInv' /\ [Lifecycle!Next]_<<status, retry>>
  <2>1. UNCHANGED <<taskVars, failures>>
    BY <1>4 DEF LoadTask, history
  <2>2. \A v \in Workers : v = w
    BY DEF OneWorker
  <2>3. \/ pc'[w] = "idle"
        \/ /\ pc'[w] = "loaded"
           /\ held'[w] = held[w]
           /\ seenRetry'[w] = retry[held[w]]
           /\ seenStatus'[w] = status[held[w]]
           /\ status[held[w]] \in {"queued", "processing"}
    BY <1>4 DEF LoadTask, Claimable, NextRound, TypeOK
  <2>4. QED
    BY <2>1, <2>2, <2>3 DEF SoloInv, taskVars
<1>5. ASSUME NEW w \in Workers, ClaimTask(w)
      PROVE  SoloInv' /\ [Lifecycle!Next]_<<status, retry>>
  <2>1. PICK t \in Tasks : t = held[w]
    BY <1>5 DEF ClaimTask, TypeOK
  <2>2. /\ UNCHANGED <<retry, failures, held, seenRetry>>
        /\ pc'[w] = "running"
        /\ status[t] = seenStatus[w]
        /\ status[t] \in {"queued", "processing"}
        /\ \/ status[t] = "queued" /\ status' = [status EXCEPT ![t] = "processing"]
           \/ status[t] = "processing" /\ UNCHANGED status
    BY <1>5, <2>1 DEF ClaimTask, SoloInv, history, TypeOK
  <2>3. \A v \in Workers : v = w
    BY DEF OneWorker
  <2>4. SoloInv'
    BY <1>5, <2>1, <2>2, <2>3 DEF SoloInv, ClaimTask, TypeOK
  <2>5. [Lifecycle!Next]_<<status, retry>>
    BY <2>2
  <2>6. QED
    BY <2>4, <2>5
<1>6. ASSUME NEW w \in Workers, NEW confident \in BOOLEAN,
             FinishTask(w, confident)
      PROVE  SoloInv' /\ [Lifecycle!Next]_<<status, retry>>
  <2>1. PICK t \in Tasks : t = held[w]
    BY <1>6 DEF FinishTask, TypeOK
  <2>2. /\ UNCHANGED <<retry, failures>>
        /\ pc'[w] = "idle"
        /\ status[t] = "processing"
        /\ status' = [status EXCEPT ![t] = "completed"]
    BY <1>6, <2>1 DEF FinishTask, NextRound, SoloInv, history, TypeOK
  <2>3. \A v \in Workers : v = w
    BY DEF OneWorker
  <2>4. SoloInv'
    BY <2>2, <2>3 DEF SoloInv, TypeOK
  <2>5. QED
    BY <2>2, <2>4
<1>7. ASSUME NEW w \in Workers, FailTask(w)
      PROVE  SoloInv' /\ [Lifecycle!Next]_<<status, retry>>
  <2>1. PICK t \in Tasks : t = held[w]
    BY <1>7 DEF FailTask, TypeOK
  <2>2. /\ pc'[w] = "idle"
        /\ status[t] = "processing"
        /\ seenRetry[w] = retry[t]
        /\ retry' = [retry EXCEPT ![t] = retry[t] + 1]
        /\ status' = [status EXCEPT ![t] = StatusAfterFailure(retry[t] + 1)]
        /\ failures' = [failures EXCEPT ![t] = failures[t] + 1]
    <3>1. seenRetry[w] = retry[t] /\ status[t] = "processing"
      BY <1>7, <2>1 DEF FailTask, SoloInv
    <3>2. pc'[w] = "idle"
      BY <1>7 DEF FailTask, NextRound, TypeOK
    <3>3. /\ retry' = [retry EXCEPT ![held[w]] = seenRetry[w] + 1]
          /\ status' = [status EXCEPT ![held[w]] =
                          StatusAfterFailure(seenRetry[w] + 1)]
          /\ failures' = [failures EXCEPT ![held[w]] = failures[held[w]] + 1]
      BY <1>7 DEF FailTask
    <3>4. QED
      BY <2>1, <3>1, <3>2, <3>3
  <2>3. \A v \in Workers : v = w
    BY DEF OneWorker
  <2>4. /\ retry[t] \in Nat
        /\ retry[t] = failures[t]
        /\ retry[t] < MaxRetries
        /\ MaxRetries \in Nat
    BY <2>2, TaskQueueAssumption DEF SoloInv, TypeOK, TaskQueueAssumption
  <2>5. SoloInv'
    <3>1. ASSUME NEW u \in Tasks
          PROVE  /\ retry'[u] = failures'[u]
                 /\ retry'[u] <= MaxRetries
                 /\ status'[u] \in {"absent", "queued", "processing"} =>
                      retry'[u] < MaxRetries
      <4>1. CASE u = t
        BY <2>2, <2>4, <4>1 DEF StatusAfterFailure, TypeOK
      <4>2. CASE u # t
        BY <2>2, <4>2 DEF SoloInv, TypeOK
      <4>3. QED
        BY <4>1, <4>2
    <3>2. QED
      BY <2>2, <2>3, <3>1 DEF SoloInv
  <2>6. Lifecycle!Retry(t) \/ Lifecycle!GiveUp(t)
    <3>1. CASE retry[t] + 1 < MaxRetries
      <4>1. StatusAfterFailure(retry[t] + 1) = "queued"
        BY <3>1 DEF StatusAfterFailure
      <4>2. Lifecycle!Retry(t)
        BY <2>2, <3>1, <4>1
      <4>3. QED
        BY <4>2
    <3>2. CASE ~(retry[t] + 1 < MaxRetries)
      <4>1. StatusAfterFailure(retry[t] + 1) = "failed"
        BY <3>2 DEF StatusAfterFailure
      <4>2. retry[t] + 1 >= MaxRetries
        BY <2>4, <3>2
      <4>3. Lifecycle!GiveUp(t)
        BY <2>2, <4>1, <4>2
      <4>4. QED
        BY <4>3
    <3>3. QED
      BY <3>1, <3>2
  <2>7. QED
    BY <2>5, <2>6
<1>8. QED
  BY <1>1, <1>2, <1>3, <1>4, <1>5, <1>6, <1>7 DEF Next, WorkerStep

\* One worker: the table of tasks is a TaskLifecycle; in particular a finished
\* task stays finished although its id may still be in Redis.
THEOREM OneWorkerRefines ==
  ASSUME OneWorker PROVE Spec => ImplementsLifecycle
<1>1. Init => Lifecycle!Init
  BY DEF Init, Lifecycle!Init
<1>2. TypeOK /\ UploadInv /\ SoloInv /\ [Next]_vars
        => SoloInv' /\ [Lifecycle!Next]_<<status, retry>>
  BY NextSolo
<1>3. QED
  BY <1>1, <1>2, InitSolo, InitUpload, NextUpload, TypeCorrect, PTL
  DEF Spec, ImplementsLifecycle, Lifecycle!Spec, Lifecycle!lifecycleVars

\* One worker: no failed attempt is lost from the count, and the limit holds.
THEOREM OneWorkerCountsExactly ==
  ASSUME OneWorker PROVE Spec => []RetryCountIsExact
<1>1. SoloInv => RetryCountIsExact
  BY DEF SoloInv, RetryCountIsExact
<1>2. TypeOK /\ UploadInv /\ SoloInv /\ [Next]_vars => SoloInv'
  BY NextSolo
<1>3. QED
  BY <1>1, <1>2, InitSolo, InitUpload, NextUpload, TypeCorrect, PTL DEF Spec
=============================================================================
