------------------------------ MODULE TaskQueue ------------------------------
(***************************************************************************)
(* The asynchronous document pipeline of the backend.                      *)
(*                                                                         *)
(* The API (backend/app/api/v1/documents.py) stores a file in the object   *)
(* store, inserts a document and an "ocr" row into ai_tasks, pushes the    *)
(* row's id to a Redis list and only then commits.  Worker processes       *)
(* (backend/app/services/worker.py) pop ids from the list or, when it is   *)
(* empty, look for a queued row in the database, call AI Core over HTTP    *)
(* and write the outcome back.  Lawyers validate documents through the API *)
(* at any time.  No row is ever locked, so every await is an interleaving  *)
(* point: one action below is the code between two of them.                *)
(*                                                                         *)
(* Database rows become visible when their transaction commits.  An ORM    *)
(* object keeps the column values it was loaded with, and a commit writes  *)
(* the columns that differ from those.                                     *)
(***************************************************************************)
EXTENDS Naturals, Sequences

CONSTANTS
  Tasks,        \* identities of the rows that ai_tasks may come to hold
  Docs,         \* identities of the documents
  Workers,      \* worker processes
  Agents,       \* agent names a client may submit (subset of AgentNames)
  MaxRetries,   \* AITask.max_retries
  MaxCrashes,   \* bound: worker crashes (or failed commits) per task
  MaxOutages,   \* bound: times Redis goes down
  NoTask,       \* "this worker holds no task"
  NoDoc         \* "the task names no existing document"

AgentNames == {"ocr", "qualification", "document_gen", "unknown"}

ASSUME TaskQueueAssumption ==
  /\ MaxRetries \in Nat \ {0}
  /\ MaxCrashes \in Nat
  /\ MaxOutages \in Nat
  /\ NoTask \notin Tasks
  /\ NoDoc \notin Docs
  /\ Agents \subseteq AgentNames

VARIABLES
  \* committed rows of ai_tasks ("absent": no such row)
  status,       \* status column of each task
  retry,        \* retry_count column
  agent,        \* agent_name column
  taskDoc,      \* input_data["document_id"]
  origin,       \* which endpoint creates the task, hence its priority
  \* committed rows of documents, and the object store
  docs,         \* status column of each document
  blobs,        \* documents whose file is in the object store
  \* API handlers: progress of the request that creates each task
  request,
  arrivals,     \* tasks in the order their transactions began (created_at)
  \* Redis
  queue,        \* the list ai_task_queue; LPUSH puts at the head
  redisUp,
  outages,      \* number of outages so far
  \* workers
  pc,           \* where the worker's loop stands
  held,         \* the task id it is working on
  seenStatus,   \* status of the task as the worker's session loaded it
  seenRetry,    \* retry_count as the worker's session loaded it
  \* history
  failures,     \* failed attempts recorded for each task
  crashes       \* times a worker died holding each task

taskVars   == <<status, retry, agent, taskDoc, origin>>
docVars    == <<docs, blobs>>
apiVars    == <<request, arrivals>>
redisVars  == <<queue, redisUp, outages>>
workerVars == <<pc, held, seenStatus, seenRetry>>
history    == <<failures, crashes>>
vars       == <<taskVars, docVars, apiVars, redisVars, workerVars, history>>

TaskStatus  == {"queued", "processing", "completed", "failed"}
DocStatus   == {"uploaded", "processing", "extracted", "validated", "rejected"}
WorkerState == {"idle", "scan", "picked", "loaded", "running"}

TypeOK ==
  /\ status \in [Tasks -> TaskStatus \cup {"absent"}]
  /\ retry \in [Tasks -> Nat]
  /\ agent \in [Tasks -> AgentNames]
  /\ taskDoc \in [Tasks -> Docs \cup {NoDoc}]
  /\ origin \in [Tasks -> {"upload", "api"}]
  /\ docs \in [Docs -> DocStatus \cup {"absent"}]
  /\ blobs \subseteq Docs
  /\ request \in [Tasks -> {"none", "flushed", "pushed", "closed"}]
  /\ arrivals \in Seq(Tasks)
  /\ queue \in Seq(Tasks)
  /\ redisUp \in BOOLEAN
  /\ outages \in Nat
  /\ pc \in [Workers -> WorkerState]
  /\ held \in [Workers -> Tasks \cup {NoTask}]
  /\ seenStatus \in [Workers -> {"queued", "processing"}]
  /\ seenRetry \in [Workers -> Nat]
  /\ failures \in [Tasks -> Nat]
  /\ crashes \in [Tasks -> Nat]
  /\ \A w \in Workers :
       pc[w] \in {"picked", "loaded", "running"} => held[w] \in Tasks

Init ==
  /\ status = [t \in Tasks |-> "absent"]
  /\ retry = [t \in Tasks |-> 0]
  /\ agent = [t \in Tasks |-> "ocr"]
  /\ taskDoc = [t \in Tasks |-> NoDoc]
  /\ origin = [t \in Tasks |-> "upload"]
  /\ docs = [d \in Docs |-> "absent"]
  /\ blobs = {}
  /\ request = [t \in Tasks |-> "none"]
  /\ arrivals = << >>
  /\ queue = << >>
  /\ redisUp = TRUE
  /\ outages = 0
  /\ pc = [w \in Workers |-> "idle"]
  /\ held = [w \in Workers |-> NoTask]
  /\ seenStatus = [w \in Workers |-> "queued"]
  /\ seenRetry = [w \in Workers |-> 0]
  /\ failures = [t \in Tasks |-> 0]
  /\ crashes = [t \in Tasks |-> 0]

-----------------------------------------------------------------------------
(* API: POST /documents/upload/{case_id}                                   *)

\* A document id is a fresh UUID: no row and no pending upload uses it.
FreshDoc(d) ==
  /\ docs[d] = "absent"
  /\ \A t \in Tasks : taskDoc[t] # d

\* The file goes to the object store, then the document and the task are
\* inserted and flushed: they have ids, and nobody else sees them yet.
BeginUpload(t, d) ==
  /\ request[t] = "none"
  /\ FreshDoc(d)
  /\ blobs' = blobs \cup {d}
  /\ request' = [request EXCEPT ![t] = "flushed"]
  /\ arrivals' = Append(arrivals, t)
  /\ agent' = [agent EXCEPT ![t] = "ocr"]
  /\ taskDoc' = [taskDoc EXCEPT ![t] = d]
  /\ origin' = [origin EXCEPT ![t] = "upload"]
  /\ UNCHANGED <<status, retry, docs, redisVars, workerVars, history>>

\* LPUSH before the commit; an error is logged and the upload goes on.
PushToRedis(t) ==
  /\ request[t] = "flushed"
  /\ request' = [request EXCEPT ![t] = "pushed"]
  /\ \/ redisUp /\ queue' = <<t>> \o queue
     \/ ~redisUp /\ UNCHANGED queue
  /\ UNCHANGED <<taskVars, docVars, arrivals, redisUp, outages, workerVars,
                 history>>

\* The commit makes the document and its task visible together.
CommitUpload(t) ==
  /\ request[t] = "pushed"
  /\ request' = [request EXCEPT ![t] = "closed"]
  /\ status' = [status EXCEPT ![t] = "queued"]
  /\ docs' = [docs EXCEPT ![taskDoc[t]] = "processing"]
  /\ UNCHANGED <<retry, agent, taskDoc, origin, blobs, arrivals, redisVars,
                 workerVars, history>>

\* The handler dies or its commit fails: the session is closed and rolled
\* back; the file and the id in Redis stay behind.
AbortUpload(t) ==
  /\ request[t] \in {"flushed", "pushed"}
  /\ request' = [request EXCEPT ![t] = "closed"]
  /\ UNCHANGED <<taskVars, docVars, arrivals, redisVars, workerVars, history>>

\* POST /ai/tasks: a queued row, never pushed to Redis.
SubmitTask(t, a, d) ==
  /\ request[t] = "none"
  /\ d # NoDoc => docs[d] # "absent"
  /\ request' = [request EXCEPT ![t] = "closed"]
  /\ arrivals' = Append(arrivals, t)
  /\ status' = [status EXCEPT ![t] = "queued"]
  /\ agent' = [agent EXCEPT ![t] = a]
  /\ taskDoc' = [taskDoc EXCEPT ![t] = d]
  /\ origin' = [origin EXCEPT ![t] = "api"]
  /\ UNCHANGED <<retry, docVars, redisVars, workerVars, history>>

\* POST /client/documents/upload: a document without a task.
ClientUpload(d) ==
  /\ FreshDoc(d)
  /\ blobs' = blobs \cup {d}
  /\ docs' = [docs EXCEPT ![d] = "uploaded"]
  /\ UNCHANGED <<taskVars, apiVars, redisVars, workerVars, history>>

\* POST /documents/{id}/validate: the lawyer's decision, whatever the
\* document's status is.
ValidateDocument(d, decision) ==
  /\ docs[d] # "absent"
  /\ docs' = [docs EXCEPT ![d] = decision]
  /\ UNCHANGED <<taskVars, blobs, apiVars, redisVars, workerVars, history>>

-----------------------------------------------------------------------------
(* Worker: run_worker and process_task                                     *)

\* The loop starts its next round: the session of the last one is closed.
NextRound(w) ==
  /\ pc' = [pc EXCEPT ![w] = "idle"]
  /\ held' = [held EXCEPT ![w] = NoTask]
  /\ seenStatus' = [seenStatus EXCEPT ![w] = "queued"]
  /\ seenRetry' = [seenRetry EXCEPT ![w] = 0]

\* RPOP takes the oldest id of the list.
PopTask(w) ==
  /\ pc[w] = "idle"
  /\ redisUp
  /\ queue # << >>
  /\ held' = [held EXCEPT ![w] = queue[Len(queue)]]
  /\ queue' = SubSeq(queue, 1, Len(queue) - 1)
  /\ pc' = [pc EXCEPT ![w] = "picked"]
  /\ UNCHANGED <<taskVars, docVars, apiVars, redisUp, outages, seenStatus,
                 seenRetry, history>>

\* RPOP finds nothing.  (While Redis is down RPOP raises, the loop sleeps
\* and tries again: the fallback below is not reached.)
PopNothing(w) ==
  /\ pc[w] = "idle"
  /\ redisUp
  /\ queue = << >>
  /\ pc' = [pc EXCEPT ![w] = "scan"]
  /\ UNCHANGED <<taskVars, docVars, apiVars, redisVars, held, seenStatus,
                 seenRetry, history>>

Priority(t) == IF origin[t] = "upload" THEN 3 ELSE 5

\* ORDER BY priority, created_at
Precedes(t, u) ==
  \/ Priority(t) < Priority(u)
  \/ /\ Priority(t) = Priority(u)
     /\ \E i, j \in 1..Len(arrivals) :
          i <= j /\ arrivals[i] = t /\ arrivals[j] = u

\* Mutant: the fallback is missing.
NoFallback == {}

Queued == {t \in Tasks : status[t] = "queued"}

\* The database fallback: the first queued row, if there is one.
ScanDatabase(w) ==
  /\ pc[w] = "scan"
  /\ \/ /\ Queued = {}
        /\ pc' = [pc EXCEPT ![w] = "idle"]
        /\ UNCHANGED held
     \/ \E t \in Queued :
          /\ \A u \in Queued : Precedes(t, u)
          /\ held' = [held EXCEPT ![w] = t]
          /\ pc' = [pc EXCEPT ![w] = "picked"]
  /\ UNCHANGED <<taskVars, docVars, apiVars, redisVars, seenStatus,
                 seenRetry, history>>

\* Mutants: any row that exists, or even a row not committed yet, is taken up.
ClaimsFinished(t) == status[t] # "absent"
ClaimsMissing(t) == status[t] \notin {"completed", "failed"}

Claimable(t) == status[t] \in {"queued", "processing"}

\* process_task loads the row; one that does not exist (yet), or is
\* finished, is dropped.
LoadTask(w) ==
  /\ pc[w] = "picked"
  /\ \/ ~Claimable(held[w]) /\ NextRound(w)
     \/ /\ Claimable(held[w])
        /\ pc' = [pc EXCEPT ![w] = "loaded"]
        /\ seenStatus' = [seenStatus EXCEPT ![w] = status[held[w]]]
        /\ seenRetry' = [seenRetry EXCEPT ![w] = retry[held[w]]]
        /\ UNCHANGED held
  /\ UNCHANGED <<taskVars, docVars, apiVars, redisVars, history>>

\* status = "processing", committed: the column is written only if the
\* session loaded another value.
ClaimTask(w) ==
  /\ pc[w] = "loaded"
  /\ pc' = [pc EXCEPT ![w] = "running"]
  /\ status' = IF seenStatus[w] = "queued"
               THEN [status EXCEPT ![held[w]] = "processing"]
               ELSE status
  /\ UNCHANGED <<retry, agent, taskDoc, origin, docVars, apiVars, redisVars,
                 held, seenStatus, seenRetry, history>>

\* The status _process_ocr gives the document, by AI Core's confidence.
OcrVerdict(confident) == IF confident THEN "extracted" ELSE "uploaded"

TouchesDoc(t) == agent[t] = "ocr" /\ taskDoc[t] # NoDoc

\* AI Core answered (or nobody knows the agent): one commit writes the
\* document and the completed task.
FinishTask(w, confident) ==
  /\ pc[w] = "running"
  /\ status' = [status EXCEPT ![held[w]] = "completed"]
  /\ docs' = IF TouchesDoc(held[w])
             THEN [docs EXCEPT ![taskDoc[held[w]]] = OcrVerdict(confident)]
             ELSE docs
  /\ NextRound(w)
  /\ UNCHANGED <<retry, agent, taskDoc, origin, blobs, apiVars, redisVars,
                 history>>

\* Mutants: a failed attempt does not re-queue; the limit is off by one.
StaysProcessing(n) == "processing"
OneRetryTooFew(n) == IF n + 1 < MaxRetries THEN "queued" ELSE "failed"

\* "Retry if under limit"
StatusAfterFailure(n) == IF n < MaxRetries THEN "queued" ELSE "failed"

\* The call failed or timed out.  retry_count is computed from the value
\* the session loaded.
FailTask(w) ==
  /\ pc[w] = "running"
  /\ agent[held[w]] # "unknown"
  /\ LET n == seenRetry[w] + 1 IN
       /\ retry' = [retry EXCEPT ![held[w]] = n]
       /\ status' = [status EXCEPT ![held[w]] = StatusAfterFailure(n)]
  /\ failures' = [failures EXCEPT ![held[w]] = @ + 1]
  /\ NextRound(w)
  /\ UNCHANGED <<agent, taskDoc, origin, docVars, apiVars, redisVars, crashes>>

\* The worker process dies, or a commit of it raises: the loop starts
\* again and what it held in memory is gone.
CrashWorker(w) ==
  /\ pc[w] \in {"picked", "loaded", "running"}
  /\ crashes[held[w]] < MaxCrashes
  /\ crashes' = [crashes EXCEPT ![held[w]] = @ + 1]
  /\ NextRound(w)
  /\ UNCHANGED <<taskVars, docVars, apiVars, redisVars, failures>>

-----------------------------------------------------------------------------
(* Redis: no volume is mounted for it, so a restart may lose the list      *)

RedisFails ==
  /\ redisUp
  /\ outages < MaxOutages
  /\ redisUp' = FALSE
  /\ outages' = outages + 1
  /\ queue' \in {queue, << >>}
  /\ UNCHANGED <<taskVars, docVars, apiVars, workerVars, history>>

RedisRecovers ==
  /\ ~redisUp
  /\ redisUp' = TRUE
  /\ UNCHANGED <<taskVars, docVars, apiVars, queue, outages, workerVars,
                 history>>

-----------------------------------------------------------------------------
ApiStep ==
  \/ \E t \in Tasks, d \in Docs : BeginUpload(t, d)
  \/ \E t \in Tasks : PushToRedis(t)
  \/ \E t \in Tasks : CommitUpload(t)
  \/ \E t \in Tasks : AbortUpload(t)
  \/ \E t \in Tasks, a \in Agents, d \in Docs \cup {NoDoc} :
       SubmitTask(t, a, d)
  \/ \E d \in Docs : ClientUpload(d)
  \/ \E d \in Docs, decision \in {"validated", "rejected"} :
       ValidateDocument(d, decision)

\* What the worker's loop does by itself, one step at a time.
WorkerStep(w) ==
  \/ PopTask(w)
  \/ PopNothing(w)
  \/ ScanDatabase(w)
  \/ LoadTask(w)
  \/ ClaimTask(w)
  \/ \E confident \in BOOLEAN : FinishTask(w, confident)
  \/ FailTask(w)

Next ==
  \/ ApiStep
  \/ \E w \in Workers : WorkerStep(w)
  \/ \E w \in Workers : CrashWorker(w)
  \/ RedisFails
  \/ RedisRecovers

Spec == Init /\ [][Next]_vars

\* run_worker loops for ever and every call it makes has a timeout; Redis
\* is restarted when it is down.  Nothing is assumed of clients or lawyers.
Fairness ==
  /\ \A w \in Workers : WF_vars(WorkerStep(w))
  /\ WF_vars(RedisRecovers)

FairSpec == Spec /\ Fairness

-----------------------------------------------------------------------------
(* Properties                                                              *)

HeldBySomeone(t) == \E w \in Workers : pc[w] = "running" /\ held[w] = t

\* A row says "processing" only while some worker is working on it, unless a
\* worker died holding it: process_task always leaves the status it claimed
\* by a commit of its own, whatever other workers do to the same row.
ProcessingIsHeld ==
  \A t \in Tasks :
    status[t] = "processing" => HeldBySomeone(t) \/ crashes[t] > 0

\* A task is given up ("failed") only after max_retries failed attempts were
\* really made: stale retry counts of concurrent workers can lose attempts
\* but never invent one.
GivesUpOnlyAfterRetries ==
  \A t \in Tasks :
    /\ retry[t] <= failures[t]
    /\ status[t] = "failed" => failures[t] >= MaxRetries

\* A document in status "processing" always has its OCR task behind it: the
\* task is waiting, running or was given up.  A completed OCR task never
\* leaves its document in "processing".
ProcessingDocHasTask ==
  \A d \in Docs : docs[d] = "processing" =>
    \E t \in Tasks :
      /\ TouchesDoc(t)
      /\ taskDoc[t] = d
      /\ status[t] \in {"queued", "processing", "failed"}

\* An upload happens entirely or not at all, although its id is pushed to
\* Redis before the commit: an uncommitted task is never claimed by a
\* worker, it has no document, and every committed document has its file.
UploadIsAtomic ==
  /\ \A t \in Tasks :
       /\ origin[t] = "upload" /\ taskDoc[t] # NoDoc =>
            (status[t] = "absent" <=> docs[taskDoc[t]] = "absent")
       /\ status[t] = "absent" =>
            \A w \in Workers :
              pc[w] \in {"loaded", "running"} => held[w] # t
  /\ \A d \in Docs : docs[d] # "absent" => d \in blobs

\* With one worker no attempt is lost from the count: retry_count is the
\* number of failed attempts, and "retry if under limit" holds.
RetryCountIsExact ==
  \A t \in Tasks : retry[t] = failures[t] /\ failures[t] <= MaxRetries

\* With one worker the rows of ai_tasks behave as TaskLifecycle promises;
\* in particular a finished task is never taken up again, although its id may
\* still be in Redis after the fallback has processed it.
Lifecycle == INSTANCE TaskLifecycle WITH phase <- status, tries <- retry
ImplementsLifecycle == Lifecycle!Spec

\* A lawyer's decision on a document is changed by the lawyer only, never by
\* a worker that finishes afterwards.
DecisionStands ==
  [][\A d \in Docs :
       docs[d] \in {"validated", "rejected"} =>
         docs'[d] \in {"validated", "rejected"}]_vars

\* Every committed task settles for good, unless a worker died holding it:
\* ids lost by Redis, ids popped before the upload's commit and attempts that
\* fail are all made up for by the fallback.
EveryTaskSettles ==
  \A t \in Tasks :
    status[t] # "absent" ~>
      [](status[t] \in {"completed", "failed"} \/ crashes[t] > 0)
=============================================================================
