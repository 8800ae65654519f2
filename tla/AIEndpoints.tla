---------------------------- MODULE AIEndpoints ----------------------------
(* What the site's chat does in the backend (api/v1/ai.py): calls that are *)
(* passed on to the AI core, each with a row of ai_tasks, and leads, which *)
(* become a client and a case.  Nobody is logged in; posts overlap.        *)
EXTENDS Naturals, FiniteSets

CONSTANTS
  Posts,         \* requests, each made once
  MaxOverlap,    \* those that may be under way at once
  ClientRows,    \* rows of clients, numbered
  Phones, Emails,
  Recommended,   \* what leads recommend
  Given,         \* the types of procedure that they name
  Empty          \* no row; no phone; no email

ASSUME ChatAssumption ==
  /\ ClientRows \subseteq Nat /\ MaxOverlap \in Nat
  /\ Empty \notin ClientRows \cup Phones \cup Emails
  /\ Empty \notin [phone : Phones \cup {Empty}, email : Emails \cup {Empty}]

\* The procedures that the two columns of a case can be read with.
ProcedureType ==
  {"asset_realization", "restructuring", "settlement", "extrajudicial", "undetermined"}
Endpoints == {"qualify", "chat", "consultant"}

VARIABLES
  client,        \* the row of a client: phone and email
  post,          \* what a request is about, and how far it is
  task,          \* the status in its row of ai_tasks ("none": no such row)
  file           \* the client whose case it has stored

chatVars == <<client, post, task, file>>

ChatInit ==
  /\ client = [c \in ClientRows |-> Empty]
  /\ post = [q \in Posts |-> [state |-> "new"]]
  /\ task = [q \in Posts |-> "none"]
  /\ file = [q \in Posts |-> Empty]

UnderWay == {q \in Posts : post[q].state \in {"calling", "loaded", "stored"}}
Begins(q) == post[q].state = "new" /\ Cardinality(UnderWay) < MaxOverlap
Becomes(q, s) == post' = [post EXCEPT ![q].state = s]

-----------------------------------------------------------------------------
(* Calls of the AI core.                                                   *)

\* The row is flushed, so that nobody else sees it yet.
Flushed == "none"

Call(q, endpoint) ==
  /\ Begins(q)
  /\ post' = [post EXCEPT ![q] = [state |-> "calling", endpoint |-> endpoint]]
  /\ task' = [task EXCEPT ![q] = Flushed]
  /\ UNCHANGED <<client, file>>

Recorded(q, status, told) ==
  /\ post[q].state = "calling"
  /\ task' = [task EXCEPT ![q] = status]
  /\ Becomes(q, told)
  /\ UNCHANGED <<client, file>>

\* A body that is no response is recorded all the same, and then not returned.
CoreAnswers(q) ==
  \/ Recorded(q, "completed", "answered")
  \/ Recorded(q, "completed", "failed")

\* A bad status, no connection, or no answer within 30 seconds.
CoreFails(q) == Recorded(q, "failed", "failed")

\* A body that is no JSON is an error of the AI core for the consultant alone.
CoreBabbles(q) ==
  Recorded(q, IF post[q].endpoint = "consultant" THEN "failed" ELSE "none", "failed")

\* A task submitted by staff stays queued: it is pushed to no queue.
Submit(q) ==
  /\ Begins(q)
  /\ task' = [task EXCEPT ![q] = "queued"]
  /\ Becomes(q, "answered")
  /\ UNCHANGED <<client, file>>

-----------------------------------------------------------------------------
(* Leads.                                                                  *)

Known(c) == client[c] # Empty
WithPhone(p) == {c \in ClientRows : p # Empty /\ Known(c) /\ client[c].phone = p}
WithEmail(e) == {c \in ClientRows : e # Empty /\ Known(c) /\ client[c].email = e}

\* Mutant: clients are looked for by email only.
OnlyByEmail(p, e) == WithEmail(e)
\* By phone, then by email; scalar_one_or_none() fails for two.
Existing(p, e) == IF WithPhone(p) # {} THEN WithPhone(p) ELSE WithEmail(e)

\* The case gets the recommendation and the type, or "undetermined" without one.
\* "after" is history: the posts whose cases are there already.
LoadLead(q, p, e, recommended, type) ==
  /\ Begins(q)
  /\ post' = [post EXCEPT ![q] =
       [state |-> IF Cardinality(Existing(p, e)) > 1 THEN "failed" ELSE "loaded",
        phone |-> p, email |-> e, procedures |-> {recommended, type},
        found |-> Existing(p, e), after |-> {k \in Posts : file[k] # Empty}]]
  /\ UNCHANGED <<client, task, file>>

IsNextRow(c) == ~Known(c) /\ \A d \in ClientRows : d < c => Known(d)

\* Client, case, task and event in one transaction.
CommitLead(q, c) ==
  /\ post[q].state = "loaded"
  /\ IF post[q].found = {} THEN IsNextRow(c) ELSE c \in post[q].found
  /\ client' = IF post[q].found = {}
               THEN [client EXCEPT ![c] = [phone |-> post[q].phone, email |-> post[q].email]]
               ELSE client
  /\ file' = [file EXCEPT ![q] = c]
  /\ task' = [task EXCEPT ![q] = "completed"]
  /\ Becomes(q, "stored")

\* Mutant: the columns' enumeration lacks a procedure.
OldReadable(procedures) == procedures \subseteq {"asset_realization", "undetermined"}
\* A name that is no ProcedureType can be written to a column but not be read.
Readable(procedures) == procedures \subseteq ProcedureType

\* The rows are read again for the response.
ReadBack(q) ==
  /\ post[q].state = "stored"
  /\ Becomes(q, IF Readable(post[q].procedures) THEN "answered" ELSE "failed")
  /\ UNCHANGED <<client, task, file>>

\* An exception or a restart rolls back what is not committed: always, if the
\* lead names a cost, which the event cannot hold (a Decimal is no JSON).  When
\* the connection is lost after the commit, the rows stay.
BreakOff(q) ==
  /\ q \in UnderWay
  /\ Becomes(q, IF post[q].state = "stored" THEN "lost" ELSE "failed")
  /\ UNCHANGED <<client, task, file>>

ChatNext ==
  \E q \in Posts :
    \/ \E endpoint \in Endpoints : Call(q, endpoint)
    \/ CoreAnswers(q) \/ CoreFails(q) \/ CoreBabbles(q) \/ Submit(q)
    \/ \E p \in Phones \cup {Empty}, e \in Emails \cup {Empty},
          k \in Recommended, t \in Given \cup {"undetermined"} : LoadLead(q, p, e, k, t)
    \/ \E c \in ClientRows : CommitLead(q, c)
    \/ ReadBack(q) \/ BreakOff(q)

ChatSpec == ChatInit /\ [][ChatNext]_chatVars

-----------------------------------------------------------------------------
\* A case is of the client who left that phone, or else that email, or of one made
\* for a post that left neither; and though overlapping posts make a second client
\* of one phone or email, there are no more of them than posts overlap: from the
\* second on they are found.
ClientsAreFound ==
  /\ \A q \in Posts : file[q] # Empty =>
       \/ client[file[q]].phone = post[q].phone /\ post[q].phone # Empty
       \/ client[file[q]].email = post[q].email /\ post[q].email # Empty
       \/ client[file[q]] = [phone |-> Empty, email |-> Empty] /\ post[q].found = {}
  /\ \A p \in Phones : Cardinality(WithPhone(p)) <= MaxOverlap
  /\ \A e \in Emails : Cardinality(WithEmail(e)) <= MaxOverlap

\* The later post q leaves the phone that k left, which is the client's.
Repeats(q, k) ==
  /\ k \in post[q].after /\ post[q].phone # Empty
  /\ post[q].phone = post[k].phone /\ post[q].phone = client[file[k]].phone

\* A post may be repeated, by those who were told of an error and by those who
\* were cut off after the commit: the repetition finds the client of the first,
\* and does not make another; there is no client without a case; an answer has
\* its task; and who was told of an error, the connection holding, has left a
\* case only if it cannot be read ("judicial", the usual recommendation of the AI
\* core, is such a one).
PostsMayBeRepeated ==
  /\ \A q \in Posts : file[q] # Empty =>
       /\ \A k \in Posts : Repeats(q, k) => file[q] = file[k]
       /\ post[q].state = "failed" => ~(post[q].procedures \subseteq ProcedureType)
  /\ \A c \in ClientRows : Known(c) => \E q \in Posts : file[q] = c
  /\ \A q \in Posts :
       /\ task[q] = "failed" => post[q].state = "failed"
       /\ post[q].state = "answered" => task[q] \in {"completed", "queued"}
=============================================================================
