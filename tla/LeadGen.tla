------------------------------ MODULE LeadGen ------------------------------
(* The lead generation service (src/leadgen): messages of contacts become  *)
(* sources and leads, AI Studio qualifies leads, and staff confirm or      *)
(* reject the prospects, which creates clients in the CRM over HTTP.       *)
(* A request loads what it decides on and commits later; nothing is locked.*)
EXTENDS Sessions, Naturals, FiniteSets

CONSTANTS
  Contacts,     \* (channel, external id) of who writes
  Sources,      \* rows of lead_sources
  Leads,        \* rows of leads
  Tasks,        \* rows of qualification_tasks of one lead
  Edits,        \* statuses staff set by hand
  MaxClients,   \* bound on the clients created in the CRM for a lead
  None

VARIABLES
  source,       \* the contact of a source row
  lead,         \* the row of a lead, with its prospect's
  pending,      \* per lead its pending qualification tasks
  asked,        \* leads AI Studio has heard of: their results may come any time
  clients,      \* clients created in the CRM for a lead (in the CRM)
  lost,         \* of those, clients whose conversion was not committed
  req,          \* per request what it has loaded
  overlapped,   \* two requests have overlapped (a history variable)
  reopened      \* leads that were taken up again after their end (history)

vars == <<source, lead, pending, asked, clients, lost, req, overlapped, reopened>>

Closed == {"converted", "spam"}
Status == {"new", "in_progress", "qualified", "disqualified"} \cup Closed
Verdicts == {"qualified", "disqualified", "other"}
ClientIds == 0 .. MaxClients

ASSUME LeadGenAssumption ==
  /\ MaxClients \in Nat /\ Edits \subseteq Status
  /\ None \notin Contacts \cup Sources \cup Leads

NoRow == [status |-> "none", source |-> None, client |-> 0,
          prospect |-> "none", confirmed |-> 0]
Row == [status : Status, source : Sources, client : ClientIds,
        prospect : {"none", "pending", "rejected", "converted"}, confirmed : ClientIds]

Idle == [kind |-> "idle"]
Request ==
  [kind : {"sender"}, contact : Contacts, source : Sources \cup {None}]
  \cup [kind : {"message"}, contact : Contacts, source : Sources \cup {None},
        lead : Leads \cup {None}]
  \cup [kind : {"result"}, lead : Leads, verdict : Verdicts, seen : Status,
        tasks : SUBSET Tasks, prospect : BOOLEAN]
  \cup [kind : {"reject", "confirm"}, lead : Leads, seen : Status]
  \cup [kind : {"posted"}, lead : Leads, seen : Status, client : ClientIds]

TypeOK ==
  /\ source \in [Sources -> Contacts \cup {None}]
  /\ lead \in [Leads -> Row \cup {NoRow}]
  /\ pending \in [Leads -> SUBSET Tasks]
  /\ asked \subseteq Leads /\ reopened \subseteq Leads
  /\ clients \in [Leads -> ClientIds] /\ lost \in [Leads -> ClientIds]
  /\ req \in [Requests -> Request \cup {Idle}]
  /\ overlapped \in BOOLEAN

Init ==
  /\ source = [s \in Sources |-> None]
  /\ lead = [l \in Leads |-> NoRow]
  /\ pending = [l \in Leads |-> {}]
  /\ asked = {} /\ reopened = {}
  /\ clients = [l \in Leads |-> 0] /\ lost = [l \in Leads |-> 0]
  /\ req = [r \in Requests |-> Idle]
  /\ overlapped = FALSE

Exists(l) == lead[l] # NoRow
Rows == <<source, lead, pending, asked, clients, lost, reopened>>

\* A request starts with what it has loaded.
Open(r, loaded) ==
  /\ req[r] = Idle
  /\ req' = [req EXCEPT ![r] = loaded]
  /\ overlapped' = (overlapped \/ \E q \in Requests : req[q] # Idle)

Close(r) == req' = [req EXCEPT ![r] = Idle] /\ UNCHANGED overlapped

\* A request fails or is refused: nothing it wrote stays, but for the client
\* that the CRM has created for it.
Abort(r) ==
  /\ req[r] # Idle
  /\ Close(r)
  /\ lost' = IF req[r].kind = "posted" THEN [lost EXCEPT ![req[r].lead] = @ + 1] ELSE lost
  /\ UNCHANGED <<source, lead, pending, asked, clients, reopened>>

\* Lead l gets the status s; taking up a closed lead is remembered.
WithStatus(l, s) == [lead[l] EXCEPT !.status = s]
Reopened(l, s) == reopened \cup
  IF lead[l].status \in Closed /\ s \notin Closed THEN {l} ELSE {}

\* The ORM writes a column only if it differs from what was loaded.
Written(l, seen, s) == IF s = seen THEN lead[l].status ELSE s

-----------------------------------------------------------------------------
(* Messages of a contact.                                                  *)

\* scalar_one_or_none: several rows are an error, and the message is lost.
OneOrNone(S) == {x \in S \cup {None} : Cardinality(S) <= 1 /\ (x = None => S = {})}

SourcesOf(c) == {s \in Sources : source[s] = c}
\* Mutant: only leads nobody has worked on are looked for.
OnlyNew(s) == {l \in Leads : Exists(l) /\ lead[l].source = s /\ lead[l].status = "new"}
Active(s) == {l \in Leads : Exists(l) /\ lead[l].source = s /\ lead[l].status \notin Closed}

FindSource(r, c) ==
  /\ \E s \in OneOrNone(SourcesOf(c)) :
       Open(r, [kind |-> "sender", contact |-> c, source |-> s])
  /\ UNCHANGED Rows

FindLead(r) ==
  /\ req[r].kind = "sender"
  /\ \E l \in OneOrNone(Active(req[r].source)) :
       req' = [req EXCEPT ![r] = [kind |-> "message", contact |-> req[r].contact,
                                  source |-> req[r].source, lead |-> l]]
  /\ UNCHANGED <<source, lead, pending, asked, clients, lost, reopened, overlapped>>

\* What was not found is created, in one commit.
CommitMessage(r) ==
  /\ req[r].kind = "message"
  /\ \E s \in IF req[r].source = None THEN SourcesOf(None) ELSE {req[r].source} :
       /\ source' = [source EXCEPT ![s] = req[r].contact]
       /\ \/ req[r].lead # None /\ UNCHANGED lead
          \/ /\ req[r].lead = None
             /\ \E l \in {m \in Leads : ~Exists(m)} :
                  lead' = [lead EXCEPT ![l] = [status |-> "new", source |-> s, client |-> 0,
                                               prospect |-> "none", confirmed |-> 0]]
  /\ Close(r)
  /\ UNCHANGED <<pending, asked, clients, lost, reopened>>

-----------------------------------------------------------------------------
(* Qualification by AI Studio, which is told once and answers when it may. *)

\* The task is committed; the request to AI Studio may get lost.
QualifyLead(l) ==
  /\ Exists(l)
  /\ \E t \in Tasks \ pending[l] :
       /\ \A r \in Requests : req[r] # Idle /\ req[r].kind = "result" => t \notin req[r].tasks
       /\ pending' = [pending EXCEPT ![l] = @ \cup {t}]
  /\ asked' \in {asked, asked \cup {l}}
  /\ UNCHANGED <<source, lead, clients, lost, req, overlapped, reopened>>

\* Two pending tasks are an error: the result is refused.
LoadResult(r, l, v) ==
  /\ l \in asked /\ Cardinality(pending[l]) <= 1
  /\ Open(r, [kind |-> "result", lead |-> l, verdict |-> v, seen |-> lead[l].status,
              tasks |-> pending[l], prospect |-> lead[l].prospect # "none"])
  /\ UNCHANGED Rows

\* The status follows the verdict; the first good one makes a prospect, and a
\* lead has only one (the key of prospects).
CommitResult(r) ==
  LET q == req[r]
      l == q.lead
      makes == q.verdict = "qualified" /\ ~q.prospect
      s == IF q.verdict = "other" THEN lead[l].status ELSE Written(l, q.seen, q.verdict)
  IN
  /\ q.kind = "result" /\ (makes => lead[l].prospect = "none")
  /\ lead' = [lead EXCEPT ![l] =
       [WithStatus(l, s) EXCEPT !.prospect = IF makes THEN "pending" ELSE @]]
  /\ pending' = [pending EXCEPT ![l] = @ \ q.tasks]
  /\ reopened' = Reopened(l, s)
  /\ Close(r)
  /\ UNCHANGED <<source, asked, clients, lost>>

-----------------------------------------------------------------------------
(* Decisions of staff.                                                     *)

\* Mutant: whatever was decided before is decided on again.
AnyProspect(l) == lead[l].prospect # "none"
\* Only a pending prospect is decided on.
Decidable(l) == lead[l].prospect = "pending"

LoadDecision(r, l, kind) ==
  /\ Decidable(l)
  /\ Open(r, [kind |-> kind, lead |-> l, seen |-> lead[l].status])
  /\ UNCHANGED Rows

\* The CRM creates a client; then the lead is loaded.
PostToCRM(r) ==
  /\ req[r].kind = "confirm" /\ clients[req[r].lead] < MaxClients
  /\ clients' = [clients EXCEPT ![req[r].lead] = @ + 1]
  /\ req' = [req EXCEPT ![r] =
       [kind |-> "posted", lead |-> req[r].lead, seen |-> lead[req[r].lead].status,
        client |-> clients'[req[r].lead]]]
  /\ UNCHANGED <<source, lead, pending, asked, lost, reopened, overlapped>>

CommitConversion(r) ==
  LET q == req[r] IN
  /\ q.kind = "posted"
  /\ lead' = [lead EXCEPT ![q.lead] =
       [WithStatus(q.lead, Written(q.lead, q.seen, "converted")) EXCEPT
          !.prospect = "converted", !.confirmed = q.client, !.client = q.client]]
  /\ Close(r)
  /\ UNCHANGED <<source, pending, asked, clients, lost, reopened>>

CommitRejection(r) ==
  LET q == req[r]
      s == Written(q.lead, q.seen, "in_progress")
  IN
  /\ q.kind = "reject"
  /\ lead' = [lead EXCEPT ![q.lead] = [WithStatus(q.lead, s) EXCEPT !.prospect = "rejected"]]
  /\ reopened' = Reopened(q.lead, s)
  /\ Close(r)
  /\ UNCHANGED <<source, pending, asked, clients, lost>>

\* Staff set any status, or mark the lead as spam.
UpdateLead(l, s) ==
  /\ Exists(l)
  /\ lead' = [lead EXCEPT ![l] = WithStatus(l, s)]
  /\ reopened' = Reopened(l, s)
  /\ UNCHANGED <<source, pending, asked, clients, lost, req, overlapped>>

Next ==
  \/ \E r \in Requests :
       \/ \E c \in Contacts : FindSource(r, c)
       \/ \E l \in Leads, v \in Verdicts : LoadResult(r, l, v)
       \/ \E l \in Leads, kind \in {"confirm", "reject"} : LoadDecision(r, l, kind)
       \/ FindLead(r) \/ CommitMessage(r) \/ CommitResult(r)
       \/ PostToCRM(r) \/ CommitConversion(r) \/ CommitRejection(r) \/ Abort(r)
  \/ \E l \in Leads : QualifyLead(l)
  \/ \E l \in Leads, s \in Edits : UpdateLead(l, s)

Spec == Init /\ [][Next]_vars

-----------------------------------------------------------------------------
\* However confirmations, rejections and late results race, a prospect and its
\* lead name the same client, and it is one the CRM has created.
RowsAgreeOnClient ==
  \A l \in Leads : lead[l].client = lead[l].confirmed /\ lead[l].client <= clients[l]

\* Requests that do not overlap create a second client for a lead only after
\* the commit of an earlier conversion has failed.
OneClientPerLead == ~overlapped => \A l \in Leads : clients[l] <= 1 + lost[l]

\* ... and a prospect is converted exactly if it has a client.
ConvertedHasClient ==
  ~overlapped => \A l \in Leads : (lead[l].prospect = "converted") <=> (lead[l].client # 0)

\* A contact whose messages did not overlap has one source, and no message of
\* it is refused unless one of its leads was taken up again: a second open
\* lead, which makes every later message an error, comes about only so.
OpenLeads(c) == {l \in Leads :
  Exists(l) /\ source[lead[l].source] = c /\ lead[l].status \notin Closed}
OnlyReopeningBlocks ==
  ~overlapped => \A c \in Contacts :
    /\ Cardinality({s \in Sources : source[s] = c}) <= 1
    /\ OpenLeads(c) \cap reopened = {} => Cardinality(OpenLeads(c)) <= 1

\* Leads, their prospects and the CRM agree on the clients there are.
ClientsAgree == TypeOK /\ RowsAgreeOnClient /\ ConvertedHasClient /\ OneClientPerLead
=============================================================================
