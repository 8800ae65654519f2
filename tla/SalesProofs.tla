---------------------------- MODULE SalesProofs ----------------------------
(* What makes leads stays sound: the lead generation service, whose clients *)
(* are counted although nothing is locked, the chat of the site, and the    *)
(* rows of prospecting.                                                     *)
EXTENDS LeadGen, Prospecting, AIEndpoints, FiniteSetTheorems, TLAPS

-----------------------------------------------------------------------------
(* The lead generation service.  Its clients are counted: each one the CRM *)
(* has created is lost, is in the row of its lead, or is about to be       *)
(* written.                                                                *)

\* Requests that have had a client created for lead l.
PostedFor(l) == {r \in Requests : req[r].kind = "posted" /\ req[r].lead = l}

\* Clients that are lost or about to be written are clients.
Counted(l) ==
  /\ IsFiniteSet(PostedFor(l))
  /\ lost[l] + Cardinality(PostedFor(l)) <= clients[l]

\* A request decides on leads there are, and knows a client there is.
RequestInv(r) ==
  /\ req[r].kind \in {"result", "reject", "confirm", "posted"} => Exists(req[r].lead)
  /\ req[r].kind = "posted" => req[r].client \in 1 .. clients[req[r].lead]

RowsInv ==
  /\ TypeOK
  /\ asked \subseteq {l \in Leads : Exists(l)}
  /\ RowsAgreeOnClient
  /\ \A l \in Leads : Counted(l)
  /\ \A r \in Requests : RequestInv(r)

\* A request is a record of its kind.
LEMMA RequestType ==
  ASSUME TypeOK, NEW r \in Requests
  PROVE  /\ req[r].kind = "idle" => req[r] = Idle
         /\ req[r].kind = "sender" => req[r] \in
              [kind : {"sender"}, contact : Contacts, source : Sources \cup {None}]
         /\ req[r].kind = "message" => req[r] \in
              [kind : {"message"}, contact : Contacts, source : Sources \cup {None},
               lead : Leads \cup {None}]
         /\ req[r].kind = "result" => req[r] \in
              [kind : {"result"}, lead : Leads, verdict : Verdicts, seen : Status,
               tasks : SUBSET Tasks, prospect : BOOLEAN]
         /\ req[r].kind \in {"reject", "confirm"} => req[r] \in
              [kind : {"reject", "confirm"}, lead : Leads, seen : Status]
         /\ req[r].kind = "posted" => req[r] \in
              [kind : {"posted"}, lead : Leads, seen : Status, client : ClientIds]
         /\ req[r].kind \in {"idle", "sender", "message", "result", "reject",
              "confirm",
                             "posted"}
<1>1. req[r] \in Request \cup {Idle} BY DEF TypeOK
<1>2. CASE req[r] = Idle BY <1>2 DEF Idle
<1>3. CASE req[r] \in [kind : {"sender"}, contact : Contacts,
             source : Sources \cup {None}]
  BY <1>3
<1>4. CASE req[r] \in [kind : {"message"}, contact : Contacts,
                       source : Sources \cup {None}, lead : Leads \cup {None}]
  BY <1>4
<1>5. CASE req[r] \in [kind : {"result"}, lead : Leads, verdict : Verdicts,
             seen : Status,
                       tasks : SUBSET Tasks, prospect : BOOLEAN]
  BY <1>5
<1>6. CASE req[r] \in [kind : {"reject", "confirm"}, lead : Leads,
             seen : Status] BY <1>6
<1>7. CASE req[r] \in [kind : {"posted"}, lead : Leads, seen : Status,
             client : ClientIds]
  BY <1>7
<1> QED BY <1>1, <1>2, <1>3, <1>4, <1>5, <1>6, <1>7 DEF Request

\* A lead there is has a row, whose status is never that of no row.
LEMMA ExistsType ==
  ASSUME TypeOK, NEW l \in Leads
  PROVE  /\ Exists(l) <=> lead[l] \in Row
         /\ lead[l].prospect # "none" => Exists(l)
         /\ lead[l].client \in ClientIds /\ lead[l].confirmed \in ClientIds
BY LeadGenAssumption DEF TypeOK, Exists, Row, NoRow, Status, Closed, ClientIds

\* What is written to a row there is leaves a row.
LEMMA StatusType ==
  ASSUME TypeOK, NEW l \in Leads, Exists(l), NEW s \in Status
  PROVE  WithStatus(l, s) \in Row /\ WithStatus(l, s).status = s
         /\ WithStatus(l, s).source = lead[l].source
         /\ WithStatus(l, s).client = lead[l].client
         /\ WithStatus(l, s).confirmed = lead[l].confirmed
         /\ WithStatus(l, s).prospect = lead[l].prospect
<1>1. lead[l] \in Row BY ExistsType
<1> QED BY <1>1 DEF WithStatus, Row

\* Whatever happens to rows, requests and counts: what to look at.
LEMMA RowsKept ==
  ASSUME RowsInv, TypeOK',
         \A l \in Leads : Exists(l) => lead'[l] # NoRow,
         \A l \in asked' : l \in asked \/ lead'[l] # NoRow,
         \A l \in Leads : lead'[l].client = lead'[l].confirmed,
         \A l \in Leads : lead'[l].client <= clients'[l],
         \A l \in Leads : clients[l] <= clients'[l],
         \A l \in Leads : Counted(l)',
         \A r \in Requests : req'[r] = req[r] \/ RequestInv(r)'
  PROVE  RowsInv'
<1>1. asked' \subseteq {l \in Leads : lead'[l] # NoRow}
  BY DEF RowsInv, TypeOK, Exists
<1>2. ASSUME NEW r \in Requests, req'[r] = req[r] PROVE RequestInv(r)'
  <2>1. RequestInv(r) BY DEF RowsInv
  <2>2. req[r].kind \in {"result", "reject", "confirm", "posted"} =>
          req[r].lead \in Leads
    BY RequestType DEF RowsInv
  <2>3. req[r].kind = "posted" =>
          /\ clients[req[r].lead] <= clients'[req[r].lead]
          /\ clients[req[r].lead] \in Nat /\ clients'[req[r].lead] \in Nat
    BY <2>2, LeadGenAssumption DEF RowsInv, TypeOK, ClientIds
  <2> QED BY <1>2, <2>1, <2>2, <2>3 DEF RequestInv, Exists
<1> QED BY <1>1, <1>2 DEF RowsInv, RowsAgreeOnClient, Exists

\* While no client is created and none is lost, clients stay counted.
LEMMA CountedStays ==
  ASSUME RowsInv, clients' = clients, lost' = lost, NEW l \in Leads,
         PostedFor(l)' \subseteq PostedFor(l)
  PROVE  Counted(l)'
<1>1. Counted(l) BY DEF RowsInv
<1>2. IsFiniteSet(PostedFor(l)')
        /\ Cardinality(PostedFor(l)') <= Cardinality(PostedFor(l))
  BY <1>1, FS_Subset DEF Counted
<1>3. Cardinality(PostedFor(l)) \in Nat /\ Cardinality(PostedFor(l)') \in Nat
  BY <1>1, <1>2, FS_CardinalityType DEF Counted
<1>4. lost[l] \in Nat /\ clients[l] \in Nat
  BY LeadGenAssumption DEF RowsInv, TypeOK, ClientIds
<1>5. lost[l] + Cardinality(PostedFor(l)') <= clients[l]
  BY <1>1, <1>2, <1>3, <1>4 DEF Counted
<1> QED BY <1>2, <1>5 DEF Counted

\* A request goes on or ends without a client of its own.
LEMMA RequestGoesOn ==
  ASSUME RowsInv, TypeOK', NEW r \in Requests, NEW x,
         req' = [req EXCEPT ![r] = x], x.kind # "posted", RequestInv(r)',
         clients' = clients, lost' = lost, asked' = asked,
         \A l \in Leads : Exists(l) => lead'[l] # NoRow,
         \A l \in Leads : lead'[l].client = lead'[l].confirmed,
         \A l \in Leads : lead'[l].client <= clients[l]
  PROVE  RowsInv'
<1>1. req'[r] = x /\ \A q \in Requests : q # r => req'[q] = req[q] BY DEF RowsInv,
        TypeOK
<1>2. ASSUME NEW l \in Leads PROVE Counted(l)'
  <2>1. PostedFor(l)' \subseteq PostedFor(l) BY <1>1 DEF PostedFor
  <2> QED BY <2>1, CountedStays
<1>3. \A q \in Requests : req'[q] = req[q] \/ RequestInv(q)' BY <1>1
<1>4. \A l \in Leads : clients[l] <= clients'[l]
  BY LeadGenAssumption DEF RowsInv, TypeOK, ClientIds
<1> QED BY <1>2, <1>3, <1>4, RowsKept

\* An idle request is one without a lead.
LEMMA IdleInv ==
  ASSUME NEW r \in Requests, req'[r] = Idle PROVE RequestInv(r)'
BY DEF RequestInv, Idle

\* Requests that only read: they load, or pass on what they have loaded.
LEMMA RowsRead ==
  ASSUME RowsInv, NEW r \in Requests, NEW x \in Request \cup {Idle},
         req' = [req EXCEPT ![r] = x], x.kind # "posted", overlapped' \in BOOLEAN,
         x.kind \in {"result", "reject", "confirm"} => Exists(x.lead),
         UNCHANGED Rows
  PROVE  RowsInv'
<1>1. UNCHANGED <<source, lead, pending, asked, clients, lost, reopened>> BY DEF Rows
<1>2. TypeOK' BY <1>1 DEF RowsInv, TypeOK
<1>3. req'[r] = x BY DEF RowsInv, TypeOK
<1>4. RequestInv(r)' BY <1>1, <1>3 DEF RequestInv, Exists
<1>5. \A l \in Leads : lead[l].client = lead[l].confirmed
        /\ lead[l].client <= clients[l]
  BY DEF RowsInv, RowsAgreeOnClient
<1> QED BY <1>1, <1>2, <1>4, <1>5, RequestGoesOn DEF Exists

\* What a request loads is there; loading creates no client.
LEMMA FindsRows ==
  ASSUME RowsInv, NEW r \in Requests,
         \/ \E c \in Contacts : FindSource(r, c)
         \/ FindLead(r)
         \/ \E l \in Leads, v \in Verdicts : LoadResult(r, l, v)
         \/ \E l \in Leads, kind \in {"confirm", "reject"} : LoadDecision(r, l, kind)
  PROVE  RowsInv'
<1>1. TypeOK BY DEF RowsInv
<1>2. ASSUME NEW x, Open(r, x)
      PROVE  req' = [req EXCEPT ![r] = x] /\ overlapped' \in BOOLEAN
  BY <1>2, <1>1 DEF Open, TypeOK
<1>3. ASSUME NEW c \in Contacts, FindSource(r, c) PROVE RowsInv'
  <2>1. PICK s \in OneOrNone(SourcesOf(c)) :
      Open(r, [kind |-> "sender", contact |-> c, source |-> s])
    BY <1>3 DEF FindSource
  <2>2. s \in Sources \cup {None} BY DEF OneOrNone, SourcesOf
  <2> DEFINE x == [kind |-> "sender", contact |-> c, source |-> s]
  <2>3. x \in Request /\ x.kind = "sender" BY <2>2 DEF Request
  <2>4. req' = [req EXCEPT ![r] = x] /\ overlapped' \in BOOLEAN BY <1>2, <2>1
  <2>5. UNCHANGED Rows BY <1>3 DEF FindSource
  <2> HIDE DEF x
  <2> QED BY <2>3, <2>4, <2>5, RowsRead
<1>4. ASSUME FindLead(r) PROVE RowsInv'
  <2>1. PICK l \in OneOrNone(Active(req[r].source)) :
      req' = [req EXCEPT ![r] = [kind |-> "message", contact |-> req[r].contact,
                                 source |-> req[r].source, lead |-> l]]
    BY <1>4 DEF FindLead
  <2>2. l \in Leads \cup {None} BY DEF OneOrNone, Active
  <2>3. req[r].contact \in Contacts /\ req[r].source \in Sources \cup {None}
    BY <1>1, <1>4, RequestType DEF FindLead
  <2> DEFINE x == [kind |-> "message", contact |-> req[r].contact,
                   source |-> req[r].source, lead |-> l]
  <2>4. x \in Request /\ x.kind = "message" BY <2>2, <2>3 DEF Request
  <2>5. req' = [req EXCEPT ![r] = x] BY <2>1
  <2>6. UNCHANGED Rows /\ overlapped' \in BOOLEAN BY <1>1, <1>4 DEF FindLead, Rows,
          TypeOK
  <2> HIDE DEF x
  <2> QED BY <2>4, <2>5, <2>6, RowsRead
<1>5. ASSUME NEW l \in Leads, NEW v \in Verdicts, LoadResult(r, l, v) PROVE RowsInv'
  <2> DEFINE x == [kind |-> "result", lead |-> l, verdict |-> v,
        seen |-> lead[l].status,
                   tasks |-> pending[l], prospect |-> lead[l].prospect # "none"]
  <2>1. Exists(l) BY <1>5 DEF LoadResult, RowsInv
  <2>2. lead[l].status \in Status BY <1>1, <2>1, ExistsType DEF Row
  <2>3. pending[l] \in SUBSET Tasks BY <1>1 DEF TypeOK
  <2>4. (lead[l].prospect # "none") \in BOOLEAN OBVIOUS
  <2>5. x \in Request /\ x.kind = "result" /\ x.lead = l BY <2>2, <2>3,
          <2>4 DEF Request
  <2>6. UNCHANGED Rows /\ Open(r, x) BY <1>5 DEF LoadResult
  <2> HIDE DEF x
  <2>7. req' = [req EXCEPT ![r] = x] /\ overlapped' \in BOOLEAN BY <1>2, <2>6
  <2> QED BY <2>1, <2>5, <2>6, <2>7, RowsRead
<1>6. ASSUME NEW l \in Leads, NEW kind \in {"confirm", "reject"}, LoadDecision(r,
               l, kind)
      PROVE  RowsInv'
  <2> DEFINE x == [kind |-> kind, lead |-> l, seen |-> lead[l].status]
  <2>1. Exists(l) BY <1>1, <1>6, ExistsType DEF LoadDecision, Decidable
  <2>2. lead[l].status \in Status BY <1>1, <2>1, ExistsType DEF Row
  <2>3. x \in Request /\ x.kind = kind /\ x.lead = l BY <2>2 DEF Request
  <2>4. UNCHANGED Rows /\ Open(r, x) BY <1>6 DEF LoadDecision
  <2> HIDE DEF x
  <2>5. req' = [req EXCEPT ![r] = x] /\ overlapped' \in BOOLEAN BY <1>2, <2>4
  <2> QED BY <2>1, <2>3, <2>4, <2>5, RowsRead
<1> QED BY <1>3, <1>4, <1>5, <1>6

\* A row is written, and the request that did so, if any, is over.
LEMMA RowsWrite ==
  ASSUME RowsInv, NEW l \in Leads, NEW row \in Row,
         row.client = row.confirmed, row.client <= clients[l],
         lead' = [lead EXCEPT ![l] = row],
         req' = req \/ \E r \in Requests : req' = [req EXCEPT ![r] = Idle],
         source' \in [Sources -> Contacts \cup {None}],
         pending' \in [Leads -> SUBSET Tasks], reopened' \subseteq Leads,
         UNCHANGED <<asked, clients, lost, overlapped>>
  PROVE  RowsInv'
<1>1. TypeOK BY DEF RowsInv
<1>2. TypeOK' BY <1>1 DEF TypeOK
<1>3. lead'[l] = row /\ \A k \in Leads : k # l =>
        lead'[k] = lead[k] BY <1>1 DEF TypeOK
<1>4. row # NoRow BY DEF Row, NoRow, Status, Closed
<1>5. \A r \in Requests : req'[r] = req[r] \/ req'[r] = Idle BY <1>1 DEF TypeOK
<1>6. ASSUME NEW k \in Leads PROVE Counted(k)'
  <2>1. PostedFor(k)' \subseteq PostedFor(k) BY <1>5 DEF PostedFor, Idle
  <2> QED BY <2>1, CountedStays
<1>7. ASSUME NEW k \in Leads
      PROVE  /\ Exists(k) => lead'[k] # NoRow
             /\ lead'[k].client = lead'[k].confirmed /\ lead'[k].client <= clients'[k]
  BY <1>3, <1>4 DEF RowsInv, RowsAgreeOnClient, Exists
<1>8. \A r \in Requests : req'[r] = req[r] \/ RequestInv(r)' BY <1>5, IdleInv
<1>9. \A k \in Leads : clients[k] <= clients'[k]
  BY <1>1, LeadGenAssumption DEF TypeOK, ClientIds
<1> QED BY <1>2, <1>6, <1>7, <1>8, <1>9, RowsKept

\* Commits of messages, results and decisions, and edits.
LEMMA CommitsRows ==
  ASSUME RowsInv, NEW r \in Requests,
         CommitMessage(r) \/ CommitResult(r) \/ CommitConversion(r)
           \/ CommitRejection(r)
  PROVE  RowsInv'
<1>1. TypeOK /\ req[r] \in Request \cup {Idle} BY DEF RowsInv, TypeOK
<1>2. ASSUME CommitMessage(r) PROVE RowsInv'
  <2>1. req[r].contact \in Contacts /\ req[r].source \in Sources \cup {None}
    BY <1>1, <1>2, RequestType DEF CommitMessage
  <2>2. PICK s \in (IF req[r].source = None THEN SourcesOf(None) ELSE {req[r].source}) :
         /\ source' = [source EXCEPT ![s] = req[r].contact]
         /\ \/ req[r].lead # None /\ UNCHANGED lead
            \/ /\ req[r].lead = None
               /\ \E l \in {m \in Leads : ~Exists(m)} :
                    lead' = [lead EXCEPT ![l] = [status |-> "new", source |-> s,
                               client |-> 0, prospect |-> "none", confirmed |-> 0]]
    BY <1>2 DEF CommitMessage
  <2>3. s \in Sources BY <2>1 DEF SourcesOf
  <2>4. source' \in [Sources -> Contacts \cup {None}] BY <1>1, <2>1, <2>2 DEF TypeOK
  <2>5. /\ req' = [req EXCEPT ![r] = Idle]
        /\ UNCHANGED <<pending, asked, clients, lost, reopened, overlapped>>
    BY <1>2 DEF CommitMessage, Close
  <2>6. pending' \in [Leads -> SUBSET Tasks] /\ reopened' \subseteq Leads
    BY <1>1, <2>5 DEF TypeOK
  <2>7. CASE UNCHANGED lead
    <3>1. TypeOK' BY <1>1, <2>4, <2>5, <2>7 DEF TypeOK
    <3>2. Idle.kind # "posted" BY DEF Idle
    <3>3. req'[r] = Idle BY <1>1, <2>5 DEF TypeOK
    <3>4. RequestInv(r)' BY <3>3, IdleInv
    <3>5. \A l \in Leads : lead[l].client = lead[l].confirmed
            /\ lead[l].client <= clients[l]
      BY DEF RowsInv, RowsAgreeOnClient
    <3> QED BY <2>5, <2>7, <3>1, <3>2, <3>4, <3>5, RequestGoesOn DEF Exists
  <2>8. ASSUME NEW l \in Leads,
               lead' = [lead EXCEPT ![l] = [status |-> "new", source |-> s,
                 client |-> 0,
                                            prospect |-> "none", confirmed |-> 0]]
        PROVE  RowsInv'
    <3> DEFINE row == [status |-> "new", source |-> s, client |-> 0,
                       prospect |-> "none", confirmed |-> 0]
    <3>1. row \in Row /\ row.client = 0 /\ row.confirmed = 0
      BY <2>3, LeadGenAssumption DEF Row, Status, ClientIds
    <3>2. 0 <= clients[l] BY <1>1, LeadGenAssumption DEF TypeOK, ClientIds
    <3>3. lead' = [lead EXCEPT ![l] = row] BY <2>8
    <3> HIDE DEF row
    <3> QED BY <2>4, <2>5, <2>6, <3>1, <3>2, <3>3, RowsWrite
  <2> QED BY <2>2, <2>7, <2>8
<1>3. ASSUME CommitResult(r) PROVE RowsInv'
  <2> DEFINE q == req[r]
             l == q.lead
             makes == q.verdict = "qualified" /\ ~q.prospect
             s == IF q.verdict = "other" THEN lead[l].status
                  ELSE Written(l, q.seen, q.verdict)
             row == [WithStatus(l,
               s) EXCEPT !.prospect = IF makes THEN "pending" ELSE @]
  <2>1. q.kind = "result" /\ l \in Leads /\ q.verdict \in Verdicts
          /\ q.tasks \in SUBSET Tasks
    BY <1>1, <1>3, RequestType DEF CommitResult
  <2>2. Exists(l) BY <2>1 DEF RowsInv, RequestInv
  <2>3. s \in Status
    <3>1. lead[l].status \in Status BY <1>1, <2>1, <2>2, ExistsType DEF Row
    <3> QED BY <2>1, <3>1 DEF Written, Verdicts, Status
  <2>4. /\ WithStatus(l, s) \in Row /\ WithStatus(l, s).client = lead[l].client
        /\ WithStatus(l, s).confirmed = lead[l].confirmed
    BY <1>1, <2>1, <2>2, <2>3, StatusType
  <2>5. row \in Row /\ row.client = lead[l].client
          /\ row.confirmed = lead[l].confirmed
    BY <2>4 DEF Row
  <2>6. lead[l].client = lead[l].confirmed /\ lead[l].client <= clients[l]
    BY <2>1 DEF RowsInv, RowsAgreeOnClient
  <2>7. /\ lead' = [lead EXCEPT ![l] = row]
        /\ req' = [req EXCEPT ![r] = Idle]
        /\ pending' = [pending EXCEPT ![l] = @ \ q.tasks]
        /\ reopened' = Reopened(l, s)
        /\ UNCHANGED <<source, asked, clients, lost, overlapped>>
    BY <1>3 DEF CommitResult, Close
  <2>8. /\ source' \in [Sources -> Contacts \cup {None}]
        /\ pending' \in [Leads -> SUBSET Tasks] /\ reopened' \subseteq Leads
    BY <1>1, <2>1, <2>7 DEF TypeOK, Reopened
  <2> HIDE DEF row, l
  <2> QED BY <2>1, <2>5, <2>6, <2>7, <2>8, RowsWrite
<1>4. ASSUME CommitConversion(r) PROVE RowsInv'
  <2> DEFINE q == req[r]
             l == q.lead
             s == Written(l, q.seen, "converted")
             row == [WithStatus(l, s) EXCEPT !.prospect = "converted",
                                             !.confirmed = q.client,
                                               !.client = q.client]
  <2>1. q.kind = "posted" /\ l \in Leads /\ q.client \in ClientIds
    BY <1>1, <1>4, RequestType DEF CommitConversion
  <2>2. Exists(l) /\ q.client \in 1 .. clients[l] BY <2>1 DEF RowsInv, RequestInv
  <2>3. s \in Status
    <3>1. lead[l].status \in Status BY <1>1, <2>1, <2>2, ExistsType DEF Row
    <3> QED BY <3>1 DEF Written, Status, Closed
  <2>4. WithStatus(l, s) \in Row BY <1>1, <2>1, <2>2, <2>3, StatusType
  <2>5. row \in Row /\ row.client = q.client /\ row.confirmed = q.client
    BY <2>1, <2>4 DEF Row
  <2>6. q.client <= clients[l]
    BY <1>1, <2>1, <2>2, LeadGenAssumption DEF TypeOK, ClientIds
  <2>7. /\ lead' = [lead EXCEPT ![l] = row]
        /\ req' = [req EXCEPT ![r] = Idle]
        /\ UNCHANGED <<source, pending, asked, clients, lost, reopened, overlapped>>
    BY <1>4 DEF CommitConversion, Close
  <2>8. /\ source' \in [Sources -> Contacts \cup {None}]
        /\ pending' \in [Leads -> SUBSET Tasks] /\ reopened' \subseteq Leads
    BY <1>1, <2>7 DEF TypeOK
  <2> HIDE DEF row, l
  <2> QED BY <2>1, <2>5, <2>6, <2>7, <2>8, RowsWrite
<1>5. ASSUME CommitRejection(r) PROVE RowsInv'
  <2> DEFINE q == req[r]
             l == q.lead
             s == Written(l, q.seen, "in_progress")
             row == [WithStatus(l, s) EXCEPT !.prospect = "rejected"]
  <2>1. q.kind = "reject" /\ l \in Leads
    BY <1>1, <1>5, RequestType DEF CommitRejection
  <2>2. Exists(l) BY <2>1 DEF RowsInv, RequestInv
  <2>3. s \in Status
    <3>1. lead[l].status \in Status BY <1>1, <2>1, <2>2, ExistsType DEF Row
    <3> QED BY <3>1 DEF Written, Status
  <2>4. /\ WithStatus(l, s) \in Row /\ WithStatus(l, s).client = lead[l].client
        /\ WithStatus(l, s).confirmed = lead[l].confirmed
    BY <1>1, <2>1, <2>2, <2>3, StatusType
  <2>5. row \in Row /\ row.client = lead[l].client
          /\ row.confirmed = lead[l].confirmed
    BY <2>4 DEF Row
  <2>6. lead[l].client = lead[l].confirmed /\ lead[l].client <= clients[l]
    BY <2>1 DEF RowsInv, RowsAgreeOnClient
  <2>7. /\ lead' = [lead EXCEPT ![l] = row]
        /\ req' = [req EXCEPT ![r] = Idle]
        /\ reopened' = Reopened(l, s)
        /\ UNCHANGED <<source, pending, asked, clients, lost, overlapped>>
    BY <1>5 DEF CommitRejection, Close
  <2>8. /\ source' \in [Sources -> Contacts \cup {None}]
        /\ pending' \in [Leads -> SUBSET Tasks] /\ reopened' \subseteq Leads
    BY <1>1, <2>1, <2>7 DEF TypeOK, Reopened
  <2> HIDE DEF row, l
  <2> QED BY <2>1, <2>5, <2>6, <2>7, <2>8, RowsWrite
<1> QED BY <1>2, <1>3, <1>4, <1>5

\* Staff who set the status of a lead leave its client alone.
LEMMA EditsRows ==
  ASSUME RowsInv, NEW l \in Leads, NEW s \in Edits, UpdateLead(l, s) PROVE RowsInv'
<1> DEFINE row == WithStatus(l, s)
<1>1. TypeOK /\ Exists(l) /\ s \in Status BY LeadGenAssumption DEF RowsInv, UpdateLead
<1>2. row \in Row /\ row.client = lead[l].client /\ row.confirmed = lead[l].confirmed
  BY <1>1, StatusType
<1>3. lead[l].client = lead[l].confirmed /\ lead[l].client <= clients[l]
  BY DEF RowsInv, RowsAgreeOnClient
<1>4. /\ lead' = [lead EXCEPT ![l] = row] /\ req' = req /\ reopened' = Reopened(l, s)
      /\ UNCHANGED <<source, pending, asked, clients, lost, overlapped>>
  BY DEF UpdateLead
<1>5. /\ source' \in [Sources -> Contacts \cup {None}]
      /\ pending' \in [Leads -> SUBSET Tasks] /\ reopened' \subseteq Leads
  BY <1>1, <1>4 DEF TypeOK, Reopened
<1> HIDE DEF row
<1> QED BY <1>2, <1>3, <1>4, <1>5, RowsWrite

\* A task is added, and AI Studio may have heard of it.
LEMMA AsksStudio ==
  ASSUME RowsInv, NEW l \in Leads, QualifyLead(l) PROVE RowsInv'
<1>1. TypeOK /\ Exists(l) BY DEF RowsInv, QualifyLead
<1>2. /\ \E t \in Tasks : pending' = [pending EXCEPT ![l] = @ \cup {t}]
      /\ asked' \subseteq asked \cup {l}
      /\ UNCHANGED <<source, lead, clients, lost, req, overlapped, reopened>>
  BY DEF QualifyLead
<1>3. TypeOK' BY <1>1, <1>2 DEF TypeOK
<1>4. ASSUME NEW k \in Leads PROVE Counted(k)'
  <2>1. PostedFor(k)' \subseteq PostedFor(k) BY <1>2 DEF PostedFor
  <2> QED BY <1>2, <2>1, CountedStays
<1>5. \A k \in Leads : clients[k] <= clients'[k]
  BY <1>1, <1>2, LeadGenAssumption DEF TypeOK, ClientIds
<1>6. \A k \in asked' : k \in asked \/ lead'[k] # NoRow BY <1>1, <1>2 DEF Exists
<1>7. \A k \in Leads : /\ Exists(k) => lead'[k] # NoRow
                       /\ lead'[k].client = lead'[k].confirmed
                       /\ lead'[k].client <= clients'[k]
  BY <1>2 DEF RowsInv, RowsAgreeOnClient, Exists
<1> QED BY <1>2, <1>3, <1>4, <1>5, <1>6, <1>7, RowsKept

\* The CRM creates a client: it is about to be written.
LEMMA PostsRows ==
  ASSUME RowsInv, NEW r \in Requests, PostToCRM(r) PROVE RowsInv'
<1> DEFINE l == req[r].lead
           x == [kind |-> "posted", lead |-> l, seen |-> lead[l].status,
                 client |-> clients'[l]]
<1>1. TypeOK /\ req[r].kind = "confirm" /\ l \in Leads /\ Exists(l)
  <2>1. TypeOK /\ req[r].kind = "confirm" BY DEF RowsInv, PostToCRM
  <2>2. l \in Leads BY <2>1, RequestType
  <2> QED BY <2>1, <2>2 DEF RowsInv, RequestInv
<1>2. /\ clients' = [clients EXCEPT ![l] = @ + 1] /\ clients[l] < MaxClients
      /\ req' = [req EXCEPT ![r] = x]
      /\ UNCHANGED <<source, lead, pending, asked, lost, reopened, overlapped>>
  BY DEF PostToCRM
<1>3. clients[l] \in Nat /\ clients'[l] = clients[l] + 1 /\ clients'[l] \in ClientIds
      /\ clients' \in [Leads -> ClientIds]
      /\ \A k \in Leads : k # l => clients'[k] = clients[k]
  BY <1>1, <1>2, LeadGenAssumption DEF TypeOK, ClientIds
<1>4. lead[l].status \in Status BY <1>1, ExistsType DEF Row
<1>5. x \in Request /\ x.kind = "posted" /\ x.lead = l /\ x.client = clients'[l]
  BY <1>1, <1>3, <1>4 DEF Request
<1> HIDE DEF x
<1>6. req'[r] = x /\ \A q \in Requests : q # r => req'[q] = req[q]
  BY <1>1, <1>2 DEF TypeOK
<1>7. TypeOK' BY <1>1, <1>2, <1>3, <1>5 DEF TypeOK
<1>8. ASSUME NEW k \in Leads PROVE Counted(k)'
  <2>1. Counted(k) BY DEF RowsInv
  <2>2. CASE k # l
    <3>1. PostedFor(k)' = PostedFor(k) BY <1>1, <1>5, <1>6, <2>2 DEF PostedFor
    <3> QED BY <1>2, <1>3, <2>1, <2>2, <3>1 DEF Counted
  <2>3. CASE k = l
    <3>1. PostedFor(k)' = PostedFor(k) \cup {r} BY <1>1, <1>5, <1>6,
            <2>3 DEF PostedFor
    <3>2. r \notin PostedFor(k) BY <1>1 DEF PostedFor
    <3>3. /\ IsFiniteSet(PostedFor(k) \cup {r})
          /\ Cardinality(PostedFor(k) \cup {r}) = Cardinality(PostedFor(k)) + 1
      BY <2>1, <3>2, FS_AddElement DEF Counted
    <3>4. Cardinality(PostedFor(k)) \in Nat BY <2>1, <2>3,
            FS_CardinalityType DEF Counted
    <3>5. lost[k] \in Nat /\ lost' = lost
      BY <1>1, <1>2, LeadGenAssumption DEF TypeOK, ClientIds
    <3>6. lost'[k] + Cardinality(PostedFor(k)') <= clients'[k]
      BY <1>3, <2>1, <2>3, <3>1, <3>3, <3>4, <3>5 DEF Counted
    <3> QED BY <2>3, <3>1, <3>3, <3>6 DEF Counted
  <2> QED BY <2>2, <2>3
<1>9. RequestInv(r)' BY <1>1, <1>2, <1>3, <1>5, <1>6 DEF RequestInv, Exists
<1>10. ASSUME NEW k \in Leads
       PROVE  /\ Exists(k) => lead'[k] # NoRow
              /\ lead'[k].client = lead'[k].confirmed
              /\ lead'[k].client <= clients'[k] /\ clients[k] <= clients'[k]
  <2>1. lead[k].client \in Nat /\ clients[k] \in Nat /\ lead[k].client <= clients[k]
        /\ lead[k].client = lead[k].confirmed
    BY <1>1, ExistsType, LeadGenAssumption
    DEF RowsInv, RowsAgreeOnClient, TypeOK, ClientIds
  <2> QED BY <1>2, <1>3, <2>1 DEF Exists
<1>11. \A q \in Requests : req'[q] = req[q] \/ RequestInv(q)' BY <1>6, <1>9
<1> QED BY <1>2, <1>7, <1>8, <1>10, <1>11, RowsKept

\* A request that fails after the CRM has created a client for it loses it.
LEMMA AbortsRows ==
  ASSUME RowsInv, NEW r \in Requests, Abort(r) PROVE RowsInv'
<1>1. TypeOK BY DEF RowsInv
<1>2. /\ req' = [req EXCEPT ![r] = Idle]
      /\ UNCHANGED <<source, lead, pending, asked, clients, reopened, overlapped>>
      /\ lost' = IF req[r].kind = "posted" THEN [lost EXCEPT ![req[r].lead] = @ + 1] ELSE lost
  BY DEF Abort, Close
<1>3. req'[r] = Idle /\ Idle.kind # "posted" /\ \A q \in Requests : q # r =>
        req'[q] = req[q]
  BY <1>1, <1>2 DEF TypeOK, Idle
<1>4. \A l \in Leads : lead[l].client = lead[l].confirmed
        /\ lead[l].client <= clients[l]
  BY DEF RowsInv, RowsAgreeOnClient
<1>5. CASE req[r].kind # "posted"
  <2>1. TypeOK' BY <1>1, <1>2, <1>5 DEF TypeOK
  <2>2. RequestInv(r)' BY <1>3, IdleInv
  <2> QED BY <1>2, <1>3, <1>4, <1>5, <2>1, <2>2, RequestGoesOn DEF Exists
<1>6. CASE req[r].kind = "posted"
  <2> DEFINE l == req[r].lead
  <2>1. l \in Leads BY <1>1, <1>6, RequestType
  <2>2. lost[l] \in Nat /\ clients[l] \in 0 .. MaxClients /\ lost'[l] = lost[l] + 1
        /\ \A k \in Leads : k # l => lost'[k] = lost[k]
    BY <1>1, <1>2, <1>6, <2>1, LeadGenAssumption DEF TypeOK, ClientIds
  <2>3. ASSUME NEW k \in Leads PROVE Counted(k)'
    <3>1. Counted(k) BY DEF RowsInv
    <3>2. CASE k # l
      <4>1. PostedFor(k)' = PostedFor(k) BY <1>3, <3>2 DEF PostedFor
      <4> QED BY <1>2, <2>2, <3>1, <3>2, <4>1 DEF Counted
    <3>3. CASE k = l
      <4>1. PostedFor(k)' = PostedFor(k) \ {r} BY <1>3 DEF PostedFor
      <4>2. r \in PostedFor(k) BY <1>6, <3>3 DEF PostedFor
      <4>3. /\ IsFiniteSet(PostedFor(k) \ {r})
            /\ Cardinality(PostedFor(k) \ {r}) = Cardinality(PostedFor(k)) - 1
        BY <3>1, <3>3, <4>2, FS_RemoveElement DEF Counted
      <4>4. Cardinality(PostedFor(k)) \in Nat BY <3>1, <3>3,
              FS_CardinalityType DEF Counted
      <4>5. lost'[k] + Cardinality(PostedFor(k)') <= clients'[k]
        BY <1>2, <2>2, <3>1, <3>3, <4>1, <4>3, <4>4 DEF Counted
      <4> QED BY <3>3, <4>1, <4>3, <4>5 DEF Counted
    <3> QED BY <3>2, <3>3
  <2>4. lost[l] + 1 <= MaxClients
    <3>1. Counted(l) BY <2>1 DEF RowsInv
    <3>2. r \in PostedFor(l) BY <1>6 DEF PostedFor
    <3>3. Cardinality(PostedFor(l)) \in Nat /\ Cardinality(PostedFor(l)) # 0
      BY <3>1, <3>2, FS_CardinalityType, FS_EmptySet DEF Counted
    <3> QED BY <2>2, <3>1, <3>3, LeadGenAssumption DEF Counted
  <2>5. lost' \in [Leads -> ClientIds]
    BY <1>1, <1>2, <1>6, <2>1, <2>2, <2>4, LeadGenAssumption DEF TypeOK, ClientIds
  <2>6. TypeOK' BY <1>1, <1>2, <2>5 DEF TypeOK
  <2>7. \A q \in Requests : req'[q] = req[q] \/ RequestInv(q)' BY <1>3, IdleInv
  <2>8. \A k \in Leads : clients[k] <= clients'[k]
    BY <1>1, <1>2, LeadGenAssumption DEF TypeOK, ClientIds
  <2> QED BY <1>2, <1>4, <2>3, <2>6, <2>7, <2>8, RowsKept DEF Exists
<1> QED BY <1>5, <1>6

\* Every step keeps the clients counted, however requests overlap.
LEMMA RowsStep == ASSUME RowsInv, [Next]_vars PROVE RowsInv'
<1>1. CASE Next
  BY <1>1, FindsRows, CommitsRows, EditsRows, AsksStudio, PostsRows, AbortsRows
  DEF Next
<1>2. CASE UNCHANGED vars
  <2>1. TypeOK' BY <1>2 DEF vars, RowsInv, TypeOK
  <2>2. ASSUME NEW l \in Leads PROVE Counted(l)'
    <3>1. PostedFor(l)' = PostedFor(l) BY <1>2 DEF vars, PostedFor
    <3> QED BY <1>2, <3>1, CountedStays DEF vars
  <2>3. ASSUME NEW l \in Leads
        PROVE  /\ Exists(l) => lead'[l] # NoRow
               /\ lead'[l].client = lead'[l].confirmed
               /\ lead'[l].client <= clients'[l] /\ clients[l] <= clients'[l]
    BY <1>2, LeadGenAssumption
    DEF vars, RowsInv, RowsAgreeOnClient, TypeOK, ClientIds, Exists
  <2> QED BY <1>2, <2>1, <2>2, <2>3, RowsKept DEF vars
<1> QED BY <1>1, <1>2

-----------------------------------------------------------------------------
(* Requests that do not overlap.                                           *)

Deciding == {"reject", "confirm", "posted"}

IsPosted(l) == \E r \in Requests : req[r].kind = "posted" /\ req[r].lead = l

\* How many clients of l are in its row or about to be.
Taken(l) == IF lead[l].prospect = "converted" \/ IsPosted(l) THEN 1 ELSE 0

OneBusy == \A r, q \in Requests : req[r] # Idle /\ req[q] # Idle => r = q
DecidesPending ==
  \A r \in Requests : req[r].kind \in Deciding =>
    lead[req[r].lead].prospect = "pending"
ConvertedFits(l) == lead[l].prospect = "converted" <=> lead[l].client # 0
Accounted(l) == clients[l] <= lost[l] + Taken(l)

AloneInv == ~overlapped =>
  OneBusy /\ DecidesPending /\ \A l \in Leads : ConvertedFits(l) /\ Accounted(l)

\* A request that starts alone, or goes on alone, finds all others idle.
LEMMA OthersIdle ==
  ASSUME RowsInv, AloneInv, ~overlapped, NEW r \in Requests, NEW x,
         req' = [req EXCEPT ![r] = x],
         req[r] # Idle \/ \A q \in Requests : req[q] = Idle
  PROVE  /\ req'[r] = x
         /\ \A q \in Requests : q # r => req[q] = Idle /\ req'[q] = Idle
         /\ OneBusy'
<1>1. req'[r] = x /\ \A q \in Requests : q # r => req'[q] = req[q]
  BY DEF RowsInv, TypeOK
<1>2. \A q \in Requests : q # r => req[q] = Idle BY DEF AloneInv, OneBusy
<1> QED BY <1>1, <1>2 DEF OneBusy

\* A request that starts without being overlapped.
LEMMA OpensAlone ==
  ASSUME RowsInv, AloneInv, ~overlapped', NEW r \in Requests, NEW x, Open(r, x)
  PROVE  /\ ~overlapped /\ req' = [req EXCEPT ![r] = x]
         /\ \A q \in Requests : req[q] = Idle
BY DEF Open

\* While rows stay and nobody has a client to write, clients stay accounted for.
LEMMA AccountsStay ==
  ASSUME RowsInv, AloneInv, ~overlapped,
         \A l \in Leads : ~IsPosted(l) /\ ~IsPosted(l)',
         UNCHANGED <<clients, lost>>,
         \A l \in Leads :
           /\ lead'[l].prospect = "converted" <=> lead[l].prospect = "converted"
           /\ lead'[l].client = lead[l].client
  PROVE  \A l \in Leads : ConvertedFits(l)' /\ Accounted(l)'
<1> TAKE l \in Leads
<1>1. ConvertedFits(l) /\ Accounted(l) BY DEF AloneInv
<1> QED BY <1>1 DEF ConvertedFits, Accounted, Taken

\* Requests that only read.
LEMMA ReadsAlone ==
  ASSUME RowsInv, AloneInv, ~overlapped', NEW r \in Requests,
         \/ \E c \in Contacts : FindSource(r, c)
         \/ FindLead(r)
         \/ \E l \in Leads, v \in Verdicts : LoadResult(r, l, v)
         \/ \E l \in Leads, kind \in {"confirm", "reject"} : LoadDecision(r, l, kind)
  PROVE  AloneInv'
<1>1. ASSUME NEW x, ~overlapped, req' = [req EXCEPT ![r] = x],
             req[r] # Idle \/ (\A q \in Requests : req[q] = Idle),
             req[r].kind # "posted", x.kind # "posted",
             x.kind \in Deciding => lead[x.lead].prospect = "pending", UNCHANGED Rows
      PROVE  AloneInv'
  <2>1. /\ req'[r] = x /\ OneBusy'
        /\ \A q \in Requests : q # r => req[q] = Idle /\ req'[q] = Idle
    BY <1>1, OthersIdle
  <2>2. UNCHANGED <<lead, clients, lost>> BY <1>1 DEF Rows
  <2>3. DecidesPending' BY <1>1, <2>1, <2>2 DEF DecidesPending, Idle, Deciding
  <2>4. \A l \in Leads : ~IsPosted(l) /\ ~IsPosted(l)' BY <1>1, <2>1 DEF IsPosted,
          Idle
  <2>5. \A l \in Leads : ConvertedFits(l)' /\ Accounted(l)'
    BY <1>1, <2>2, <2>4, AccountsStay
  <2> QED BY <2>1, <2>3, <2>5 DEF AloneInv
<1>2. ASSUME NEW c \in Contacts, FindSource(r, c) PROVE AloneInv'
  <2>1. PICK s : Open(r, [kind |-> "sender", contact |-> c, source |-> s])
    BY <1>2 DEF FindSource
  <2>2. UNCHANGED Rows BY <1>2 DEF FindSource
  <2> QED BY <1>1, <2>1, <2>2, OpensAlone DEF Idle, Deciding
<1>3. ASSUME FindLead(r) PROVE AloneInv'
  <2>1. PICK l : req' = [req EXCEPT ![r] = [kind |-> "message",
                          contact |-> req[r].contact, source |-> req[r].source,
                            lead |-> l]]
    BY <1>3 DEF FindLead
  <2>2. /\ UNCHANGED Rows /\ ~overlapped /\ req[r].kind = "sender" /\ req[r] # Idle
    BY <1>3 DEF FindLead, Rows, Idle
  <2> DEFINE x == [kind |-> "message", contact |-> req[r].contact,
                   source |-> req[r].source, lead |-> l]
  <2>3. req' = [req EXCEPT ![r] = x] /\ x.kind = "message" BY <2>1
  <2> HIDE DEF x
  <2> QED BY <1>1, <2>2, <2>3 DEF Deciding
<1>4. ASSUME NEW l \in Leads, NEW v \in Verdicts, LoadResult(r, l, v) PROVE AloneInv'
  <2> DEFINE x == [kind |-> "result", lead |-> l, verdict |-> v,
        seen |-> lead[l].status,
                   tasks |-> pending[l], prospect |-> lead[l].prospect # "none"]
  <2>1. Open(r, x) /\ x.kind = "result" /\ UNCHANGED Rows BY <1>4 DEF LoadResult
  <2> HIDE DEF x
  <2> QED BY <1>1, <2>1, OpensAlone DEF Idle, Deciding
<1>5. ASSUME NEW l \in Leads, NEW kind \in {"confirm", "reject"}, LoadDecision(r,
               l, kind)
      PROVE  AloneInv'
  <2> DEFINE x == [kind |-> kind, lead |-> l, seen |-> lead[l].status]
  <2>1. /\ Open(r, x) /\ x.kind = kind /\ x.lead = l /\ UNCHANGED Rows
        /\ lead[l].prospect = "pending"
    BY <1>5 DEF LoadDecision, Decidable
  <2> HIDE DEF x
  <2> QED BY <1>1, <2>1, OpensAlone DEF Idle, Deciding
<1> QED BY <1>2, <1>3, <1>4, <1>5

\* Steps without a request: the rows' clients and decisions stay.
LEMMA EditsAlone ==
  ASSUME RowsInv, AloneInv, ~overlapped', NEW l \in Leads,
         QualifyLead(l) \/ \E s \in Edits : UpdateLead(l, s)
  PROVE  AloneInv'
<1>1. UNCHANGED <<req, clients, lost, overlapped>> BY DEF QualifyLead, UpdateLead
<1>2. ASSUME NEW k \in Leads
      PROVE  lead'[k].prospect = lead[k].prospect /\ lead'[k].client = lead[k].client
  <2>1. CASE QualifyLead(l) BY <2>1 DEF QualifyLead
  <2>2. ASSUME NEW s \in Edits, UpdateLead(l, s)
        PROVE  lead'[k].prospect = lead[k].prospect
                 /\ lead'[k].client = lead[k].client
    <3>1. TypeOK /\ Exists(l) /\ s \in Status
      BY <2>2, LeadGenAssumption DEF RowsInv, UpdateLead
    <3>2. /\ WithStatus(l, s).client = lead[l].client
          /\ WithStatus(l, s).prospect = lead[l].prospect
      BY <3>1, StatusType
    <3>3. lead' = [lead EXCEPT ![l] = WithStatus(l, s)] BY <2>2 DEF UpdateLead
    <3>4. lead'[k] = IF k = l THEN WithStatus(l, s) ELSE lead[k]
      BY <3>1, <3>3 DEF TypeOK
    <3> QED BY <3>2, <3>4
  <2> QED BY <2>1, <2>2
<1>3. OneBusy' BY <1>1 DEF AloneInv, OneBusy
<1>4. DecidesPending'
  <2>1. \A r \in Requests : req[r].kind \in Deciding => req[r].lead \in Leads
    BY RequestType DEF RowsInv, Deciding
  <2>2. DecidesPending BY <1>1 DEF AloneInv
  <2> QED BY <1>1, <1>2, <2>1, <2>2 DEF DecidesPending
<1>5. ASSUME NEW k \in Leads PROVE ConvertedFits(k)' /\ Accounted(k)'
  <2>1. ConvertedFits(k) /\ Accounted(k) BY <1>1 DEF AloneInv
  <2>2. IsPosted(k)' <=> IsPosted(k) BY <1>1 DEF IsPosted
  <2> QED BY <1>1, <1>2, <2>1, <2>2 DEF ConvertedFits, Accounted, Taken
<1> QED BY <1>3, <1>4, <1>5 DEF AloneInv

\* What a request writes when it commits: the rows decide how many clients of
\* their lead are accounted for.
LEMMA CommitsAlone ==
  ASSUME RowsInv, AloneInv, ~overlapped', NEW r \in Requests,
         CommitMessage(r) \/ CommitResult(r) \/ CommitConversion(r)
           \/ CommitRejection(r)
  PROVE  AloneInv'
<1>1. TypeOK /\ ~overlapped
  BY DEF RowsInv, CommitMessage, CommitResult, CommitConversion, CommitRejection,
     Close
<1>2. /\ req' = [req EXCEPT ![r] = Idle] /\ clients' = clients /\ lost' = lost
      /\ req[r].kind \in {"message", "result", "posted", "reject"} /\ req[r] # Idle
  BY DEF CommitMessage, CommitResult, CommitConversion, CommitRejection, Close, Idle
<1>3. /\ req'[r] = Idle /\ OneBusy'
      /\ \A q \in Requests : q # r => req[q] = Idle /\ req'[q] = Idle
  BY <1>1, <1>2, OthersIdle
<1>4. DecidesPending' BY <1>3 DEF DecidesPending, Idle, Deciding
<1>5. \A l \in Leads : ~IsPosted(l)' BY <1>3 DEF IsPosted, Idle
<1>6. ASSUME req[r].kind # "posted",
             \A l \in Leads :
               /\ lead'[l].prospect = "converted" <=> lead[l].prospect = "converted"
               /\ lead'[l].client = lead[l].client
      PROVE  AloneInv'
  <2>1. \A l \in Leads : ~IsPosted(l) BY <1>3, <1>6 DEF IsPosted, Idle
  <2>2. \A l \in Leads : ConvertedFits(l)' /\ Accounted(l)'
    BY <1>1, <1>2, <1>5, <1>6, <2>1, AccountsStay
  <2> QED BY <1>3, <1>4, <2>2 DEF AloneInv
<1>7. CASE CommitMessage(r)
  <2>1. \/ lead' = lead
        \/ \E s : \E l \in Leads : ~Exists(l) /\ lead' = [lead EXCEPT ![l] =
             [status |-> "new", source |-> s, client |-> 0, prospect |-> "none",
              confirmed |-> 0]]
    BY <1>7 DEF CommitMessage
  <2>2. CASE lead' = lead BY <1>6, <1>7, <2>2 DEF CommitMessage
  <2>3. ASSUME NEW l \in Leads, NEW s, ~Exists(l), lead' = [lead EXCEPT ![l] =
                [status |-> "new", source |-> s, client |-> 0, prospect |-> "none",
                 confirmed |-> 0]]
        PROVE  AloneInv'
    <3>1. lead[l].prospect = "none" /\ lead[l].client = 0 BY <2>3 DEF Exists, NoRow
    <3>2. /\ lead'[l].prospect = "none" /\ lead'[l].client = 0
          /\ \A k \in Leads : k # l => lead'[k] = lead[k]
      BY <1>1, <2>3 DEF TypeOK
    <3> QED BY <1>6, <1>7, <3>1, <3>2 DEF CommitMessage
  <2> QED BY <2>1, <2>2, <2>3
<1>8. CASE CommitResult(r)
  <2> DEFINE q == req[r]
             l == q.lead
             makes == q.verdict = "qualified" /\ ~q.prospect
             s == IF q.verdict = "other" THEN lead[l].status
                  ELSE Written(l, q.seen, q.verdict)
             row == [WithStatus(l,
               s) EXCEPT !.prospect = IF makes THEN "pending" ELSE @]
  <2>1. q.kind = "result" /\ l \in Leads /\ q.verdict \in Verdicts
    BY <1>1, <1>8, RequestType DEF CommitResult
  <2>2. Exists(l) BY <2>1 DEF RowsInv, RequestInv
  <2>3. lead[l].status \in Status BY <1>1, <2>1, <2>2, ExistsType DEF Row
  <2>4. s \in Status BY <2>1, <2>3 DEF Written, Verdicts, Status
  <2>5. /\ WithStatus(l, s) \in Row /\ WithStatus(l, s).client = lead[l].client
        /\ WithStatus(l, s).prospect = lead[l].prospect
    BY <1>1, <2>1, <2>2, <2>4, StatusType
  <2>6. /\ row.client = lead[l].client
        /\ row.prospect = IF makes THEN "pending" ELSE lead[l].prospect
    BY <2>5 DEF Row
  <2>7. makes => lead[l].prospect = "none" BY <1>8 DEF CommitResult
  <2>8. lead' = [lead EXCEPT ![l] = row] BY <1>8 DEF CommitResult
  <2> HIDE DEF row, l, makes
  <2>9. \A k \in Leads :
          /\ lead'[k].prospect = "converted" <=> lead[k].prospect = "converted"
          /\ lead'[k].client = lead[k].client
    BY <1>1, <2>1, <2>6, <2>7, <2>8 DEF TypeOK
  <2> QED BY <1>6, <2>1, <2>9
<1>9. CASE CommitConversion(r)
  <2> DEFINE q == req[r]
             l == q.lead
             s == Written(l, q.seen, "converted")
             row == [WithStatus(l, s) EXCEPT !.prospect = "converted",
                                             !.confirmed = q.client,
                                               !.client = q.client]
  <2>1. q.kind = "posted" /\ l \in Leads /\ q.client \in ClientIds
    BY <1>1, <1>9, RequestType DEF CommitConversion
  <2>2. Exists(l) /\ q.client \in 1 .. clients[l] BY <2>1 DEF RowsInv, RequestInv
  <2>3. lead[l].status \in Status BY <1>1, <2>1, <2>2, ExistsType DEF Row
  <2>4. s \in Status BY <2>3 DEF Written, Status, Closed
  <2>5. WithStatus(l, s) \in Row BY <1>1, <2>1, <2>2, <2>4, StatusType
  <2>6. row.client = q.client /\ row.prospect = "converted" BY <2>5 DEF Row
  <2>7. lead' = [lead EXCEPT ![l] = row] BY <1>9 DEF CommitConversion
  <2>8. q.client # 0 BY <2>2
  <2>9. \A k \in Leads : IsPosted(k) <=> k = l BY <1>3, <2>1 DEF IsPosted, Idle
  <2> HIDE DEF row
  <2>10. /\ lead'[l].client # 0 /\ lead'[l].prospect = "converted"
         /\ \A k \in Leads : k # l => lead'[k] = lead[k]
    BY <1>1, <2>1, <2>6, <2>7, <2>8 DEF TypeOK
  <2> HIDE DEF l
  <2>11. ASSUME NEW k \in Leads PROVE ConvertedFits(k)' /\ Accounted(k)'
    <3>1. ConvertedFits(k) /\ Accounted(k) BY <1>1 DEF AloneInv
    <3>2. CASE k = l
      <4>1. lead'[k].client # 0 /\ lead'[k].prospect = "converted" BY <2>10, <3>2
      <4>2. Taken(k) = 1 BY <2>9, <3>2 DEF Taken
      <4>3. Taken(k)' = 1 BY <4>1 DEF Taken
      <4> QED BY <1>2, <3>1, <4>1, <4>2, <4>3 DEF ConvertedFits, Accounted
    <3>3. CASE k # l
      <4>1. lead'[k] = lead[k] BY <2>10, <3>3
      <4>2. Taken(k)' = Taken(k) BY <1>5, <2>9, <3>3, <4>1 DEF Taken
      <4> QED BY <1>2, <3>1, <4>1, <4>2 DEF ConvertedFits, Accounted
    <3> QED BY <3>2, <3>3
  <2> QED BY <1>3, <1>4, <2>11 DEF AloneInv
<1>10. CASE CommitRejection(r)
  <2> DEFINE q == req[r]
             l == q.lead
             s == Written(l, q.seen, "in_progress")
             row == [WithStatus(l, s) EXCEPT !.prospect = "rejected"]
  <2>1. q.kind = "reject" /\ l \in Leads
    BY <1>1, <1>10, RequestType DEF CommitRejection
  <2>2. Exists(l) BY <2>1 DEF RowsInv, RequestInv
  <2>3. lead[l].status \in Status BY <1>1, <2>1, <2>2, ExistsType DEF Row
  <2>4. s \in Status BY <2>3 DEF Written, Status
  <2>5. WithStatus(l, s) \in Row /\ WithStatus(l, s).client = lead[l].client
    BY <1>1, <2>1, <2>2, <2>4, StatusType
  <2>6. row.client = lead[l].client /\ row.prospect = "rejected" BY <2>5 DEF Row
  <2>7. lead[l].prospect = "pending"
    BY <1>1, <2>1 DEF AloneInv, DecidesPending, Deciding
  <2>8. lead' = [lead EXCEPT ![l] = row] BY <1>10 DEF CommitRejection
  <2> HIDE DEF row, l
  <2>9. \A k \in Leads :
          /\ lead'[k].prospect = "converted" <=> lead[k].prospect = "converted"
          /\ lead'[k].client = lead[k].client
    BY <1>1, <2>1, <2>6, <2>7, <2>8 DEF TypeOK
  <2> QED BY <1>6, <2>1, <2>9
<1> QED BY <1>7, <1>8, <1>9, <1>10

\* The client the CRM creates for a pending prospect is its only one, and is
\* accounted for as lost if the request fails.
LEMMA PostsAlone ==
  ASSUME RowsInv, AloneInv, ~overlapped', NEW r \in Requests, PostToCRM(r)
  PROVE  AloneInv'
<1> DEFINE l == req[r].lead
           x == [kind |-> "posted", lead |-> l, seen |-> lead[l].status,
                 client |-> clients'[l]]
<1>1. TypeOK /\ ~overlapped /\ req[r].kind = "confirm" BY DEF RowsInv, PostToCRM
<1>2. l \in Leads BY <1>1, RequestType
<1>3. /\ req' = [req EXCEPT ![r] = x] /\ clients' = [clients EXCEPT ![l] = @ + 1]
      /\ UNCHANGED <<lead, lost>>
  BY DEF PostToCRM
<1>4. x.kind = "posted" /\ x.lead = l OBVIOUS
<1> HIDE DEF x
<1>5. /\ req'[r] = x /\ OneBusy'
      /\ \A q \in Requests : q # r => req[q] = Idle /\ req'[q] = Idle
  <2>1. req[r] # Idle BY <1>1 DEF Idle
  <2> QED BY <1>1, <1>3, <2>1, OthersIdle
<1>6. lead[l].prospect = "pending" BY <1>1 DEF AloneInv, DecidesPending, Deciding
<1>7. DecidesPending' BY <1>3, <1>4, <1>5, <1>6 DEF DecidesPending, Idle, Deciding
<1>8. \A k \in Leads : ~IsPosted(k) /\ (k = l => IsPosted(k)') /\ (k # l =>
        ~IsPosted(k)')
  BY <1>1, <1>4, <1>5 DEF IsPosted, Idle
<1>9. \A k \in Leads : clients'[k] = IF k = l THEN clients[k] + 1 ELSE clients[k]
  BY <1>1, <1>2, <1>3 DEF TypeOK
<1> HIDE DEF l
<1>10. ASSUME NEW k \in Leads PROVE ConvertedFits(k)' /\ Accounted(k)'
  <2>1. ConvertedFits(k) /\ Accounted(k) BY <1>1 DEF AloneInv
  <2>2. clients[k] \in Nat /\ lost[k] \in Nat
    BY <1>1, LeadGenAssumption DEF TypeOK, ClientIds
  <2>3. CASE k = l
    <3>1. Taken(k) = 0 BY <1>6, <1>8, <2>3 DEF Taken
    <3>2. Taken(k)' = 1 BY <1>8, <2>3 DEF Taken
    <3> QED BY <1>3, <1>9, <2>1, <2>2, <2>3, <3>1, <3>2 DEF ConvertedFits, Accounted
  <2>4. CASE k # l
    <3>1. Taken(k)' = Taken(k) BY <1>3, <1>8, <2>4 DEF Taken
    <3> QED BY <1>3, <1>9, <2>1, <2>4, <3>1 DEF ConvertedFits, Accounted
  <2> QED BY <2>3, <2>4
<1> QED BY <1>5, <1>7, <1>10 DEF AloneInv

\* A conversion that fails leaves a client that is counted as lost.
LEMMA AbortsAlone ==
  ASSUME RowsInv, AloneInv, ~overlapped', NEW r \in Requests, Abort(r)
  PROVE  AloneInv'
<1>1. /\ TypeOK /\ ~overlapped /\ req[r] # Idle
      /\ req' = [req EXCEPT ![r] = Idle] /\ UNCHANGED <<lead, clients>>
      /\ lost' = IF req[r].kind = "posted" THEN [lost EXCEPT ![req[r].lead] = @ + 1] ELSE lost
  BY DEF RowsInv, Abort, Close
<1>2. /\ req'[r] = Idle /\ OneBusy'
      /\ \A q \in Requests : q # r => req[q] = Idle /\ req'[q] = Idle
  BY <1>1, OthersIdle
<1>3. DecidesPending' BY <1>2 DEF DecidesPending, Idle, Deciding
<1>4. \A k \in Leads : ~IsPosted(k)' BY <1>2 DEF IsPosted, Idle
<1>5. \A k \in Leads : IsPosted(k) <=> req[r].kind = "posted" /\ req[r].lead = k
  BY <1>2 DEF IsPosted, Idle
<1>6. ASSUME NEW k \in Leads PROVE ConvertedFits(k)' /\ Accounted(k)'
  <2>1. ConvertedFits(k) /\ Accounted(k) BY <1>1 DEF AloneInv
  <2>2. clients[k] \in Nat /\ lost[k] \in Nat
    BY <1>1, LeadGenAssumption DEF TypeOK, ClientIds
  <2>3. CASE IsPosted(k)
    <3>1. lost'[k] = lost[k] + 1 BY <1>1, <1>5, <2>3 DEF TypeOK
    <3>2. Taken(k) = 1 /\ Taken(k)' \in {0, 1} BY <2>3 DEF Taken
    <3> QED BY <1>1, <2>1, <2>2, <3>1, <3>2 DEF ConvertedFits, Accounted
  <2>4. CASE ~IsPosted(k)
    <3>1. lost'[k] = lost[k] BY <1>1, <1>5, <2>4 DEF TypeOK
    <3>2. Taken(k)' = Taken(k) BY <1>1, <1>4, <2>4 DEF Taken
    <3> QED BY <1>1, <2>1, <3>1, <3>2 DEF ConvertedFits, Accounted
  <2> QED BY <2>3, <2>4
<1> QED BY <1>2, <1>3, <1>6 DEF AloneInv

\* Every step of a request that is alone keeps clients and conversions in line.
LEMMA AloneStep == ASSUME RowsInv, AloneInv, [Next]_vars PROVE AloneInv'
<1> SUFFICES ASSUME ~overlapped' PROVE AloneInv' BY DEF AloneInv
<1>1. CASE Next
  BY <1>1, ReadsAlone, EditsAlone, CommitsAlone, PostsAlone, AbortsAlone DEF Next
<1>2. CASE UNCHANGED vars
  BY <1>2
  DEF vars, AloneInv, OneBusy, DecidesPending, ConvertedFits, Accounted, Taken,
              IsPosted
<1> QED BY <1>1, <1>2

\* A prospect is converted exactly if it has a client, and there is a second
\* client of a lead only if an earlier one was lost.
LEMMA AloneAgrees ==
  ASSUME RowsInv, AloneInv PROVE OneClientPerLead /\ ConvertedHasClient
<1>1. ASSUME ~overlapped, NEW l \in Leads
      PROVE  /\ clients[l] <= 1 + lost[l]
             /\ (lead[l].prospect = "converted") <=> (lead[l].client # 0)
  <2>1. ConvertedFits(l) /\ Accounted(l) BY <1>1 DEF AloneInv
  <2>2. clients[l] \in Nat /\ lost[l] \in Nat /\ Taken(l) \in {0, 1}
    BY LeadGenAssumption DEF RowsInv, TypeOK, ClientIds, Taken
  <2> QED BY <2>1, <2>2 DEF ConvertedFits, Accounted
<1> QED BY <1>1 DEF OneClientPerLead, ConvertedHasClient

-----------------------------------------------------------------------------
(* The contacts: one source each, and leads of which only one was never    *)
(* taken up again.                                                         *)

IsOpen(l) == Exists(l) /\ lead[l].status \notin Closed

OneSource == \A s, t \in Sources : source[s] = source[t] /\ source[s] # None => s = t

OneFresh ==
  \A l, k \in Leads :
    IsOpen(l) /\ IsOpen(k) /\ source[lead[l].source] = source[lead[k].source] =>
      l = k \/ l \in reopened \/ k \in reopened

\* What a message has found is still so.
SenderInv(r) ==
  req[r].kind \in {"sender", "message"} =>
    /\ req[r].source = None => \A s \in Sources : source[s] # req[r].contact
    /\ req[r].source # None => source[req[r].source] = req[r].contact

MessageInv(r) ==
  req[r].kind = "message" =>
    /\ req[r].source = None => req[r].lead = None
    /\ req[r].lead = None => \A l \in Leads :
         IsOpen(l) /\ lead[l].source = req[r].source => l \in reopened

ContactInv ==
  /\ \A l \in Leads : Exists(l) => source[lead[l].source] # None
  /\ ~overlapped =>
       OneSource /\ OneFresh /\ \A r \in Requests : SenderInv(r) /\ MessageInv(r)

\* Steps that only change the status of leads: whoever opens a closed one has
\* taken it up again.
StatusOnly ==
  /\ source' = source /\ reopened \subseteq reopened'
  /\ \A k \in Leads :
       /\ lead'[k].source = lead[k].source /\ (Exists(k)' <=> Exists(k))
       /\ IsOpen(k)' => IsOpen(k) \/ k \in reopened'

\* A commit that writes a status records the lead if it was taken up again.
LEMMA WritesStatus ==
  ASSUME RowsInv, NEW l \in Leads, Exists(l), NEW row, row.source = lead[l].source,
         row.status \in Status, lead' = [lead EXCEPT ![l] = row], source' = source,
         reopened' = Reopened(l, row.status) \/
           (reopened' = reopened /\ row.status \in Closed \cup {lead[l].status})
  PROVE  StatusOnly
<1>1. lead'[l] = row /\ \A k \in Leads : k # l => lead'[k] = lead[k]
  BY DEF RowsInv, TypeOK
<1>2. row # NoRow BY DEF NoRow, Status, Closed
<1>3. reopened \subseteq reopened' BY DEF Reopened
<1>4. ASSUME NEW k \in Leads
      PROVE  /\ lead'[k].source = lead[k].source /\ (Exists(k)' <=> Exists(k))
             /\ IsOpen(k)' => IsOpen(k) \/ k \in reopened'
  <2>1. CASE k # l BY <1>1, <2>1 DEF Exists, IsOpen
  <2>2. CASE k = l BY <1>1, <1>2, <2>2 DEF Exists, IsOpen, Reopened
  <2> QED BY <2>1, <2>2
<1> QED BY <1>3, <1>4 DEF StatusOnly

\* Every commit but that of a message writes statuses only.
LEMMA StatusSteps ==
  ASSUME RowsInv,
         \/ \E r \in Requests : \/ CommitResult(r) \/ CommitConversion(r)
                                \/ CommitRejection(r) \/ PostToCRM(r) \/ Abort(r)
         \/ \E l \in Leads : QualifyLead(l) \/ \E s \in Edits : UpdateLead(l, s)
  PROVE  StatusOnly
<1>1. TypeOK BY DEF RowsInv
<1>2. ASSUME UNCHANGED <<lead, source, reopened>> PROVE StatusOnly
  BY <1>2 DEF StatusOnly, Exists, IsOpen
<1>3. ASSUME NEW l \in Leads, Exists(l) PROVE lead[l].status \in Status
  BY <1>1, <1>3, ExistsType DEF Row
<1>4. ASSUME NEW r \in Requests, CommitResult(r) PROVE StatusOnly
  <2> DEFINE q == req[r]
             l == q.lead
             makes == q.verdict = "qualified" /\ ~q.prospect
             s == IF q.verdict = "other" THEN lead[l].status
                  ELSE Written(l, q.seen, q.verdict)
             row == [WithStatus(l,
               s) EXCEPT !.prospect = IF makes THEN "pending" ELSE @]
  <2>1. q.kind = "result" /\ l \in Leads /\ q.verdict \in Verdicts
    BY <1>1, <1>4, RequestType DEF CommitResult
  <2>2. Exists(l) BY <2>1 DEF RowsInv, RequestInv
  <2>3. s \in Status BY <1>3, <2>1, <2>2 DEF Written, Verdicts, Status
  <2>4. /\ WithStatus(l, s) \in Row /\ WithStatus(l, s).source = lead[l].source
        /\ WithStatus(l, s).status = s
    BY <1>1, <2>1, <2>2, <2>3, StatusType
  <2>5. row.source = lead[l].source /\ row.status = s BY <2>4 DEF Row
  <2>6. /\ lead' = [lead EXCEPT ![l] = row] /\ source' = source
        /\ reopened' = Reopened(l, s)
    BY <1>4 DEF CommitResult
  <2> HIDE DEF row, l, s
  <2> QED BY <2>1, <2>2, <2>3, <2>5, <2>6, WritesStatus
<1>5. ASSUME NEW r \in Requests, CommitConversion(r) PROVE StatusOnly
  <2> DEFINE q == req[r]
             l == q.lead
             s == Written(l, q.seen, "converted")
             row == [WithStatus(l, s) EXCEPT !.prospect = "converted",
                                             !.confirmed = q.client,
                                               !.client = q.client]
  <2>1. q.kind = "posted" /\ l \in Leads BY <1>1, <1>5,
          RequestType DEF CommitConversion
  <2>2. Exists(l) BY <2>1 DEF RowsInv, RequestInv
  <2>3. s \in Status /\ s \in Closed \cup {lead[l].status}
    BY <1>3, <2>1, <2>2 DEF Written, Status, Closed
  <2>4. /\ WithStatus(l, s) \in Row /\ WithStatus(l, s).source = lead[l].source
        /\ WithStatus(l, s).status = s
    BY <1>1, <2>1, <2>2, <2>3, StatusType
  <2>5. row.source = lead[l].source /\ row.status = s BY <2>4 DEF Row
  <2>6. lead' = [lead EXCEPT ![l] = row] /\ source' = source /\ reopened' = reopened
    BY <1>5 DEF CommitConversion
  <2> HIDE DEF row, l, s
  <2> QED BY <2>1, <2>2, <2>3, <2>5, <2>6, WritesStatus
<1>6. ASSUME NEW r \in Requests, CommitRejection(r) PROVE StatusOnly
  <2> DEFINE q == req[r]
             l == q.lead
             s == Written(l, q.seen, "in_progress")
             row == [WithStatus(l, s) EXCEPT !.prospect = "rejected"]
  <2>1. q.kind = "reject" /\ l \in Leads BY <1>1, <1>6,
          RequestType DEF CommitRejection
  <2>2. Exists(l) BY <2>1 DEF RowsInv, RequestInv
  <2>3. s \in Status BY <1>3, <2>1, <2>2 DEF Written, Status
  <2>4. /\ WithStatus(l, s) \in Row /\ WithStatus(l, s).source = lead[l].source
        /\ WithStatus(l, s).status = s
    BY <1>1, <2>1, <2>2, <2>3, StatusType
  <2>5. row.source = lead[l].source /\ row.status = s BY <2>4 DEF Row
  <2>6. /\ lead' = [lead EXCEPT ![l] = row] /\ source' = source
        /\ reopened' = Reopened(l, s)
    BY <1>6 DEF CommitRejection
  <2> HIDE DEF row, l, s
  <2> QED BY <2>1, <2>2, <2>3, <2>5, <2>6, WritesStatus
<1>7. ASSUME NEW l \in Leads, NEW s \in Edits, UpdateLead(l, s) PROVE StatusOnly
  <2>1. Exists(l) /\ s \in Status BY <1>7, LeadGenAssumption DEF UpdateLead
  <2>2. WithStatus(l, s).source = lead[l].source /\ WithStatus(l, s).status = s
    BY <1>1, <2>1, StatusType
  <2>3. /\ lead' = [lead EXCEPT ![l] = WithStatus(l, s)] /\ source' = source
        /\ reopened' = Reopened(l, s)
    BY <1>7 DEF UpdateLead
  <2> QED BY <2>1, <2>2, <2>3, WritesStatus
<1>8. ASSUME NEW r \in Requests, PostToCRM(r)
      PROVE  StatusOnly BY <1>2, <1>8 DEF PostToCRM
<1>9. ASSUME NEW r \in Requests, Abort(r) PROVE StatusOnly BY <1>2, <1>9 DEF Abort
<1>10. ASSUME NEW l \in Leads, QualifyLead(l)
       PROVE  StatusOnly BY <1>2, <1>10 DEF QualifyLead
<1> QED BY <1>4, <1>5, <1>6, <1>7, <1>8, <1>9, <1>10

\* Steps that only change the status of leads keep what is known of contacts,
\* when they let the messages under way be.
LEMMA ContactsStay ==
  ASSUME RowsInv, ContactInv, StatusOnly, overlapped' = overlapped,
         \A r \in Requests :
           req'[r] = req[r] \/ req'[r].kind \notin {"sender", "message"}
  PROVE  ContactInv'
<1>1. TypeOK BY DEF RowsInv
<1>2. \A l \in Leads : Exists(l)' => source'[lead'[l].source] # None
  BY DEF ContactInv, StatusOnly
<1>3. ASSUME ~overlapped
      PROVE  OneSource' BY <1>3 DEF ContactInv, OneSource, StatusOnly
<1>4. ASSUME ~overlapped PROVE OneFresh'
  <2>1. OneFresh BY <1>4 DEF ContactInv
  <2> QED BY <2>1 DEF OneFresh, StatusOnly
<1>5. ASSUME ~overlapped, NEW r \in Requests PROVE SenderInv(r)' /\ MessageInv(r)'
  <2>1. CASE req'[r].kind \notin {"sender", "message"} BY <2>1 DEF SenderInv,
               MessageInv
  <2>2. CASE req'[r] = req[r]
    <3>1. SenderInv(r) /\ MessageInv(r) BY <1>5 DEF ContactInv
    <3>2. SenderInv(r)' BY <2>2, <3>1 DEF SenderInv, StatusOnly
    <3>3. MessageInv(r)' BY <2>2, <3>1 DEF MessageInv, StatusOnly
    <3> QED BY <3>2, <3>3
  <2> QED BY <2>1, <2>2
<1> QED BY <1>2, <1>3, <1>4, <1>5 DEF ContactInv

\* A lead has the source of a row there is.
LEMMA SourceType ==
  ASSUME TypeOK, NEW l \in Leads, Exists(l)
  PROVE  lead[l].source \in Sources /\ lead[l].source # None
<1>1. lead[l] \in Row BY ExistsType
<1> QED BY <1>1, LeadGenAssumption DEF Row

\* What a message finds is so when it is found.
LEMMA ContactsFind ==
  ASSUME RowsInv, AloneInv, ContactInv, NEW r \in Requests,
         \/ \E c \in Contacts : FindSource(r, c)
         \/ FindLead(r)
         \/ \E l \in Leads, v \in Verdicts : LoadResult(r, l, v)
         \/ \E l \in Leads, kind \in {"confirm", "reject"} : LoadDecision(r, l, kind)
  PROVE  ContactInv'
<1>1. TypeOK BY DEF RowsInv
<1>2. ASSUME NEW x, req' = [req EXCEPT ![r] = x], UNCHANGED Rows,
             ~overlapped' => ~overlapped,
             ~overlapped => SenderInv(r)' /\ MessageInv(r)'
      PROVE  ContactInv'
  <2>1. UNCHANGED <<source, lead, reopened>> BY <1>2 DEF Rows
  <2>2. \A q \in Requests : q # r => req'[q] = req[q] BY <1>1, <1>2 DEF TypeOK
  <2>3. \A l \in Leads : Exists(l)' => source'[lead'[l].source] # None
    BY <2>1 DEF ContactInv, Exists
  <2>4. ASSUME ~overlapped' PROVE OneSource' /\ OneFresh'
    <3>1. OneSource /\ OneFresh BY <1>2, <2>4 DEF ContactInv
    <3>2. OneSource' BY <2>1, <3>1 DEF OneSource
    <3>3. OneFresh' BY <2>1, <3>1 DEF OneFresh, IsOpen, Exists
    <3> QED BY <3>2, <3>3
  <2>5. ASSUME ~overlapped', NEW q \in Requests PROVE SenderInv(q)' /\ MessageInv(q)'
    <3>1. CASE q = r BY <1>2, <2>5, <3>1
    <3>2. CASE q # r
      <4>1. SenderInv(q) /\ MessageInv(q) BY <1>2, <2>5 DEF ContactInv
      <4>2. SenderInv(q)' BY <2>1, <2>2, <3>2, <4>1 DEF SenderInv
      <4>3. MessageInv(q)' BY <2>1, <2>2, <3>2, <4>1 DEF MessageInv, IsOpen, Exists
      <4> QED BY <4>2, <4>3
    <3> QED BY <3>1, <3>2
  <2> QED BY <2>3, <2>4, <2>5 DEF ContactInv
<1>3. ASSUME NEW x, Open(r, x)
      PROVE  req' = [req EXCEPT ![r] = x] /\ req'[r] = x /\ (~overlapped' =>
               ~overlapped)
  BY <1>1, <1>3 DEF Open, TypeOK
<1>4. ASSUME NEW c \in Contacts, FindSource(r, c) PROVE ContactInv'
  <2>1. PICK s \in OneOrNone(SourcesOf(c)) :
      Open(r, [kind |-> "sender", contact |-> c, source |-> s])
    BY <1>4 DEF FindSource
  <2> DEFINE x == [kind |-> "sender", contact |-> c, source |-> s]
  <2>2. Open(r, x) /\ x.kind = "sender" /\ x.contact = c /\ x.source = s BY <2>1
  <2> HIDE DEF x
  <2>3. UNCHANGED Rows /\ source' = source BY <1>4 DEF FindSource, Rows
  <2>4. /\ s = None => SourcesOf(c) = {}
        /\ s # None => s \in SourcesOf(c)
    BY DEF OneOrNone
  <2>5. req'[r] = x BY <1>3, <2>2
  <2>6. SenderInv(r)' BY <2>2, <2>3, <2>4, <2>5 DEF SenderInv, SourcesOf
  <2>7. MessageInv(r)' BY <2>2, <2>5 DEF MessageInv
  <2> QED BY <1>2, <1>3, <2>2, <2>3, <2>6, <2>7
<1>5. ASSUME FindLead(r) PROVE ContactInv'
  <2>1. PICK l \in OneOrNone(Active(req[r].source)) :
      req' = [req EXCEPT ![r] = [kind |-> "message", contact |-> req[r].contact,
                                 source |-> req[r].source, lead |-> l]]
    BY <1>5 DEF FindLead
  <2> DEFINE x == [kind |-> "message", contact |-> req[r].contact,
                   source |-> req[r].source, lead |-> l]
  <2>2. /\ req' = [req EXCEPT ![r] = x] /\ x.kind = "message"
        /\ x.contact = req[r].contact /\ x.source = req[r].source /\ x.lead = l
    BY <2>1
  <2> HIDE DEF x
  <2>3. /\ UNCHANGED Rows /\ UNCHANGED <<source, lead, reopened, overlapped>>
        /\ req[r].kind = "sender"
    BY <1>5 DEF FindLead, Rows
  <2>4. req'[r] = x BY <1>1, <2>2 DEF TypeOK
  <2>5. /\ l = None => Active(req[r].source) = {}
        /\ l # None => l \in Active(req[r].source)
    BY DEF OneOrNone
  <2>6. req[r].source = None => l = None
    <3>1. Active(None) = {} BY <1>1, SourceType DEF Active
    <3> QED BY <2>5, <3>1
  <2>7. ASSUME ~overlapped PROVE SenderInv(r)' /\ MessageInv(r)'
    <3>1. SenderInv(r) BY <2>7 DEF ContactInv
    <3>2. SenderInv(r)' BY <2>2, <2>3, <2>4, <3>1 DEF SenderInv
    <3>3. l = None => \A k \in Leads : ~(IsOpen(k) /\ lead[k].source = req[r].source)
      BY <2>5 DEF Active, IsOpen
    <3>4. MessageInv(r)' BY <2>2, <2>3, <2>4, <2>6, <3>3 DEF MessageInv, IsOpen,
            Exists
    <3> QED BY <3>2, <3>4
  <2> QED BY <1>2, <2>2, <2>3, <2>7
<1>6. ASSUME NEW x, Open(r, x), x.kind \notin {"sender", "message"}, UNCHANGED Rows
      PROVE  ContactInv'
  <2>1. SenderInv(r)' /\ MessageInv(r)' BY <1>3, <1>6 DEF SenderInv, MessageInv
  <2> QED BY <1>2, <1>3, <1>6, <2>1
<1>7. ASSUME NEW l \in Leads, NEW v \in Verdicts, LoadResult(r, l, v)
      PROVE  ContactInv'
  <2> DEFINE x == [kind |-> "result", lead |-> l, verdict |-> v,
        seen |-> lead[l].status,
                   tasks |-> pending[l], prospect |-> lead[l].prospect # "none"]
  <2>1. Open(r, x) /\ x.kind = "result" /\ UNCHANGED Rows BY <1>7 DEF LoadResult
  <2> HIDE DEF x
  <2> QED BY <1>6, <2>1
<1>8. ASSUME NEW l \in Leads, NEW kind \in {"confirm", "reject"}, LoadDecision(r,
               l, kind)
      PROVE  ContactInv'
  <2> DEFINE x == [kind |-> kind, lead |-> l, seen |-> lead[l].status]
  <2>1. Open(r, x) /\ x.kind = kind /\ UNCHANGED Rows BY <1>8 DEF LoadDecision
  <2> HIDE DEF x
  <2> QED BY <1>6, <2>1
<1> QED BY <1>4, <1>5, <1>7, <1>8

\* A message makes a source for a contact that has none, and a lead beside none
\* but those that were taken up again.
LEMMA ContactsCommit ==
  ASSUME RowsInv, AloneInv, ContactInv, NEW r \in Requests, CommitMessage(r)
  PROVE  ContactInv'
<1> DEFINE c == req[r].contact
<1>1. TypeOK /\ req[r].kind = "message" /\ c \in Contacts
      /\ req[r].source \in Sources \cup {None}
  <2>1. TypeOK /\ req[r].kind = "message" BY DEF RowsInv, CommitMessage
  <2> QED BY <2>1, RequestType
<1>2. c # None /\ None \notin Sources BY <1>1, LeadGenAssumption
<1>3. PICK s \in (IF req[r].source = None THEN SourcesOf(None) ELSE {req[r].source}) :
         /\ source' = [source EXCEPT ![s] = req[r].contact]
         /\ \/ req[r].lead # None /\ UNCHANGED lead
            \/ /\ req[r].lead = None
               /\ \E l \in {m \in Leads : ~Exists(m)} :
                    lead' = [lead EXCEPT ![l] = [status |-> "new", source |-> s,
                               client |-> 0, prospect |-> "none", confirmed |-> 0]]
  BY DEF CommitMessage
<1>4. s \in Sources /\ (req[r].source = None => source[s] = None)
      /\ (req[r].source # None => s = req[r].source)
  BY <1>1 DEF SourcesOf
<1>5. req' = [req EXCEPT ![r] = Idle] /\ UNCHANGED <<reopened, overlapped>>
  BY DEF CommitMessage, Close
<1>6. /\ req'[r] = Idle /\ \A q \in Requests : q # r => req'[q] = req[q]
      /\ source'[s] = c /\ \A t \in Sources : t # s => source'[t] = source[t]
  BY <1>1, <1>3, <1>4, <1>5 DEF TypeOK
<1> HIDE DEF c
<1>7. \E l \in Leads :
        /\ \A k \in Leads : k # l => lead'[k] = lead[k]
        /\ \/ lead'[l] = lead[l]
           \/ req[r].lead = None /\ ~Exists(l) /\ lead'[l].source = s
  <2>1. CASE UNCHANGED lead /\ \E l \in Leads : TRUE BY <2>1
  <2>2. CASE UNCHANGED lead /\ ~\E l \in Leads : TRUE
    <3>1. req[r].lead = None \/ req[r].lead \in Leads BY <1>1, RequestType
    <3>2. req[r].lead # None \/ \E l \in Leads : TRUE BY <1>3
    <3> QED BY <2>2, <3>1, <3>2
  <2>3. ASSUME NEW l \in Leads, ~Exists(l), req[r].lead = None,
               lead' = [lead EXCEPT ![l] = [status |-> "new", source |-> s,
                               client |-> 0, prospect |-> "none", confirmed |-> 0]]
        PROVE  \A k \in Leads : (k # l => lead'[k] = lead[k]) /\ lead'[l].source = s
    BY <1>1, <2>3 DEF TypeOK
  <2> QED BY <1>3, <2>1, <2>2, <2>3
<1>8. PICK l \in Leads :
        /\ \A k \in Leads : k # l => lead'[k] = lead[k]
        /\ \/ lead'[l] = lead[l]
           \/ req[r].lead = None /\ ~Exists(l) /\ lead'[l].source = s
  BY <1>7
<1>9. \A k \in Leads : Exists(k) => lead[k].source \in Sources BY <1>1, SourceType
<1>10. ASSUME NEW k \in Leads, Exists(k)' PROVE source'[lead'[k].source] # None
  <2>1. CASE lead'[k] = lead[k]
    <3>1. Exists(k) /\ lead[k].source \in Sources BY <1>9, <1>10, <2>1 DEF Exists
    <3> QED BY <1>2, <1>6, <2>1, <3>1 DEF ContactInv
  <2>2. CASE lead'[k] # lead[k] BY <1>2, <1>6, <1>8, <2>2
  <2> QED BY <2>1, <2>2
<1>11. ASSUME ~overlapped PROVE OneSource'
  <2>1. OneSource /\ SenderInv(r) BY <1>11 DEF ContactInv
  <2>2. \A t \in Sources : source[t] = c => t = s
    BY <1>1, <1>2, <1>4, <2>1 DEF SenderInv, OneSource, c
  <2> QED BY <1>4, <1>6, <2>1, <2>2 DEF OneSource
<1>12. ASSUME ~overlapped PROVE OneFresh'
  <2>1. OneSource /\ OneFresh /\ SenderInv(r) /\ MessageInv(r) BY <1>12 DEF ContactInv
  <2>2. \A t \in Sources : source[t] = c => t = s
    BY <1>1, <1>2, <1>4, <2>1 DEF SenderInv, OneSource, c
  <2>3. \A k \in Leads : Exists(k) =>
          source'[lead[k].source] = source[lead[k].source]
            /\ lead[k].source \in Sources
    <3> TAKE k \in Leads
    <3> HAVE Exists(k)
    <3>1. lead[k].source \in Sources /\ source[lead[k].source] # None
      BY <1>9 DEF ContactInv
    <3>2. CASE req[r].source = None BY <1>4, <1>6, <3>1, <3>2
    <3>3. CASE req[r].source # None
      <4>1. source[s] = c BY <1>1, <1>4, <2>1, <3>3 DEF SenderInv, c
      <4> QED BY <1>6, <3>1, <4>1
    <3> QED BY <3>1, <3>2, <3>3
  <2>4. ASSUME NEW k \in Leads, NEW m \in Leads, IsOpen(k)', IsOpen(m)',
               (source[lead[k].source] = source[lead[m].source])', k # m,
               lead'[k] = lead[k]
        PROVE  k \in reopened' \/ m \in reopened'
    <3>1. IsOpen(k) /\ Exists(k) BY <2>4 DEF IsOpen, Exists
    <3>2. source'[lead'[k].source] = source[lead[k].source] BY <2>3, <2>4, <3>1
    <3>3. CASE lead'[m] = lead[m]
      <4>1. IsOpen(m) /\ Exists(m) BY <2>4, <3>3 DEF IsOpen, Exists
      <4>2. source'[lead'[m].source] = source[lead[m].source] BY <2>3, <3>3, <4>1
      <4> QED BY <1>5, <2>1, <2>4, <3>1, <3>2, <4>1, <4>2 DEF OneFresh
    <3>4. CASE lead'[m] # lead[m]
      <4>1. m = l /\ req[r].lead = None /\ lead'[m].source = s BY <1>8, <3>4
      <4>2. source[lead[k].source] = c BY <1>6, <2>4, <3>2, <4>1
      <4>3. lead[k].source = s BY <1>9, <2>2, <3>1, <4>2
      <4>4. source[s] # None BY <3>1, <4>3 DEF ContactInv
      <4>5. req[r].source = s BY <1>4, <4>4
      <4> QED BY <1>1, <1>5, <2>1, <3>1, <4>1, <4>3, <4>5 DEF MessageInv
    <3> QED BY <3>3, <3>4
  <2>5. ASSUME NEW k \in Leads, NEW m \in Leads, IsOpen(k)', IsOpen(m)',
               (source[lead[k].source] = source[lead[m].source])', k # m
        PROVE  k \in reopened' \/ m \in reopened'
    <3>1. lead'[k] = lead[k] \/ lead'[m] = lead[m] BY <1>8, <2>5
    <3> QED BY <2>4, <2>5, <3>1
  <2> QED BY <2>5 DEF OneFresh
<1>13. ASSUME ~overlapped, NEW q \in Requests PROVE SenderInv(q)' /\ MessageInv(q)'
  <2>1. req'[q] = Idle
    <3>1. req[r] # Idle BY <1>1 DEF Idle
    <3> QED BY <1>6, <1>13, <3>1 DEF AloneInv, OneBusy
  <2> QED BY <2>1 DEF SenderInv, MessageInv, Idle
<1> QED BY <1>5, <1>10, <1>11, <1>12, <1>13 DEF ContactInv

\* Every step keeps what messages have found, as long as they do not overlap.
LEMMA ContactStep ==
  ASSUME RowsInv, AloneInv, ContactInv, [Next]_vars PROVE ContactInv'
<1>1. TypeOK BY DEF RowsInv
<1>2. ASSUME NEW r \in Requests,
             \/ CommitResult(r) \/ CommitConversion(r) \/ CommitRejection(r)
             \/ PostToCRM(r) \/ Abort(r)
      PROVE  ContactInv'
  <2>1. /\ overlapped' = overlapped
        /\ \E x : req' = [req EXCEPT ![r] = x] /\ x.kind \in {"idle", "posted"}
    BY <1>2
    DEF CommitResult, CommitConversion, CommitRejection, PostToCRM, Abort, Close,
                Idle
  <2>2. \A q \in Requests : req'[q] = req[q] \/ req'[q].kind \notin {"sender",
          "message"}
    BY <1>1, <2>1 DEF TypeOK
  <2> QED BY <1>2, <2>1, <2>2, StatusSteps, ContactsStay
<1>3. ASSUME NEW l \in Leads, QualifyLead(l) \/ \E s \in Edits : UpdateLead(l, s)
      PROVE  ContactInv'
  <2>1. UNCHANGED <<req, overlapped>> BY <1>3 DEF QualifyLead, UpdateLead
  <2> QED BY <1>3, <2>1, StatusSteps, ContactsStay
<1>4. CASE UNCHANGED vars
  <2>1. StatusOnly BY <1>4 DEF vars, StatusOnly, Exists, IsOpen
  <2> QED BY <1>4, <2>1, ContactsStay DEF vars
<1> QED BY <1>2, <1>3, <1>4, ContactsFind, ContactsCommit DEF Next

LeadGenInv == RowsInv /\ AloneInv /\ ContactInv

\* Clients are counted, and requests that do not overlap leave one source and
\* at most one lead that was never taken up again.
THEOREM LeadGenInvariance == Spec => []LeadGenInv
<1>1. Init => LeadGenInv
  <2> SUFFICES ASSUME Init PROVE LeadGenInv OBVIOUS
  <2>1. TypeOK
    <3>1. 0 \in ClientIds BY LeadGenAssumption DEF ClientIds
    <3>2. source \in [Sources -> Contacts \cup {None}] BY DEF Init
    <3>3. lead \in [Leads -> Row \cup {NoRow}] BY DEF Init
    <3>4. pending \in [Leads -> SUBSET Tasks] BY DEF Init
    <3>5. clients \in [Leads -> ClientIds] /\ lost \in [Leads -> ClientIds]
      BY <3>1 DEF Init
    <3>6. req \in [Requests -> Request \cup {Idle}] BY DEF Init
    <3>7. overlapped \in BOOLEAN BY DEF Init
    <3> QED BY <3>2, <3>3, <3>4, <3>5, <3>6, <3>7 DEF Init, TypeOK
  <2>2. \A r \in Requests : req[r].kind = "idle" BY DEF Init, Idle
  <2>3. ASSUME NEW l \in Leads PROVE Counted(l)
    <3>1. PostedFor(l) = {} BY <2>2 DEF PostedFor
    <3> QED BY <3>1, FS_EmptySet DEF Init, Counted
  <2>4. RowsAgreeOnClient BY DEF Init, RowsAgreeOnClient, NoRow
  <2>5. RowsInv BY <2>1, <2>2, <2>3, <2>4 DEF RowsInv, RequestInv, Init
  <2>6. AloneInv
    <3>1. OneBusy /\ DecidesPending BY <2>2 DEF Init, OneBusy, DecidesPending,
            Deciding
    <3>2. \A l \in Leads : ConvertedFits(l) BY DEF Init, ConvertedFits, NoRow
    <3>3. \A l \in Leads : Accounted(l) BY DEF Init, Accounted, Taken
    <3> QED BY <3>1, <3>2, <3>3 DEF AloneInv
  <2>7. ContactInv
    <3>1. \A l \in Leads : ~Exists(l) BY DEF Init, Exists
    <3>2. OneSource /\ OneFresh BY <3>1 DEF Init, OneSource, OneFresh, IsOpen
    <3>3. \A r \in Requests : SenderInv(r) /\ MessageInv(r)
      BY <2>2 DEF SenderInv, MessageInv
    <3> QED BY <3>1, <3>2, <3>3 DEF ContactInv
  <2> QED BY <2>5, <2>6, <2>7 DEF LeadGenInv
<1>2. LeadGenInv /\ [Next]_vars => LeadGenInv'
  BY RowsStep, AloneStep, ContactStep DEF LeadGenInv
<1> QED BY <1>1, <1>2, PTL DEF Spec

\* However requests overlap, the rows of a lead name one client, which the CRM
\* has created; and without overlaps a second one follows only a lost one.
THEOREM ClientsAlwaysAgree == Spec => []ClientsAgree
<1>1. LeadGenInv => ClientsAgree
  BY AloneAgrees DEF LeadGenInv, RowsInv, ClientsAgree
<1> QED BY <1>1, LeadGenInvariance, PTL

\* A contact whose messages do not overlap is never refused but because one of
\* its leads was taken up again.
THEOREM OnlyReopeningEverBlocks == Spec => []OnlyReopeningBlocks
<1>1. LeadGenInv => OnlyReopeningBlocks
  <2> SUFFICES ASSUME RowsInv, OneSource, OneFresh, NEW c \in Contacts
               PROVE  /\ Cardinality({s \in Sources : source[s] = c}) <= 1
                      /\ OpenLeads(c) \cap reopened = {} =>
                           Cardinality(OpenLeads(c)) <= 1
    BY DEF LeadGenInv, ContactInv, OnlyReopeningBlocks
  <2>1. ASSUME NEW S, \A x, y \in S : x = y PROVE Cardinality(S) <= 1
    <3>1. CASE S = {} BY <3>1, FS_EmptySet
    <3>2. ASSUME NEW x \in S PROVE Cardinality(S) <= 1
      <4>1. S = {x} BY <2>1
      <4>2. Cardinality({x}) = 1 BY FS_Singleton
      <4> QED BY <4>1, <4>2
    <3> QED BY <3>1, <3>2
  <2>2. c # None BY LeadGenAssumption
  <2>3. Cardinality({s \in Sources : source[s] = c}) <= 1
    BY <2>1, <2>2 DEF OneSource
  <2>4. ASSUME OpenLeads(c) \cap reopened = {} PROVE Cardinality(OpenLeads(c)) <= 1
    <3>1. \A k, m \in OpenLeads(c) : k = m
      BY <2>4 DEF OpenLeads, OneFresh, IsOpen
    <3> QED BY <2>1, <3>1
  <2> QED BY <2>3, <2>4
<1> QED BY <1>1, LeadGenInvariance, PTL

-----------------------------------------------------------------------------
(* The chat of the site.  A post has no task or case before it is over;    *)
(* posts under way that have found no client for a phone or an email are   *)
(* counted with the clients there are, since each may yet make one.        *)

Client == [phone : Phones \cup {Empty}, email : Emails \cup {Empty}]

LeadPost ==
  [state : {"loaded", "stored", "answered", "failed", "lost"},
   phone : Phones \cup {Empty}, email : Emails \cup {Empty},
   procedures : SUBSET (Recommended \cup Given \cup {"undetermined"}),
   found : SUBSET ClientRows, after : SUBSET Posts]

CallPost == [state : {"calling", "answered", "failed"}, endpoint : Endpoints]

BarePost == [state : {"new", "answered", "failed"}]

PostType == BarePost \cup CallPost \cup LeadPost

ChatTypeOK ==
  /\ client \in [ClientRows -> Client \cup {Empty}]
  /\ post \in [Posts -> PostType]
  /\ task \in [Posts -> {"none", "queued", "completed", "failed"}]
  /\ file \in [Posts -> ClientRows \cup {Empty}]

\* c is the client a lead of q is for.
IsOf(q, c) ==
  /\ Known(c)
  /\ \/ client[c].phone = post[q].phone /\ post[q].phone # Empty
     \/ client[c].email = post[q].email /\ post[q].email # Empty
     \/ client[c] = [phone |-> Empty, email |-> Empty] /\ post[q].found = {}

\* How a post, its task and its case belong together.
PostInv(q) ==
  /\ post[q].state \in {"new", "calling", "loaded"} => task[q] = "none"
       /\ file[q] = Empty
  /\ post[q].state = "answered" => task[q] \in {"completed", "queued"}
  /\ post[q].state \in {"stored", "lost"} => task[q] = "completed"
       /\ file[q] # Empty
  /\ file[q] # Empty =>
       /\ post[q] \in LeadPost /\ IsOf(q, file[q])
       /\ post[q].state = "failed" => ~(post[q].procedures \subseteq ProcedureType)
  /\ post[q].state = "loaded" => \A c \in post[q].found : IsOf(q, c)

\* Posts that are about to make a client.
Making == {q \in UnderWay : post[q].state = "loaded" /\ post[q].found = {}}
MakingPhone(p) == {q \in Making : post[q].phone = p}
MakingEmail(e) == {q \in Making : post[q].email = e}

\* What is there and what is made are together no more than may overlap.
Bounded(S, T) ==
  /\ IsFiniteSet(S) /\ IsFiniteSet(T)
  /\ Cardinality(S) + Cardinality(T) <= MaxOverlap

CountInv ==
  /\ IsFiniteSet(UnderWay) /\ Cardinality(UnderWay) <= MaxOverlap
  /\ \A p \in Phones : Bounded(WithPhone(p), MakingPhone(p))
  /\ \A e \in Emails : Bounded(WithEmail(e), MakingEmail(e))

ChatInv == ChatTypeOK /\ (\A q \in Posts : PostInv(q)) /\ CountInv

\* Rows that are lost from both sets leave them bounded.
LEMMA BoundedSubset ==
  ASSUME NEW S, NEW T, Bounded(S, T), NEW S1 \in SUBSET S, NEW T1 \in SUBSET T
  PROVE  Bounded(S1, T1)
<1>1. IsFiniteSet(S) /\ IsFiniteSet(T) BY DEF Bounded
<1>2. IsFiniteSet(S1) /\ Cardinality(S1) <= Cardinality(S) BY <1>1, FS_Subset
<1>3. IsFiniteSet(T1) /\ Cardinality(T1) <= Cardinality(T) BY <1>1, FS_Subset
<1>4. /\ Cardinality(S) \in Nat /\ Cardinality(T) \in Nat
      /\ Cardinality(S1) \in Nat /\ Cardinality(T1) \in Nat
  BY <1>1, <1>2, <1>3, FS_CardinalityType
<1> QED BY <1>2, <1>3, <1>4, ChatAssumption DEF Bounded

\* Making a client moves a post from one set to the other.
LEMMA BoundedMove ==
  ASSUME NEW S, NEW T, Bounded(S, T), NEW c, NEW q \in T,
         NEW S1 \in SUBSET (S \cup {c}), NEW T1 \in SUBSET (T \ {q})
  PROVE  Bounded(S1, T1)
<1>1. IsFiniteSet(S) /\ IsFiniteSet(T) BY DEF Bounded
<1>2. /\ IsFiniteSet(S \cup {c})
      /\ Cardinality(S \cup {c}) <= Cardinality(S) + 1
  <2>1. Cardinality(S) \in Nat BY <1>1, FS_CardinalityType
  <2>2. /\ IsFiniteSet(S \cup {c})
        /\ Cardinality(S \cup {c}) =
             IF c \in S THEN Cardinality(S) ELSE Cardinality(S) + 1
    BY <1>1, FS_AddElement
  <2> QED BY <2>1, <2>2
<1>3. IsFiniteSet(T \ {q}) /\ Cardinality(T \ {q}) = Cardinality(T) - 1
  BY <1>1, FS_RemoveElement
<1>4. /\ Cardinality(S) \in Nat /\ Cardinality(T) \in Nat
      /\ Cardinality(S \cup {c}) \in Nat /\ Cardinality(T \ {q}) \in Nat
  BY <1>1, <1>2, <1>3, FS_CardinalityType
<1>5. Cardinality(S \cup {c}) + Cardinality(T \ {q}) <= MaxOverlap
  BY <1>2, <1>3, <1>4, ChatAssumption DEF Bounded
<1>6. Bounded(S \cup {c}, T \ {q}) BY <1>2, <1>3, <1>5 DEF Bounded
<1> QED BY <1>6, BoundedSubset

\* While nobody is there, those under way are few enough.
LEMMA BoundedFirst ==
  ASSUME NEW T \in SUBSET UnderWay, IsFiniteSet(UnderWay),
         Cardinality(UnderWay) <= MaxOverlap
  PROVE  Bounded({}, T)
<1>1. Bounded({}, UnderWay)
  <2>1. Cardinality(UnderWay) \in Nat BY FS_CardinalityType
  <2> QED BY <2>1, FS_EmptySet, ChatAssumption DEF Bounded
<1> QED BY <1>1, BoundedSubset

\* What happens to post q, other posts and all clients being left alone, keeps
\* the posts sound and those under way few enough.
LEMMA ChatPosts ==
  ASSUME ChatInv, NEW q \in Posts, NEW x \in PostType, NEW t, NEW f,
         post' = [post EXCEPT ![q] = x], task' = [task EXCEPT ![q] = t],
         file' = [file EXCEPT ![q] = f], client' = client,
         t \in {"none", "queued", "completed", "failed"},
           f \in ClientRows \cup {Empty},
         PostInv(q)',
         \/ x.state \notin {"calling", "loaded", "stored"}
         \/ q \in UnderWay \/ Cardinality(UnderWay) < MaxOverlap
  PROVE  /\ ChatTypeOK' /\ (\A k \in Posts : PostInv(k))'
         /\ IsFiniteSet(UnderWay)' /\ (Cardinality(UnderWay) <= MaxOverlap)'
         /\ \A k \in Posts : k # q => post'[k] = post[k]
<1>1. ChatTypeOK' BY DEF ChatInv, ChatTypeOK
<1>2. /\ post'[q] = x
      /\ \A k \in Posts : k # q =>
           post'[k] = post[k] /\ task'[k] = task[k] /\ file'[k] = file[k]
  BY DEF ChatInv, ChatTypeOK
<1>3. ASSUME NEW k \in Posts PROVE PostInv(k)'
  <2>1. CASE k = q BY <2>1
  <2>2. CASE k # q
    <3>1. PostInv(k) BY DEF ChatInv
    <3>2. post'[k] = post[k] /\ task'[k] = task[k] /\ file'[k] = file[k] BY <1>2, <2>2
    <3> QED BY <3>1, <3>2 DEF PostInv, IsOf, Known
  <2> QED BY <2>1, <2>2
<1>4. IsFiniteSet(UnderWay)' /\ (Cardinality(UnderWay) <= MaxOverlap)'
  <2>1. IsFiniteSet(UnderWay) /\ Cardinality(UnderWay) <= MaxOverlap
    BY DEF ChatInv, CountInv
  <2>2. CASE UnderWay' \subseteq UnderWay
    <3>1. IsFiniteSet(UnderWay') /\ Cardinality(UnderWay') <= Cardinality(UnderWay)
      BY <2>1, <2>2, FS_Subset
    <3>2. Cardinality(UnderWay) \in Nat /\ Cardinality(UnderWay') \in Nat
      BY <2>1, <3>1, FS_CardinalityType
    <3> QED BY <2>1, <3>1, <3>2, ChatAssumption
  <2>3. CASE ~(UnderWay' \subseteq UnderWay)
    <3>1. UnderWay' = UnderWay \cup {q} /\ Cardinality(UnderWay) < MaxOverlap
      BY <1>2, <2>3 DEF UnderWay
    <3>2. /\ IsFiniteSet(UnderWay \cup {q})
          /\ Cardinality(UnderWay \cup {q}) =
               IF q \in UnderWay THEN Cardinality(UnderWay) ELSE Cardinality(UnderWay) + 1
      BY <2>1, FS_AddElement
    <3>3. Cardinality(UnderWay) \in Nat BY <2>1, FS_CardinalityType
    <3> QED BY <3>1, <3>2, <3>3, ChatAssumption
  <2> QED BY <2>2, <2>3
<1> QED BY <1>1, <1>2, <1>3, <1>4

\* What happens to post q, other posts and all clients being left alone, keeps
\* everything if q makes no client and there are not too many under way.
LEMMA ChatChange ==
  ASSUME ChatInv, NEW q \in Posts, NEW x \in PostType, NEW t, NEW f,
         post' = [post EXCEPT ![q] = x], task' = [task EXCEPT ![q] = t],
         file' = [file EXCEPT ![q] = f], client' = client,
         t \in {"none", "queued", "completed", "failed"},
           f \in ClientRows \cup {Empty},
         PostInv(q)', q \notin Making',
         \/ x.state \notin {"calling", "loaded", "stored"}
         \/ q \in UnderWay \/ Cardinality(UnderWay) < MaxOverlap
  PROVE  ChatInv'
<1>1. /\ ChatTypeOK' /\ (\A k \in Posts : PostInv(k))'
      /\ IsFiniteSet(UnderWay)' /\ (Cardinality(UnderWay) <= MaxOverlap)'
      /\ \A k \in Posts : k # q => post'[k] = post[k]
  BY ChatPosts
<1>2. Making' \subseteq Making /\ \A k \in Making' : post'[k] = post[k]
  BY <1>1 DEF Making, UnderWay
<1>3. ASSUME NEW p \in Phones PROVE Bounded(WithPhone(p), MakingPhone(p))'
  <2>1. Bounded(WithPhone(p), MakingPhone(p)) BY DEF ChatInv, CountInv
  <2>2. WithPhone(p)' = WithPhone(p) BY DEF WithPhone, Known
  <2>3. MakingPhone(p)' \subseteq MakingPhone(p) BY <1>2 DEF MakingPhone
  <2>4. Bounded(WithPhone(p)', MakingPhone(p)') BY <2>1, <2>2, <2>3, BoundedSubset
  <2> QED BY <2>4 DEF Bounded
<1>4. ASSUME NEW e \in Emails PROVE Bounded(WithEmail(e), MakingEmail(e))'
  <2>1. Bounded(WithEmail(e), MakingEmail(e)) BY DEF ChatInv, CountInv
  <2>2. WithEmail(e)' = WithEmail(e) BY DEF WithEmail, Known
  <2>3. MakingEmail(e)' \subseteq MakingEmail(e) BY <1>2 DEF MakingEmail
  <2>4. Bounded(WithEmail(e)', MakingEmail(e)') BY <2>1, <2>2, <2>3, BoundedSubset
  <2> QED BY <2>4 DEF Bounded
<1> QED BY <1>1, <1>3, <1>4 DEF ChatInv, CountInv

\* A post that is over is still a post.
LEMMA EndedType ==
  ASSUME NEW x \in PostType, NEW s \in {"answered", "failed"}
  PROVE  [x EXCEPT !.state = s] \in PostType /\ [x EXCEPT !.state = s].state = s
<1>1. x \in CallPost \/ x \in BarePost \/ x \in LeadPost BY DEF PostType
<1>2. CASE x \in CallPost BY <1>2 DEF CallPost, PostType
<1>3. CASE x \in BarePost BY <1>3 DEF BarePost, PostType
<1>4. CASE x \in LeadPost BY <1>4 DEF LeadPost, PostType
<1> QED BY <1>1, <1>2, <1>3, <1>4

\* Calls of the AI core make no clients.
LEMMA ChatCalls ==
  ASSUME ChatInv, NEW q \in Posts,
         \/ \E endpoint \in Endpoints : Call(q, endpoint)
         \/ CoreAnswers(q) \/ CoreFails(q) \/ CoreBabbles(q) \/ Submit(q)
  PROVE  ChatInv'
<1>1. /\ ChatTypeOK /\ PostInv(q) /\ post[q] \in PostType
      /\ task[q] \in {"none", "queued", "completed", "failed"}
      /\ file[q] \in ClientRows \cup {Empty}
  BY DEF ChatInv, ChatTypeOK
<1>2. ASSUME NEW x \in PostType, NEW t \in {"none", "queued", "completed", "failed"},
             post' = [post EXCEPT ![q] = x], task' = [task EXCEPT ![q] = t],
             file' = file, client' = client
      PROVE  post'[q] = x /\ task'[q] = t /\ file' = [file EXCEPT ![q] = file[q]]
  BY <1>1, <1>2 DEF ChatTypeOK
<1>3. ASSUME NEW endpoint \in Endpoints, Call(q, endpoint) PROVE ChatInv'
  <2> DEFINE x == [state |-> "calling", endpoint |-> endpoint]
  <2>1. x \in CallPost /\ x \in PostType /\ x.state = "calling" BY DEF CallPost,
          PostType
  <2>2. /\ post' = [post EXCEPT ![q] = x] /\ task' = [task EXCEPT ![q] = "none"]
        /\ file' = file /\ client' = client
        /\ post[q].state = "new" /\ Cardinality(UnderWay) < MaxOverlap
    BY <1>3 DEF Call, Flushed, Begins
  <2> HIDE DEF x
  <2>3. post'[q] = x /\ task'[q] = "none" /\ file' = [file EXCEPT ![q] = file[q]]
    BY <1>2, <2>1, <2>2
  <2>4. PostInv(q)' BY <1>1, <2>1, <2>2, <2>3 DEF PostInv
  <2>5. q \notin Making' BY <2>1, <2>3 DEF Making
  <2> QED BY <1>1, <2>1, <2>2, <2>3, <2>4, <2>5, ChatChange
<1>4. ASSUME NEW t \in {"none", "completed", "failed"}, NEW s \in {"answered",
               "failed"},
             Recorded(q, t, s), s = "answered" => t = "completed"
      PROVE  ChatInv'
  <2> DEFINE x == [post[q] EXCEPT !.state = s]
  <2>1. x \in PostType /\ x.state = s
    <3>1. s \in {"answered", "failed"} /\ post[q] \in PostType BY <1>1
    <3> QED BY ONLY <3>1, EndedType
  <2>2. /\ post' = [post EXCEPT ![q] = x] /\ task' = [task EXCEPT ![q] = t]
        /\ file' = file /\ client' = client /\ post[q].state = "calling"
    <3>1. post' = [post EXCEPT ![q].state = s] BY <1>4 DEF Recorded, Becomes
    <3>2. post' = [post EXCEPT ![q] = x] BY <3>1
    <3> QED BY <1>4, <3>2 DEF Recorded
  <2> HIDE DEF x
  <2>3. post'[q] = x /\ task'[q] = t /\ file' = [file EXCEPT ![q] = file[q]]
    BY <1>2, <2>1, <2>2
  <2>4. PostInv(q)' BY <1>1, <1>4, <2>1, <2>2, <2>3 DEF PostInv
  <2>5. q \notin Making' BY <2>1, <2>3 DEF Making
  <2> QED BY <1>1, <2>1, <2>2, <2>3, <2>4, <2>5, ChatChange
<1>5. CASE CoreAnswers(q) BY <1>4, <1>5 DEF CoreAnswers
<1>6. CASE CoreFails(q) BY <1>4, <1>6 DEF CoreFails
<1>7. CASE CoreBabbles(q)
  <2>1. Recorded(q, "failed", "failed") \/ Recorded(q, "none", "failed")
    BY <1>7 DEF CoreBabbles
  <2> QED BY <1>4, <2>1
<1>8. CASE Submit(q)
  <2> DEFINE x == [post[q] EXCEPT !.state = "answered"]
  <2>1. x \in PostType /\ x.state = "answered" BY <1>1, EndedType
  <2>2. /\ post' = [post EXCEPT ![q] = x] /\ task' = [task EXCEPT ![q] = "queued"]
        /\ file' = file /\ client' = client /\ post[q].state = "new"
    BY <1>8 DEF Submit, Becomes, Begins
  <2> HIDE DEF x
  <2>3. post'[q] = x /\ task'[q] = "queued" /\ file' = [file EXCEPT ![q] = file[q]]
    BY <1>2, <2>1, <2>2
  <2>4. PostInv(q)' BY <1>1, <2>1, <2>2, <2>3 DEF PostInv
  <2>5. q \notin Making' BY <2>1, <2>3 DEF Making
  <2> QED BY <1>1, <2>1, <2>2, <2>3, <2>4, <2>5, ChatChange
<1> QED BY <1>3, <1>5, <1>6, <1>7, <1>8

\* A post that is read back or broken off makes no client either, and has its
\* case if it had one.
LEMMA ChatEnds ==
  ASSUME ChatInv, NEW q \in Posts, ReadBack(q) \/ BreakOff(q)
  PROVE  ChatInv'
<1>1. /\ ChatTypeOK /\ PostInv(q) /\ post[q] \in PostType
      /\ task[q] \in {"none", "queued", "completed", "failed"}
      /\ file[q] \in ClientRows \cup {Empty}
  BY DEF ChatInv, ChatTypeOK
<1>2. ASSUME NEW x \in PostType, x.state \in {"answered", "failed", "lost"},
             post' = [post EXCEPT ![q] = x], UNCHANGED <<client, task, file>>,
             PostInv(q)'
      PROVE  ChatInv'
  <2>1. task' = [task EXCEPT ![q] = task[q]] /\ file' = [file EXCEPT ![q] = file[q]]
    BY <1>1, <1>2 DEF ChatTypeOK
  <2>2. post'[q] = x BY <1>1, <1>2 DEF ChatTypeOK
  <2>3. q \notin Making' BY <1>2, <2>2 DEF Making
  <2> QED BY <1>1, <1>2, <2>1, <2>3, ChatChange
<1>3. ASSUME post[q].state = "stored", NEW s \in {"answered", "failed", "lost"},
             s = "failed" => ~(post[q].procedures \subseteq ProcedureType),
             post' = [post EXCEPT ![q].state = s], UNCHANGED <<client, task, file>>
      PROVE  ChatInv'
  <2>1. PICK x : x = [post[q] EXCEPT !.state = s] OBVIOUS
  <2>2. /\ post[q] \in LeadPost /\ IsOf(q, file[q]) /\ file[q] # Empty
        /\ task[q] = "completed"
    BY <1>1, <1>3 DEF PostInv
  <2>3. /\ x \in LeadPost /\ x \in PostType /\ x.state = s
        /\ x.phone = post[q].phone /\ x.email = post[q].email
        /\ x.found = post[q].found /\ x.procedures = post[q].procedures
    BY <2>1, <2>2 DEF LeadPost, PostType
  <2>4. post' = [post EXCEPT ![q] = x] /\ post'[q] = x
    BY <1>1, <1>3, <2>1 DEF ChatTypeOK
  <2>5. IsOf(q, file[q])' BY <1>3, <2>2, <2>3, <2>4 DEF IsOf, Known
  <2>6. PostInv(q)' BY <1>3, <2>2, <2>3, <2>4, <2>5 DEF PostInv
  <2> QED BY <1>2, <1>3, <2>3, <2>4, <2>6
<1>4. CASE ReadBack(q)
  <2>1. PICK s : s = IF Readable(post[q].procedures) THEN "answered" ELSE "failed"
    OBVIOUS
  <2>2. /\ post[q].state = "stored" /\ post' = [post EXCEPT ![q].state = s]
        /\ UNCHANGED <<client, task, file>>
    BY <1>4, <2>1 DEF ReadBack, Becomes
  <2>3. /\ s \in {"answered", "failed", "lost"}
        /\ s = "failed" => ~(post[q].procedures \subseteq ProcedureType)
    BY <2>1 DEF Readable
  <2> QED BY <1>3, <2>2, <2>3
<1>5. CASE BreakOff(q) /\ post[q].state = "stored"
  <2>1. post' = [post EXCEPT ![q].state = "lost"] /\ UNCHANGED <<client, task, file>>
    BY <1>5 DEF BreakOff, Becomes
  <2> QED BY <1>3, <1>5, <2>1
<1>6. CASE BreakOff(q) /\ post[q].state # "stored"
  <2>1. PICK x : x = [post[q] EXCEPT !.state = "failed"] OBVIOUS
  <2>2. x \in PostType /\ x.state = "failed" BY <1>1, <2>1, EndedType
  <2>3. /\ post' = [post EXCEPT ![q] = x] /\ UNCHANGED <<client, task, file>>
        /\ post[q].state \in {"calling", "loaded"}
    BY <1>6, <2>1 DEF BreakOff, Becomes, UnderWay
  <2>4. post'[q] = x BY <1>1, <2>3 DEF ChatTypeOK
  <2>5. PostInv(q)' BY <1>1, <2>2, <2>3, <2>4 DEF PostInv
  <2> QED BY <1>2, <2>2, <2>3, <2>5
<1> QED BY <1>4, <1>5, <1>6

\* A lead that is loaded has found whom it is for, and whoever finds nobody is
\* the first of those who make this client, or one of those under way.
LEMMA ChatLoads ==
  ASSUME ChatInv, NEW q \in Posts, NEW p \in Phones \cup {Empty},
         NEW e \in Emails \cup {Empty}, NEW k \in Recommended,
         NEW t \in Given \cup {"undetermined"}, LoadLead(q, p, e, k, t)
  PROVE  ChatInv'
<1> DEFINE s == IF Cardinality(Existing(p, e)) > 1 THEN "failed" ELSE "loaded"
           x == [state |-> s, phone |-> p, email |-> e, procedures |-> {k, t},
                 found |-> Existing(p, e), after |-> {j \in Posts : file[j] # Empty}]
<1>1. /\ ChatTypeOK /\ PostInv(q)
      /\ task[q] \in {"none", "queued", "completed", "failed"}
      /\ file[q] \in ClientRows \cup {Empty}
  BY DEF ChatInv, ChatTypeOK
<1>2. Existing(p, e) \subseteq ClientRows BY DEF Existing, WithPhone, WithEmail
<1>3. /\ x \in LeadPost /\ x \in PostType /\ x.state \in {"failed", "loaded"}
      /\ x.phone = p /\ x.email = e /\ x.found = Existing(p, e)
  BY <1>2 DEF LeadPost, PostType
<1>4. /\ post' = [post EXCEPT ![q] = x] /\ task' = task /\ file' = file
      /\ client' = client /\ post[q].state = "new"
           /\ Cardinality(UnderWay) < MaxOverlap
  BY DEF LoadLead, Begins
<1> HIDE DEF x
<1>5. /\ post'[q] = x /\ task' = [task EXCEPT ![q] = task[q]]
      /\ file' = [file EXCEPT ![q] = file[q]]
  BY <1>1, <1>4 DEF ChatTypeOK
<1>6. task[q] = "none" /\ file[q] = Empty BY <1>1, <1>4 DEF PostInv
<1>7. PostInv(q)'
  <2>1. ASSUME NEW c \in Existing(p, e) PROVE IsOf(q, c)'
    <3>1. c \in WithPhone(p) \/ c \in WithEmail(e) BY DEF Existing
    <3>2. /\ Known(c)
          /\ \/ client[c].phone = p /\ p # Empty
             \/ client[c].email = e /\ e # Empty
      <4>1. CASE c \in WithPhone(p) BY <4>1 DEF WithPhone
      <4>2. CASE c \in WithEmail(e) BY <4>2 DEF WithEmail
      <4> QED BY <3>1, <4>1, <4>2
    <3> QED BY <1>3, <1>4, <1>5, <3>2 DEF IsOf, Known
  <2> QED BY <1>3, <1>4, <1>5, <1>6, <2>1 DEF PostInv
<1>8. CASE q \notin Making' BY <1>1, <1>3, <1>4, <1>5, <1>7, <1>8, ChatChange
<1>9. CASE q \in Making'
  <2>1. /\ ChatTypeOK' /\ (\A j \in Posts : PostInv(j))'
        /\ IsFiniteSet(UnderWay)' /\ (Cardinality(UnderWay) <= MaxOverlap)'
        /\ \A j \in Posts : j # q => post'[j] = post[j]
    BY <1>1, <1>3, <1>4, <1>5, <1>7, ChatPosts
  <2>2. WithPhone(p) = {} /\ WithEmail(e) = {}
    <3>1. Existing(p, e) = {} BY <1>3, <1>5, <1>9 DEF Making
    <3> QED BY <3>1 DEF Existing
  <2>3. Making' \subseteq Making \cup {q} BY <2>1 DEF Making, UnderWay
  <2>4. ASSUME NEW T \in SUBSET Making' PROVE Bounded({}, T)'
    <3>1. (T \subseteq UnderWay)' BY DEF Making
    <3>2. Cardinality(UnderWay') \in Nat BY <2>1, FS_CardinalityType
    <3>3. IsFiniteSet(T) /\ Cardinality(T) <= Cardinality(UnderWay')
      BY <2>1, <3>1, FS_Subset
    <3>4. Cardinality(T) \in Nat BY <3>3, FS_CardinalityType
    <3> QED BY <2>1, <3>2, <3>3, <3>4, FS_EmptySet, ChatAssumption DEF Bounded
  <2>5. ASSUME NEW r \in Phones PROVE Bounded(WithPhone(r)', MakingPhone(r)')
    <3>1. WithPhone(r)' = WithPhone(r) BY <1>4 DEF WithPhone, Known
    <3>2. CASE r = p
      <4>1. MakingPhone(r)' \subseteq Making' BY DEF MakingPhone
      <4>2. WithPhone(r)' = {} BY <2>2, <3>1, <3>2
      <4> QED BY <2>4, <4>1, <4>2 DEF Bounded
    <3>3. CASE r # p
      <4>1. MakingPhone(r)' \subseteq MakingPhone(r)
        BY <1>3, <1>5, <2>1, <2>3, <3>3 DEF MakingPhone, Making, UnderWay
      <4>2. Bounded(WithPhone(r), MakingPhone(r)) BY DEF ChatInv, CountInv
      <4> QED BY <3>1, <4>1, <4>2, BoundedSubset
    <3> QED BY <3>2, <3>3
  <2>6. ASSUME NEW r \in Emails PROVE Bounded(WithEmail(r)', MakingEmail(r)')
    <3>1. WithEmail(r)' = WithEmail(r) BY <1>4 DEF WithEmail, Known
    <3>2. CASE r = e
      <4>1. MakingEmail(r)' \subseteq Making' BY DEF MakingEmail
      <4>2. WithEmail(r)' = {} BY <2>2, <3>1, <3>2
      <4> QED BY <2>4, <4>1, <4>2 DEF Bounded
    <3>3. CASE r # e
      <4>1. MakingEmail(r)' \subseteq MakingEmail(r)
        BY <1>3, <1>5, <2>1, <2>3, <3>3 DEF MakingEmail, Making, UnderWay
      <4>2. Bounded(WithEmail(r), MakingEmail(r)) BY DEF ChatInv, CountInv
      <4> QED BY <3>1, <4>1, <4>2, BoundedSubset
    <3> QED BY <3>2, <3>3
  <2>7. CountInv' BY <2>1, <2>5, <2>6 DEF CountInv, Bounded
  <2> QED BY <2>1, <2>7 DEF ChatInv
<1> QED BY <1>8, <1>9

\* A lead is committed for a client it has found, or for one it makes, which
\* takes the place of the post among the counted.
LEMMA ChatCommits ==
  ASSUME ChatInv, NEW q \in Posts, NEW c \in ClientRows, CommitLead(q, c)
  PROVE  ChatInv'
<1> DEFINE x == [post[q] EXCEPT !.state = "stored"]
           row == [phone |-> post[q].phone, email |-> post[q].email]
<1>1. ChatTypeOK /\ PostInv(q) /\ post[q] \in PostType /\ post[q].state = "loaded"
  BY DEF ChatInv, ChatTypeOK, CommitLead
<1>2. post[q] \in LeadPost BY <1>1 DEF PostType, BarePost, CallPost
<1>3. /\ x \in LeadPost /\ x \in PostType /\ x.state = "stored"
      /\ x.phone = post[q].phone /\ x.email = post[q].email
      /\ x.found = post[q].found
  BY <1>2 DEF LeadPost, PostType
<1>4. post' = [post EXCEPT ![q] = x] BY DEF CommitLead, Becomes
<1>5. task' = [task EXCEPT ![q] = "completed"] /\ file' = [file EXCEPT ![q] = c]
  BY DEF CommitLead
<1> HIDE DEF x
<1>6. /\ post'[q] = x /\ task'[q] = "completed" /\ file'[q] = c
      /\ \A k \in Posts : k # q =>
           post'[k] = post[k] /\ task'[k] = task[k] /\ file'[k] = file[k]
  BY <1>1, <1>4, <1>5 DEF ChatTypeOK
<1>7. c # Empty /\ q \in UnderWay BY <1>1, ChatAssumption DEF UnderWay
<1>8. CASE post[q].found # {}
  <2>1. client' = client /\ c \in post[q].found BY <1>8 DEF CommitLead
  <2>2. IsOf(q, c) BY <1>1, <2>1 DEF PostInv
  <2>3. IsOf(q, c)' BY <1>3, <1>6, <2>1, <2>2 DEF IsOf, Known
  <2>4. PostInv(q)' BY <1>3, <1>6, <1>7, <2>3 DEF PostInv
  <2>5. q \notin Making' BY <1>3, <1>6 DEF Making
  <2> QED BY <1>1, <1>3, <1>4, <1>5, <1>7, <2>1, <2>4, <2>5, ChatChange
<1>9. CASE post[q].found = {}
  <2>1. /\ client' = [client EXCEPT ![c] = row] /\ client[c] = Empty
    BY <1>9 DEF CommitLead, IsNextRow, Known
  <2>2. row \in Client /\ row # Empty
    <3>1. row \in Client BY <1>2 DEF LeadPost, Client
    <3> QED BY <3>1, ChatAssumption DEF Client
  <2>3. /\ client'[c] = row /\ \A d \in ClientRows : d # c => client'[d] = client[d]
        /\ client' \in [ClientRows -> Client \cup {Empty}]
    BY <1>1, <2>1, <2>2 DEF ChatTypeOK
  <2>4. ChatTypeOK' BY <1>1, <1>3, <1>4, <1>5, <2>3 DEF ChatTypeOK
  <2>5. ASSUME NEW k \in Posts, NEW d \in ClientRows, IsOf(k, d), k # q
        PROVE  IsOf(k, d)'
    <3>1. d # c BY <2>1, <2>5 DEF IsOf, Known
    <3> QED BY <1>6, <2>3, <2>5, <3>1 DEF IsOf, Known
  <2>6. IsOf(q, c)' BY <1>3, <1>6, <1>9, <2>2, <2>3 DEF IsOf, Known
  <2>7. ASSUME NEW k \in Posts PROVE PostInv(k)'
    <3>1. CASE k = q BY <1>3, <1>6, <1>7, <2>6, <3>1 DEF PostInv
    <3>2. CASE k # q
      <4>1. PostInv(k) /\ file[k] \in ClientRows \cup {Empty} /\ post[k] \in PostType
        BY DEF ChatInv, ChatTypeOK
      <4>2. post[k].state = "loaded" => post[k].found \subseteq ClientRows
        BY <4>1 DEF PostType, BarePost, CallPost, LeadPost
      <4> QED BY <1>6, <2>5, <3>2, <4>1, <4>2 DEF PostInv
    <3> QED BY <3>1, <3>2
  <2>8. UnderWay' \subseteq UnderWay /\ Making' \subseteq Making \ {q}
       /\ \A k \in Making' : post'[k] = post[k]
    BY <1>3, <1>6, <1>7 DEF UnderWay, Making
  <2>9. IsFiniteSet(UnderWay)' /\ (Cardinality(UnderWay) <= MaxOverlap)'
    <3>1. IsFiniteSet(UnderWay) /\ Cardinality(UnderWay) <= MaxOverlap
      BY DEF ChatInv, CountInv
    <3>2. IsFiniteSet(UnderWay') /\ Cardinality(UnderWay') <= Cardinality(UnderWay)
      BY <2>8, <3>1, FS_Subset
    <3>3. Cardinality(UnderWay) \in Nat /\ Cardinality(UnderWay') \in Nat
      BY <3>1, <3>2, FS_CardinalityType
    <3> QED BY <3>1, <3>2, <3>3, ChatAssumption
  <2>10. q \in Making BY <1>1, <1>9 DEF Making, UnderWay
  <2>11. ASSUME NEW p \in Phones PROVE Bounded(WithPhone(p)', MakingPhone(p)')
    <3>1. Bounded(WithPhone(p), MakingPhone(p)) BY DEF ChatInv, CountInv
    <3>2. MakingPhone(p)' \subseteq MakingPhone(p) \ {q}
      BY <2>8 DEF MakingPhone
    <3>3. CASE p = post[q].phone
      <4>1. q \in MakingPhone(p) BY <2>10, <3>3 DEF MakingPhone
      <4>2. WithPhone(p)' \subseteq WithPhone(p) \cup {c} BY <2>3 DEF WithPhone, Known
      <4> QED BY <3>1, <3>2, <4>1, <4>2, BoundedMove
    <3>4. CASE p # post[q].phone
      <4>1. WithPhone(p)' \subseteq WithPhone(p) BY <2>3, <3>4 DEF WithPhone, Known
      <4> QED BY <3>1, <3>2, <4>1, BoundedSubset
    <3> QED BY <3>3, <3>4
  <2>12. ASSUME NEW e \in Emails PROVE Bounded(WithEmail(e)', MakingEmail(e)')
    <3>1. Bounded(WithEmail(e), MakingEmail(e)) BY DEF ChatInv, CountInv
    <3>2. MakingEmail(e)' \subseteq MakingEmail(e) \ {q}
      BY <2>8 DEF MakingEmail
    <3>3. CASE e = post[q].email
      <4>1. q \in MakingEmail(e) BY <2>10, <3>3 DEF MakingEmail
      <4>2. WithEmail(e)' \subseteq WithEmail(e) \cup {c} BY <2>3 DEF WithEmail, Known
      <4> QED BY <3>1, <3>2, <4>1, <4>2, BoundedMove
    <3>4. CASE e # post[q].email
      <4>1. WithEmail(e)' \subseteq WithEmail(e) BY <2>3, <3>4 DEF WithEmail, Known
      <4> QED BY <3>1, <3>2, <4>1, BoundedSubset
    <3> QED BY <3>3, <3>4
  <2> QED BY <2>4, <2>7, <2>9, <2>11, <2>12 DEF ChatInv, CountInv, Bounded
<1> QED BY <1>8, <1>9

\* The posts of the chat, their tasks and their cases belong together.
THEOREM ChatInvariance == ChatSpec => []ChatInv
<1>1. ChatInit => ChatInv
  <2> SUFFICES ASSUME ChatInit PROVE ChatInv OBVIOUS
  <2>1. ChatTypeOK BY DEF ChatInit, ChatTypeOK, PostType, BarePost
  <2>2. \A q \in Posts : PostInv(q) BY DEF ChatInit, PostInv
  <2>3. UnderWay = {} /\ IsFiniteSet({}) /\ Cardinality({}) = 0
    BY FS_EmptySet DEF ChatInit, UnderWay
  <2>4. (\A p \in Phones : WithPhone(p) = {}) /\ (\A e \in Emails : WithEmail(e) = {})
    BY DEF ChatInit, WithPhone, WithEmail, Known
  <2>5. \A T \in SUBSET UnderWay : Bounded({}, T)
    BY <2>3, BoundedFirst, ChatAssumption
  <2>6. /\ \A p \in Phones : MakingPhone(p) \subseteq UnderWay
        /\ \A e \in Emails : MakingEmail(e) \subseteq UnderWay
    BY DEF MakingPhone, MakingEmail, Making
  <2>7. CountInv BY <2>3, <2>4, <2>5, <2>6, ChatAssumption DEF CountInv
  <2> QED BY <2>1, <2>2, <2>7 DEF ChatInv
<1>2. ChatInv /\ [ChatNext]_chatVars => ChatInv'
  <2> SUFFICES ASSUME ChatInv, [ChatNext]_chatVars PROVE ChatInv' OBVIOUS
  <2>1. CASE ChatNext BY <2>1, ChatCalls, ChatEnds, ChatLoads, ChatCommits DEF ChatNext
  <2>2. CASE UNCHANGED chatVars
    <3> USE <2>2 DEF chatVars
    <3>1. ChatTypeOK' BY DEF ChatInv, ChatTypeOK
    <3>2. ASSUME NEW q \in Posts PROVE PostInv(q)'
      <4>1. PostInv(q) BY DEF ChatInv
      <4> QED BY <4>1 DEF PostInv, IsOf, Known
    <3>3. CountInv'
      <4>1. CountInv BY DEF ChatInv
      <4> QED
        BY <4>1 DEF CountInv, Bounded, UnderWay, Making, MakingPhone, MakingEmail,
                          WithPhone, WithEmail, Known
    <3> QED BY <3>1, <3>2, <3>3 DEF ChatInv
  <2> QED BY <2>1, <2>2
<1> QED BY <1>1, <1>2, PTL DEF ChatSpec

\* A post that is loaded or stored comes after posts with cases, and if it repeats
\* one of them, it has found that one's client and none besides, or is of it.
FoundAgain(q) ==
  post[q].state = "loaded" \/ file[q] # Empty =>
    \A k \in post[q].after :
      /\ file[k] # Empty
      /\ Repeats(q, k) =>
           IF file[q] # Empty THEN file[q] = file[k] ELSE post[q].found = {file[k]}

NobodyWithoutCase == \A c \in ClientRows : Known(c) => \E q \in Posts : file[q] = c

RepeatInv == NobodyWithoutCase /\ \A q \in Posts : FoundAgain(q)

\* A step that makes q neither loaded nor stored.
Calm(q) ==
  /\ file'[q] = file[q]
  /\ post'[q].state = "loaded" => post'[q] = post[q]
  /\ file[q] # Empty => /\ post'[q].phone = post[q].phone
                        /\ post'[q].after = post[q].after

\* What is not a lead that is loaded or stored is calm.
LEMMA ChatCalm ==
  ASSUME ChatInv, NEW q \in Posts,
         \/ \E endpoint \in Endpoints : Call(q, endpoint)
         \/ CoreAnswers(q) \/ CoreFails(q) \/ CoreBabbles(q) \/ Submit(q)
         \/ ReadBack(q) \/ BreakOff(q)
  PROVE  /\ Calm(q) /\ client' = client
         /\ \A k \in Posts \ {q} : post'[k] = post[k] /\ file'[k] = file[k]
<1>1. ChatTypeOK /\ PostInv(q) BY DEF ChatInv
<1>2. client' = client /\ file' = file
  BY DEF Call, CoreAnswers, CoreFails, CoreBabbles, Recorded, Submit, ReadBack, BreakOff
<1>3. PICK x : post' = [post EXCEPT ![q] = x]
  <2>1. CASE \E endpoint \in Endpoints : Call(q, endpoint) BY <2>1 DEF Call
  <2>2. CASE \E s : Becomes(q, s)
    <3>1. PICK s : post' = [post EXCEPT ![q].state = s] BY <2>2 DEF Becomes
    <3>2. post' = [post EXCEPT ![q] = [post[q] EXCEPT !.state = s]] BY <3>1
    <3> QED BY <3>2
  <2> QED BY <2>1, <2>2
       DEF CoreAnswers, CoreFails, CoreBabbles, Recorded, Submit, ReadBack, BreakOff
<1>4. post'[q] = x /\ \A k \in Posts \ {q} : post'[k] = post[k]
  BY <1>1, <1>3 DEF ChatTypeOK
<1>5. Calm(q)
  <2>1. CASE post[q].state = "stored"
    <3>1. PICK s \in {"answered", "failed", "lost"} : Becomes(q, s)
      BY <2>1 DEF Call, CoreAnswers, CoreFails, CoreBabbles, Recorded, Submit, Begins,
                  ReadBack, BreakOff
    <3>2. post[q] \in LeadPost BY <1>1, <2>1 DEF PostInv
    <3>3. post'[q] = [post[q] EXCEPT !.state = s] BY <1>1, <3>1 DEF Becomes, ChatTypeOK
    <3> QED BY <1>2, <3>2, <3>3 DEF LeadPost, Calm
  <2>2. CASE post[q].state # "stored"
    <3>1. post[q].state \in {"new", "calling", "loaded"}
      BY <2>2 DEF Call, CoreAnswers, CoreFails, CoreBabbles, Recorded, Submit, Begins,
                  ReadBack, BreakOff, UnderWay
    <3>2. file[q] = Empty BY <1>1, <3>1 DEF PostInv
    <3>3. post'[q].state # "loaded"
      <4>1. CASE \E endpoint \in Endpoints : Call(q, endpoint)
        <5>1. PICK endpoint \in Endpoints :
                post' = [post EXCEPT ![q] = [state |-> "calling", endpoint |-> endpoint]]
          BY <4>1 DEF Call
        <5> QED BY <1>1, <5>1 DEF ChatTypeOK
      <4>2. CASE \E s \in {"answered", "failed"} : Becomes(q, s)
        <5>1. PICK s \in {"answered", "failed"} : post' = [post EXCEPT ![q].state = s]
          BY <4>2 DEF Becomes
        <5>2. post'[q] = [post[q] EXCEPT !.state = s] /\ post[q] \in PostType
          BY <1>1, <5>1 DEF ChatTypeOK
        <5> QED BY <5>2, EndedType
      <4> QED BY <2>2, <4>1, <4>2
           DEF CoreAnswers, CoreFails, CoreBabbles, Recorded, Submit, ReadBack, BreakOff
    <3> QED BY <1>2, <3>2, <3>3 DEF Calm
  <2> QED BY <2>1, <2>2
<1> QED BY <1>2, <1>4, <1>5

\* Calm posts stay what they are, if clients do and the posts before them.
LEMMA CalmAgain ==
  ASSUME ChatInv, NEW q \in Posts, FoundAgain(q), Calm(q),
         \A c \in ClientRows : Known(c) => client'[c] = client[c],
         \A k \in Posts : file[k] # Empty =>
           file'[k] = file[k] /\ post'[k].phone = post[k].phone
  PROVE  FoundAgain(q)'
<1> SUFFICES ASSUME (post[q].state = "loaded" \/ file[q] # Empty)',
                    NEW k \in post'[q].after
             PROVE  /\ file'[k] # Empty
                    /\ Repeats(q, k)' =>
                         IF file'[q] # Empty THEN file'[q] = file'[k]
                                             ELSE post'[q].found = {file'[k]}
  BY DEF FoundAgain
<1>1. /\ PostInv(q) /\ post[q] \in PostType
  BY DEF ChatInv, ChatTypeOK
<1>2. /\ post[q].state = "loaded" \/ file[q] # Empty
      /\ post'[q].phone = post[q].phone /\ post'[q].after = post[q].after
      /\ file'[q] = file[q]
      /\ file[q] = Empty => post'[q].found = post[q].found
  BY DEF Calm
<1>3. k \in Posts
  <2>1. post[q] \in LeadPost
    BY <1>1, <1>2 DEF PostInv, PostType, CallPost, BarePost
  <2> QED BY <1>2, <2>1 DEF LeadPost
<1>4. /\ file[k] # Empty
      /\ Repeats(q, k) =>
           IF file[q] # Empty THEN file[q] = file[k] ELSE post[q].found = {file[k]}
  BY <1>2 DEF FoundAgain
<1>5. file'[k] = file[k] /\ post'[k].phone = post[k].phone BY <1>3, <1>4
<1>6. client'[file[k]] = client[file[k]]
  <2>1. PostInv(k) /\ file[k] \in ClientRows \cup {Empty}
    BY <1>3 DEF ChatInv, ChatTypeOK
  <2>2. Known(file[k]) /\ file[k] \in ClientRows BY <1>4, <2>1 DEF PostInv, IsOf
  <2> QED BY <2>2
<1>7. Repeats(q, k)' => Repeats(q, k) BY <1>2, <1>5, <1>6 DEF Repeats
<1> QED BY <1>2, <1>4, <1>5, <1>7

\* What is found by a phone that one client has is that client.
LEMMA LoadsAgain ==
  ASSUME ChatInv, NEW q \in Posts, NEW p \in Phones \cup {Empty},
         NEW e \in Emails \cup {Empty}, NEW r \in Recommended,
         NEW t \in Given \cup {"undetermined"}, LoadLead(q, p, e, r, t)
  PROVE  /\ client' = client /\ file' = file /\ FoundAgain(q)'
         /\ \A k \in Posts \ {q} : post'[k] = post[k]
         /\ file[q] = Empty
<1>1. ChatTypeOK /\ PostInv(q) BY DEF ChatInv
<1>2. PICK x :
        x = [state |-> IF Cardinality(Existing(p, e)) > 1 THEN "failed" ELSE "loaded",
             phone |-> p, email |-> e, procedures |-> {r, t},
             found |-> Existing(p, e), after |-> {k \in Posts : file[k] # Empty}]
  OBVIOUS
<1>3. /\ post' = [post EXCEPT ![q] = x] /\ client' = client /\ file' = file
      /\ post[q].state = "new"
  BY <1>2 DEF LoadLead, Begins
<1>4. post'[q] = x /\ \A k \in Posts \ {q} : post'[k] = post[k]
  BY <1>1, <1>3 DEF ChatTypeOK
<1>5. file[q] = Empty BY <1>1, <1>3 DEF PostInv
<1>6. FoundAgain(q)'
  <2> SUFFICES ASSUME x.state = "loaded", NEW k \in x.after
               PROVE  /\ file[k] # Empty
                      /\ Repeats(q, k)' => x.found = {file[k]}
    BY <1>3, <1>4, <1>5 DEF FoundAgain
  <2>1. k \in Posts /\ file[k] # Empty BY <1>2
  <2>2. k # q BY <1>5, <2>1
  <2>3. ASSUME Repeats(q, k)' PROVE x.found = {file[k]}
    <3>1. p # Empty /\ client[file[k]].phone = p
      BY <1>2, <1>3, <1>4, <2>3 DEF Repeats
    <3>2. Known(file[k]) /\ file[k] \in ClientRows
      <4>1. PostInv(k) /\ file[k] \in ClientRows \cup {Empty}
        BY <2>1 DEF ChatInv, ChatTypeOK
      <4> QED BY <2>1, <4>1 DEF PostInv, IsOf
    <3>3. file[k] \in WithPhone(p) BY <3>1, <3>2 DEF WithPhone
    <3>4. IsFiniteSet(WithPhone(p)) BY <3>1 DEF ChatInv, CountInv, Bounded
    <3>5. Existing(p, e) = WithPhone(p) BY <3>3 DEF Existing
    <3>6. Cardinality(WithPhone(p)) \in Nat BY <3>4, FS_CardinalityType
    <3>7. Cardinality(WithPhone(p)) <= 1 BY <1>2, <3>5, <3>6
    <3>8. Cardinality(WithPhone(p)) = 1 BY <3>3, <3>4, <3>6, <3>7, FS_EmptySet
    <3>9. \E c : WithPhone(p) = {c} BY <3>4, <3>8, FS_Singleton
    <3> QED BY <1>2, <3>3, <3>5, <3>9
  <2> QED BY <2>1, <2>3
<1> QED BY <1>3, <1>4, <1>5, <1>6

\* A lead is stored for the client that it has found.
LEMMA CommitsAgain ==
  ASSUME ChatInv, RepeatInv, NEW q \in Posts, NEW c \in ClientRows, CommitLead(q, c)
  PROVE  /\ \A d \in ClientRows : Known(d) => client'[d] = client[d]
         /\ \A k \in Posts \ {q} : post'[k] = post[k] /\ file'[k] = file[k]
         /\ file[q] = Empty /\ FoundAgain(q)' /\ NobodyWithoutCase'
<1>1. ChatTypeOK /\ PostInv(q) /\ post[q] \in PostType /\ post[q].state = "loaded"
  BY DEF ChatInv, ChatTypeOK, CommitLead
<1>2. post[q] \in LeadPost /\ file[q] = Empty
  BY <1>1 DEF PostType, BarePost, CallPost, PostInv
<1>3. /\ file'[q] = c /\ post'[q] = [post[q] EXCEPT !.state = "stored"]
      /\ \A k \in Posts \ {q} : post'[k] = post[k] /\ file'[k] = file[k]
  BY <1>1 DEF ChatTypeOK, CommitLead, Becomes
<1>4. post'[q].phone = post[q].phone /\ post'[q].after = post[q].after
  BY <1>2, <1>3 DEF LeadPost
<1>5. \A d \in ClientRows \ {c} : client'[d] = client[d]
  BY <1>1 DEF CommitLead, ChatTypeOK
<1>6. \A d \in ClientRows : Known(d) => client'[d] = client[d]
  BY <1>1, <1>5 DEF CommitLead, ChatTypeOK, IsNextRow
<1>7. c # Empty BY ChatAssumption
<1>8. FoundAgain(q)'
  <2> SUFFICES ASSUME NEW k \in post[q].after
               PROVE  file'[k] # Empty /\ (Repeats(q, k)' => c = file'[k])
    BY <1>3, <1>4, <1>7 DEF FoundAgain
  <2>1. k \in Posts BY <1>2 DEF LeadPost
  <2>2. file[k] # Empty /\ (Repeats(q, k) => post[q].found = {file[k]})
    BY <1>1, <1>2 DEF RepeatInv, FoundAgain
  <2>3. k # q BY <1>2, <2>2
  <2>4. file'[k] = file[k] /\ post'[k] = post[k] BY <1>3, <2>1, <2>3
  <2>5. Known(file[k]) /\ file[k] \in ClientRows
    <3>1. PostInv(k) /\ file[k] \in ClientRows \cup {Empty}
      BY <2>1 DEF ChatInv, ChatTypeOK
    <3> QED BY <2>2, <3>1 DEF PostInv, IsOf
  <2>6. Repeats(q, k)' => Repeats(q, k) BY <1>4, <1>6, <2>4, <2>5 DEF Repeats
  <2>7. post[q].found = {file[k]} => c = file[k] BY DEF CommitLead
  <2> QED BY <2>2, <2>4, <2>6, <2>7
<1>9. NobodyWithoutCase'
  <2> SUFFICES ASSUME NEW d \in ClientRows, Known(d)'
               PROVE  \E k \in Posts : file'[k] = d
    BY DEF NobodyWithoutCase
  <2>1. CASE d = c BY <1>3, <2>1
  <2>2. CASE d # c
    <3>1. Known(d) BY <1>5, <2>2 DEF Known
    <3>2. PICK k \in Posts : file[k] = d BY <3>1 DEF RepeatInv, NobodyWithoutCase
    <3>3. k # q BY <1>2, <3>2, ChatAssumption
    <3> QED BY <1>3, <3>2, <3>3
  <2> QED BY <2>1, <2>2
<1> QED BY <1>2, <1>3, <1>6, <1>8, <1>9

\* Posts that come later find the clients of those they repeat, and no client is
\* without a case.
THEOREM RepeatInvariance == ChatSpec => []RepeatInv
<1>1. ChatInit => RepeatInv
  BY DEF ChatInit, RepeatInv, NobodyWithoutCase, FoundAgain, Known
<1>2. ChatInv /\ RepeatInv /\ [ChatNext]_chatVars => RepeatInv'
  <2> SUFFICES ASSUME ChatInv, RepeatInv, [ChatNext]_chatVars PROVE RepeatInv' OBVIOUS
  <2>1. ASSUME \A q \in Posts : Calm(q), client' = client,
               \A k \in Posts : file'[k] = file[k]
        PROVE  RepeatInv'
    <3>1. \A k \in Posts : file[k] # Empty => post'[k].phone = post[k].phone
      BY <2>1 DEF Calm
    <3>2. \A q \in Posts : FoundAgain(q)' BY <2>1, <3>1, CalmAgain DEF RepeatInv
    <3>3. NobodyWithoutCase' BY <2>1 DEF RepeatInv, NobodyWithoutCase, Known
    <3> QED BY <3>2, <3>3 DEF RepeatInv
  <2>2. ASSUME NEW q \in Posts,
               \/ \E endpoint \in Endpoints : Call(q, endpoint)
               \/ CoreAnswers(q) \/ CoreFails(q) \/ CoreBabbles(q) \/ Submit(q)
               \/ ReadBack(q) \/ BreakOff(q)
        PROVE  RepeatInv'
    <3>1. /\ Calm(q) /\ client' = client
          /\ \A k \in Posts \ {q} : post'[k] = post[k] /\ file'[k] = file[k]
      BY <2>2, ChatCalm
    <3> QED BY <2>1, <3>1 DEF Calm
  <2>3. ASSUME NEW q \in Posts, NEW p \in Phones \cup {Empty},
               NEW e \in Emails \cup {Empty}, NEW r \in Recommended,
               NEW t \in Given \cup {"undetermined"}, LoadLead(q, p, e, r, t)
        PROVE  RepeatInv'
    <3>1. /\ client' = client /\ file' = file /\ FoundAgain(q)' /\ file[q] = Empty
          /\ \A k \in Posts \ {q} : post'[k] = post[k]
      BY <2>3, LoadsAgain
    <3>2. \A k \in Posts \ {q} : Calm(k) BY <3>1 DEF Calm
    <3>3. ASSUME NEW k \in Posts \ {q} PROVE FoundAgain(k)'
      BY <3>1, <3>2, CalmAgain DEF RepeatInv
    <3>4. NobodyWithoutCase' BY <3>1 DEF RepeatInv, NobodyWithoutCase, Known
    <3> QED BY <3>1, <3>3, <3>4 DEF RepeatInv
  <2>4. ASSUME NEW q \in Posts, NEW c \in ClientRows, CommitLead(q, c)
        PROVE  RepeatInv'
    <3>1. /\ \A d \in ClientRows : Known(d) => client'[d] = client[d]
          /\ \A k \in Posts \ {q} : post'[k] = post[k] /\ file'[k] = file[k]
          /\ file[q] = Empty /\ FoundAgain(q)' /\ NobodyWithoutCase'
      BY <2>4, CommitsAgain
    <3>2. \A k \in Posts \ {q} : Calm(k) BY <3>1 DEF Calm
    <3>3. ASSUME NEW k \in Posts \ {q} PROVE FoundAgain(k)'
      BY <3>1, <3>2, CalmAgain DEF RepeatInv
    <3> QED BY <3>1, <3>3 DEF RepeatInv
  <2>5. CASE UNCHANGED chatVars BY <2>1, <2>5 DEF chatVars, Calm
  <2> QED BY <2>2, <2>3, <2>4, <2>5 DEF ChatNext
<1> QED BY <1>1, <1>2, ChatInvariance, PTL DEF ChatSpec

\* Whoever posts a lead once more, having been told of an error or having been cut
\* off, is found again.
THEOREM PostsMayAlwaysBeRepeated == ChatSpec => []PostsMayBeRepeated
<1>1. ChatInv /\ RepeatInv => PostsMayBeRepeated
  <2> SUFFICES ASSUME ChatInv, RepeatInv PROVE PostsMayBeRepeated OBVIOUS
  <2>1. ASSUME NEW q \in Posts
        PROVE  /\ PostInv(q) /\ post[q] \in PostType
               /\ task[q] \in {"none", "queued", "completed", "failed"}
               /\ post[q].state \in {"new", "calling", "loaded", "stored", "answered",
                                     "failed", "lost"}
    <3>1. post[q] \in PostType BY DEF ChatInv, ChatTypeOK
    <3> QED BY <3>1 DEF ChatInv, ChatTypeOK, PostType, BarePost, CallPost, LeadPost
  <2>2. ASSUME NEW q \in Posts, file[q] # Empty
        PROVE  /\ \A k \in Posts : Repeats(q, k) => file[q] = file[k]
               /\ post[q].state = "failed" => ~(post[q].procedures \subseteq ProcedureType)
    <3>1. \A k \in Posts : Repeats(q, k) => file[q] = file[k]
      BY <2>2 DEF RepeatInv, FoundAgain, Repeats
    <3> QED BY <2>1, <2>2, <3>1 DEF PostInv
  <2>3. ASSUME NEW q \in Posts
        PROVE  /\ task[q] = "failed" => post[q].state = "failed"
               /\ post[q].state = "answered" => task[q] \in {"completed", "queued"}
    BY <2>1 DEF PostInv
  <2> QED BY <2>2, <2>3 DEF PostsMayBeRepeated, RepeatInv, NobodyWithoutCase
<1> QED BY <1>1, ChatInvariance, RepeatInvariance, PTL

\* A case is of the client who left that phone or email, and of one phone or
\* email there are no more clients than posts may overlap.
THEOREM ClientsAreAlwaysFound == ChatSpec => []ClientsAreFound
<1>1. ChatInv => ClientsAreFound
  <2> SUFFICES ASSUME ChatInv PROVE ClientsAreFound OBVIOUS
  <2>1. ASSUME NEW q \in Posts, file[q] # Empty PROVE IsOf(q, file[q])
    <3>1. PostInv(q) BY DEF ChatInv
    <3> QED BY <2>1, <3>1 DEF PostInv
  <2>2. ASSUME NEW S, NEW T, Bounded(S, T) PROVE Cardinality(S) <= MaxOverlap
    <3>1. Cardinality(S) \in Nat /\ Cardinality(T) \in Nat
      BY <2>2, FS_CardinalityType DEF Bounded
    <3> QED BY <2>2, <3>1, ChatAssumption DEF Bounded
  <2>3. ASSUME NEW p \in Phones PROVE Cardinality(WithPhone(p)) <= MaxOverlap
    BY <2>2 DEF ChatInv, CountInv
  <2>4. ASSUME NEW e \in Emails PROVE Cardinality(WithEmail(e)) <= MaxOverlap
    BY <2>2 DEF ChatInv, CountInv
  <2> QED BY <2>1, <2>3, <2>4 DEF ClientsAreFound, IsOf
<1> QED BY <1>1, ChatInvariance, PTL

-----------------------------------------------------------------------------
(* Prospecting.  A row that a transaction makes is its own until it        *)
(* commits; of the others it changes neither the id nor, before it         *)
(* decides, the lead.  Without overlaps what it has loaded is still there. *)

ProspectRow ==
  [type : {raw.type : raw \in Raws} \cup {Unknown},
   ext : {raw.ext : raw \in Raws} \cup {Unknown},
   inn : {raw.inn : raw \in Raws} \cup {Unknown},
   phone : {raw.phone : raw \in Raws} \cup {Unknown},
   email : {raw.email : raw \in Raws} \cup {Unknown},
   score : {Score(raw) : raw \in Raws} \cup {0},
   temp : {"hot", "warm", "cold"},
   status : {"none", "new", "converted", "rejected"},
   lead : LeadIds \cup {Unknown}]

SomeRows == UNION {[S -> ProspectRow] : S \in SUBSET Prospects}

Transaction ==
  [kind : {"run", "inbound", "convert", "reject"}, todo : SUBSET Raws,
   seen : SomeRows, mine : SomeRows]

\* What a transaction has in hand for row p.
Holds(r, p) == Busy(r) /\ p \in DOMAIN work[r].mine

ProspectTypes ==
  /\ prospect \in [Prospects -> ProspectRow]
  /\ made \in [LeadIds -> Prospects \cup {Unknown}]
  /\ work \in [Requests -> Transaction \cup {NoWork}]
  /\ \A r \in Requests : Busy(r) => DOMAIN work[r].seen = DOMAIN work[r].mine
  /\ crossed \in BOOLEAN /\ joined \in BOOLEAN

\* A record of the fields of a row is a row.
LEMMA WrittenRow ==
  ASSUME NEW row \in ProspectRow, NEW seen \in ProspectRow, NEW mine \in ProspectRow
  PROVE  /\ RowWritten(row, seen, mine) \in ProspectRow
         /\ RowWritten(row, seen,
              mine).type = IF mine.type = seen.type THEN row.type ELSE mine.type
         /\ RowWritten(row, seen,
              mine).ext = IF mine.ext = seen.ext THEN row.ext ELSE mine.ext
         /\ RowWritten(row, seen, mine).status =
              IF mine.status = seen.status THEN row.status ELSE mine.status
         /\ RowWritten(row, seen,
              mine).lead = IF mine.lead = seen.lead THEN row.lead ELSE mine.lead
         /\ row = seen => RowWritten(row, seen, mine) = mine
<1>1. /\ DOMAIN row = {"type", "ext", "inn", "phone", "email", "score", "temp",
           "status", "lead"}
      /\ DOMAIN mine = DOMAIN row
      /\ mine = [c \in DOMAIN mine |-> mine[c]]
  BY DEF ProspectRow
<1>2. RowWritten(row, seen, mine) \in ProspectRow
  <2>1. RowWritten(row, seen, mine) =
    [type |-> IF mine.type = seen.type THEN row.type ELSE mine.type,
     ext |-> IF mine.ext = seen.ext THEN row.ext ELSE mine.ext,
     inn |-> IF mine.inn = seen.inn THEN row.inn ELSE mine.inn,
     phone |-> IF mine.phone = seen.phone THEN row.phone ELSE mine.phone,
     email |-> IF mine.email = seen.email THEN row.email ELSE mine.email,
     score |-> IF mine.score = seen.score THEN row.score ELSE mine.score,
     temp |-> IF mine.temp = seen.temp THEN row.temp ELSE mine.temp,
     status |-> IF mine.status = seen.status THEN row.status ELSE mine.status,
     lead |-> IF mine.lead = seen.lead THEN row.lead ELSE mine.lead]
    BY <1>1 DEF RowWritten
  <2> QED BY <2>1 DEF ProspectRow
<1>3. ASSUME row = seen PROVE RowWritten(row, seen, mine) = mine
  <2>1. RowWritten(row, seen, mine) = [c \in DOMAIN mine |-> mine[c]]
    BY <1>1, <1>3 DEF RowWritten
  <2> QED BY <1>1, <2>1
<1> QED BY <1>1, <1>2, <1>3 DEF RowWritten

\* Touching a row changes that row.
LEMMA TouchedRows ==
  ASSUME NEW t \in Transaction, DOMAIN t.seen = DOMAIN t.mine,
         NEW p \in Prospects, NEW row \in ProspectRow,
           prospect \in [Prospects -> ProspectRow]
  PROVE  /\ Touch(t, p, row) \in Transaction
         /\ Touch(t, p, row).kind = t.kind /\ Touch(t, p, row).todo = t.todo
         /\ DOMAIN Touch(t, p, row).mine = DOMAIN t.mine \cup {p}
         /\ DOMAIN Touch(t, p, row).seen = DOMAIN t.mine \cup {p}
         /\ Touch(t, p, row).mine[p] = row
         /\ Touch(t, p,
              row).seen[p] = IF p \in DOMAIN t.mine THEN t.seen[p] ELSE prospect[p]
         /\ \A q \in DOMAIN t.mine : q # p =>
              /\ Touch(t, p, row).mine[q] = t.mine[q]
              /\ Touch(t, p, row).seen[q] = t.seen[q]
<1> DEFINE sn == IF p \in DOMAIN t.seen THEN t.seen ELSE Changed(t.seen, p,
      prospect[p])
           mn == Changed(t.mine, p, row)
<1>1. Touch(t, p, row) = [kind |-> t.kind, todo |-> t.todo, seen |-> sn, mine |-> mn]
  <2>1. Touch(t, p, row) = [t EXCEPT !.seen = sn, !.mine = mn] BY DEF Touch
  <2>2. t = [kind |-> t.kind, todo |-> t.todo, seen |-> t.seen, mine |-> t.mine]
    BY DEF Transaction
  <2> HIDE DEF sn, mn
  <2> QED BY <2>1, <2>2
<1>2. /\ t.seen \in [DOMAIN t.mine -> ProspectRow]
           /\ t.mine \in [DOMAIN t.mine -> ProspectRow]
      /\ DOMAIN t.mine \subseteq Prospects /\ t.todo \in SUBSET Raws
      /\ t.kind \in {"run", "inbound", "convert", "reject"}
  BY DEF Transaction, SomeRows
<1>3. mn \in [DOMAIN t.mine \cup {p} -> ProspectRow] BY <1>2 DEF Changed
<1>4. sn \in [DOMAIN t.mine \cup {p} -> ProspectRow]
  <2>1. CASE p \in DOMAIN t.seen
    <3>1. DOMAIN t.mine \cup {p} = DOMAIN t.mine BY <2>1
    <3> QED BY <1>2, <2>1, <3>1
  <2>2. CASE p \notin DOMAIN t.seen BY <1>2, <2>2 DEF Changed
  <2> QED BY <2>1, <2>2
<1>5. mn \in SomeRows /\ sn \in SomeRows
  <2>1. DOMAIN t.mine \cup {p} \in SUBSET Prospects BY <1>2
  <2> QED BY <1>3, <1>4, <2>1 DEF SomeRows
<1>6. /\ mn[p] = row /\ \A q \in DOMAIN t.mine : q # p => mn[q] = t.mine[q]
      /\ sn[p] = IF p \in DOMAIN t.mine THEN t.seen[p] ELSE prospect[p]
      /\ \A q \in DOMAIN t.mine : q # p => sn[q] = t.seen[q]
  BY <1>2 DEF Changed
<1>7. DOMAIN mn = DOMAIN t.mine \cup {p} /\ DOMAIN sn = DOMAIN t.mine \cup {p}
  BY <1>3, <1>4
<1> HIDE DEF sn, mn
<1>8. [kind |-> t.kind, todo |-> t.todo, seen |-> sn, mine |-> mn] \in Transaction
  BY <1>2, <1>5 DEF Transaction
<1>9. /\ Touch(t, p, row) \in Transaction
      /\ Touch(t, p, row).kind = t.kind /\ Touch(t, p, row).todo = t.todo
      /\ Touch(t, p, row).mine = mn /\ Touch(t, p, row).seen = sn
  BY <1>1, <1>8
<1>10. mn[p] = row BY <1>6
<1> QED BY <1>6, <1>7, <1>9, <1>10

NotNone(row) == row.status # "none"
Fits(row) == row.temp = Temperature(row.score)

\* Row p in the hands of r: one that is listed keeps its id and status, and
\* one that is not is r's own.
HeldRow(r, p) ==
  LET was == work[r].seen[p]
      is == work[r].mine[p]
  IN
  /\ is.lead = was.lead /\ NotNone(is)
  /\ was.lead # Unknown => made[was.lead] = p
  /\ IsListed(p) => NotNone(was) /\ is.status = was.status /\ is.ext = was.ext
  /\ ~IsListed(p) =>
       was = NoProspect /\ \A q \in Requests : q # r => ~Holds(q, p)
  /\ work[r].kind \in {"convert", "reject"} => IsListed(p) /\ was.status # "converted"

\* A row that is not listed is blank and has no lead.
BlankRow(p) == ~IsListed(p) => prospect[p] = NoProspect /\ LeadsOf(p) = {}

OneLead(p) ==
  /\ prospect[p].lead # Unknown => made[prospect[p].lead] = p
  /\ prospect[p].ext # Unknown => Cardinality(LeadsOf(p)) <= 1

ProspectInv ==
  /\ ProspectTypes
  /\ \A r \in Requests, p \in Prospects : Holds(r, p) => HeldRow(r, p)
  /\ \A p \in Prospects : BlankRow(p) /\ OneLead(p)

\* The row that r makes of p when it takes a record.
TakenRow(r, p, row) ==
  \/ /\ Holds(r, p) \/ IsListed(p)
     /\ row.lead = Loaded(work[r], p).lead /\ row.status = Loaded(work[r], p).status
     /\ row.ext = Loaded(work[r], p).ext
     /\ Fits(Loaded(work[r], p)) => Fits(row)
  \/ /\ ~IsListed(p) /\ \A q \in Requests : ~Holds(q, p)
     /\ row.lead = Unknown /\ row.status = "new" /\ Fits(row)

\* Merging fills columns and keeps the others.
LEMMA MergedRow ==
  ASSUME NEW row \in ProspectRow, NEW raw \in Raws
  PROVE  /\ Merged(row, raw) \in ProspectRow
         /\ Merged(row, raw).lead = row.lead /\ Merged(row, raw).status = row.status
         /\ Merged(row, raw).ext = row.ext /\ Merged(row, raw).score = row.score
         /\ Merged(row, raw).temp = row.temp
         /\ Merged(row, raw).inn = Filled(row.inn, raw.inn)
         /\ Merged(row, raw).phone = Filled(row.phone, raw.phone)
<1>1. /\ Filled(row.inn, raw.inn) \in {x.inn : x \in Raws} \cup {Unknown}
      /\ Filled(row.phone, raw.phone) \in {x.phone : x \in Raws} \cup {Unknown}
      /\ Filled(row.email, raw.email) \in {x.email : x \in Raws} \cup {Unknown}
  BY DEF Filled, ProspectRow
<1>2. Merged(row, raw) =
        [row EXCEPT !.inn = Filled(row.inn, raw.inn), !.phone = Filled(row.phone,
          raw.phone),
                    !.email = Filled(row.email, raw.email)]
  BY DEF Merged
<1>3. Merged(row, raw) \in ProspectRow BY <1>1, <1>2 DEF ProspectRow
<1>4. /\ Merged(row, raw).lead = row.lead /\ Merged(row, raw).status = row.status
      /\ Merged(row, raw).ext = row.ext /\ Merged(row, raw).score = row.score
      /\ Merged(row, raw).temp = row.temp
      /\ Merged(row, raw).inn = Filled(row.inn, raw.inn)
      /\ Merged(row, raw).phone = Filled(row.phone, raw.phone)
  BY <1>2 DEF ProspectRow
<1> QED BY <1>3, <1>4

\* A new score gives the temperature that fits it.
LEMMA RescoredRow ==
  ASSUME NEW row \in ProspectRow, NEW raw \in Raws
  PROVE  /\ Rescored(row, raw) \in ProspectRow
         /\ Rescored(row, raw).lead = row.lead /\ Rescored(row,
              raw).status = row.status
         /\ Rescored(row, raw).ext = row.ext /\ Fits(Rescored(row, raw))
         /\ Rescored(row, raw).inn = row.inn /\ Rescored(row, raw).phone = row.phone
<1>1. Score(raw) \in {Score(x) : x \in Raws} \cup {0} OBVIOUS
<1>2. Temperature(Score(raw)) \in {"hot", "warm", "cold"} BY DEF Temperature
<1>3. Rescored(row, raw) \in ProspectRow BY <1>1, <1>2 DEF Rescored, ProspectRow
<1>4. /\ Rescored(row, raw).lead = row.lead /\ Rescored(row, raw).status = row.status
      /\ Rescored(row, raw).ext = row.ext
      /\ Rescored(row, raw).inn = row.inn /\ Rescored(row, raw).phone = row.phone
  BY DEF Rescored, ProspectRow
<1>5. Fits(Rescored(row, raw)) BY DEF Rescored, ProspectRow, Fits
<1> QED BY <1>3, <1>4, <1>5

\* A new row is one.
LEMMA FreshRow ==
  ASSUME NEW raw \in Raws
  PROVE  /\ NewRow(raw) \in ProspectRow /\ Fits(NewRow(raw))
         /\ NewRow(raw).lead = Unknown /\ NewRow(raw).status = "new"
         /\ NewRow(raw).inn = raw.inn /\ NewRow(raw).phone = raw.phone
<1>1. Temperature(Score(raw)) \in {"hot", "warm", "cold"} BY DEF Temperature
<1>2. NewRow(raw) \in ProspectRow BY <1>1 DEF NewRow, ProspectRow
<1> QED BY <1>2 DEF NewRow, Fits

\* A request at work has a transaction.
LEMMA BusyIsTransaction ==
  ASSUME ProspectTypes, NEW r \in Requests
  PROVE  /\ Busy(r) <=> work[r].kind # "idle"
         /\ Busy(r) => /\ work[r] \in Transaction
                       /\ DOMAIN work[r].seen = DOMAIN work[r].mine
                       /\ DOMAIN work[r].mine \subseteq Prospects
                       /\ \A p \in DOMAIN work[r].mine :
                            work[r].mine[p] \in ProspectRow
                              /\ work[r].seen[p] \in ProspectRow
<1>1. work[r] \in Transaction \cup {NoWork} BY DEF ProspectTypes
<1>2. ASSUME Busy(r)
      PROVE  /\ work[r] \in Transaction /\ work[r].kind # "idle"
             /\ DOMAIN work[r].seen = DOMAIN work[r].mine
             /\ DOMAIN work[r].mine \subseteq Prospects
             /\ work[r].mine \in [DOMAIN work[r].mine -> ProspectRow]
             /\ work[r].seen \in [DOMAIN work[r].mine -> ProspectRow]
  <2>1. work[r] \in Transaction BY <1>1, <1>2 DEF Busy
  <2>2. DOMAIN work[r].seen = DOMAIN work[r].mine BY <1>2 DEF ProspectTypes
  <2>3. work[r].mine \in SomeRows /\ work[r].seen \in SomeRows
        /\ work[r].kind \in {"run", "inbound", "convert", "reject"}
    BY <2>1 DEF Transaction
  <2> QED BY <2>1, <2>2, <2>3 DEF SomeRows
<1>3. ~Busy(r) => work[r].kind = "idle" BY DEF Busy, NoWork
<1> QED BY <1>2, <1>3

\* A blank row is of nobody.
LEMMA FoundIsListed ==
  ASSUME ProspectInv, NEW r \in Requests, Busy(r), NEW raw \in Raws,
         NEW p \in ByExt(work[r], raw) \cup ByInn(work[r],
           raw) \cup ByPhone(work[r], raw)
  PROVE  p \in Prospects /\ (Holds(r, p) \/ IsListed(p))
<1>1. p \in Prospects BY DEF ByExt, ByInn, ByPhone
<1>2. ASSUME ~Holds(r, p), ~IsListed(p) PROVE FALSE
  <2>1. Table(work[r])[p] = prospect[p] BY <1>1, <1>2 DEF Table, Holds
  <2>2. prospect[p] = NoProspect BY <1>1, <1>2 DEF ProspectInv, BlankRow
  <2>3. Table(work[r])[p].ext = Unknown /\ Table(work[r])[p].inn = Unknown
        /\ Table(work[r])[p].phone = Unknown
    BY <2>1, <2>2 DEF NoProspect
  <2> QED BY <2>3 DEF ByExt, ByInn, ByPhone
<1> QED BY <1>1, <1>2

\* Taking a record changes the row of one person, or none.
LEMMA TakesOne ==
  ASSUME ProspectInv, NEW r \in Requests, TakeRecord(r)
  PROVE  \E rest \in Transaction :
           /\ Busy(r) /\ work[r].kind \in {"run", "inbound"}
           /\ rest.kind = work[r].kind
           /\ rest.seen = work[r].seen /\ rest.mine = work[r].mine
           /\ UNCHANGED <<prospect, made, crossed>>
           /\ \/ work' = [work EXCEPT ![r] = rest]
              \/ \E p \in Prospects, row \in ProspectRow :
                   TakenRow(r, p, row) /\ work' = [work EXCEPT ![r] = Touch(rest,
                     p, row)]
<1>1. work[r].kind \in {"run", "inbound"} /\ UNCHANGED <<prospect, made, crossed>>
  BY DEF TakeRecord
<1>2. ProspectTypes /\ prospect \in [Prospects -> ProspectRow]
  BY DEF ProspectInv, ProspectTypes
<1>3. Busy(r) BY <1>1, <1>2, BusyIsTransaction
<1>4. PICK raw \in work[r].todo :
        LET rest == [work[r] EXCEPT !.todo = @ \ {raw}]
            found == Duplicates(work[r], raw)
        IN \/ /\ Cardinality(found) = 1
              /\ \E p \in found :
                  LET row == Merged(Loaded(work[r], p), raw) IN
                  work' = [work EXCEPT ![r] = Touch(rest, p,
                     IF work[r].kind = "inbound" THEN Rescored(row, raw) ELSE row)]
           \/ \E p \in Fresh : work' = [work EXCEPT ![r] = Touch(rest, p,
                NewRow(raw))]
           \/ work' = [work EXCEPT ![r] = rest]
  BY DEF TakeRecord
<1> DEFINE rest == [work[r] EXCEPT !.todo = @ \ {raw}]
<1>5. /\ work[r] \in Transaction /\ raw \in Raws
      /\ \A p \in DOMAIN work[r].mine : work[r].mine[p] \in ProspectRow
  BY <1>2, <1>3, <1>4, BusyIsTransaction DEF Transaction
<1>6. /\ rest \in Transaction /\ rest.kind = work[r].kind
      /\ rest.seen = work[r].seen /\ rest.mine = work[r].mine
  BY <1>5 DEF Transaction
<1>7. ASSUME NEW p \in Duplicates(work[r], raw)
      PROVE  LET row == Merged(Loaded(work[r], p), raw)
                 new == IF work[r].kind = "inbound" THEN Rescored(row, raw) ELSE row
             IN p \in Prospects /\ new \in ProspectRow /\ TakenRow(r, p, new)
  <2> DEFINE old == Loaded(work[r], p)
             row == Merged(old, raw)
             new == IF work[r].kind = "inbound" THEN Rescored(row, raw) ELSE row
  <2>1. p \in ByExt(work[r], raw) \cup ByInn(work[r], raw) \cup ByPhone(work[r], raw)
    BY DEF Duplicates
  <2>2. p \in Prospects /\ (Holds(r, p) \/ IsListed(p)) BY <1>3, <1>5, <2>1,
          FoundIsListed
  <2>3. old \in ProspectRow BY <1>2, <1>5, <2>2 DEF Loaded
  <2> HIDE DEF old
  <2>4. row \in ProspectRow /\ row.lead = old.lead /\ row.status = old.status
        /\ row.ext = old.ext /\ row.score = old.score /\ row.temp = old.temp
    BY <1>5, <2>3, MergedRow
  <2> HIDE DEF row
  <2>5. new \in ProspectRow /\ new.lead = old.lead /\ new.status = old.status
        /\ new.ext = old.ext /\ (Fits(old) => Fits(new))
    <3>1. CASE work[r].kind = "inbound" BY <1>5, <2>4, <3>1, RescoredRow
    <3>2. CASE work[r].kind # "inbound" BY <2>4, <3>2 DEF Fits
    <3> QED BY <3>1, <3>2
  <2> HIDE DEF new
  <2>6. TakenRow(r, p, new) BY <2>2, <2>5 DEF TakenRow, old
  <2> QED BY <2>2, <2>5, <2>6 DEF new, row, old
<1>8. ASSUME NEW p \in Fresh
      PROVE  p \in Prospects /\ NewRow(raw) \in ProspectRow /\ TakenRow(r, p,
               NewRow(raw))
  <2>1. p \in Prospects /\ ~IsListed(p) /\ \A q \in Requests : ~Holds(q, p)
    BY DEF Fresh, Holds
  <2> QED BY <1>5, <2>1, FreshRow DEF TakenRow
<1> HIDE DEF rest
<1>9. \/ work' = [work EXCEPT ![r] = rest]
      \/ \E p \in Prospects, row \in ProspectRow :
           TakenRow(r, p, row) /\ work' = [work EXCEPT ![r] = Touch(rest, p, row)]
  BY <1>4, <1>7, <1>8 DEF rest
<1> QED BY <1>1, <1>3, <1>6, <1>9

\* What a transaction finds in the table: its new rows, and of the others the
\* id, the lead and the status that are committed.
LEMMA TableRow ==
  ASSUME ProspectInv, NEW r \in Requests, Busy(r), NEW p \in Prospects
  PROVE  /\ Table(work[r])[p] \in ProspectRow
         /\ ~Holds(r, p) => Table(work[r])[p] = prospect[p]
         /\ Holds(r, p) => NotNone(Table(work[r])[p])
         /\ Table(work[r])[p].lead = prospect[p].lead
         /\ IsListed(p) => Table(work[r])[p].ext = prospect[p].ext
<1>1. prospect[p] \in ProspectRow /\ ProspectTypes BY DEF ProspectInv, ProspectTypes
<1>2. CASE ~Holds(r, p)
  <2>1. Table(work[r])[p] = prospect[p] BY <1>2 DEF Table, Holds
  <2> QED BY <1>1, <1>2, <2>1
<1>3. CASE Holds(r, p)
  <2> DEFINE seen == work[r].seen[p]
             mine == work[r].mine[p]
             row == prospect[p]
  <2>1. seen \in ProspectRow /\ mine \in ProspectRow BY <1>1, <1>3,
          BusyIsTransaction DEF Holds
  <2>2. Table(work[r])[p] = RowWritten(row, seen, mine) BY <1>3 DEF Table, Holds
  <2>3. HeldRow(r, p) BY <1>3 DEF ProspectInv
  <2>4. /\ mine.lead = seen.lead /\ mine.status # "none"
        /\ IsListed(p) => seen.status # "none" /\ mine.status = seen.status
                          /\ mine.ext = seen.ext
        /\ ~IsListed(p) => seen = NoProspect
    BY <2>3 DEF HeldRow, NotNone
  <2>5. ~IsListed(p) => row = NoProspect BY DEF ProspectInv, BlankRow
  <2>6. IsListed(p) => row.status # "none" BY DEF IsListed
  <2> HIDE DEF seen, mine, row
  <2>7. /\ RowWritten(row, seen, mine) \in ProspectRow
        /\ RowWritten(row, seen, mine).lead = row.lead
        /\ IsListed(p) => RowWritten(row, seen, mine).ext = row.ext
        /\ RowWritten(row, seen, mine).status # "none"
    BY <1>1, <2>1, <2>4, <2>5, <2>6, WrittenRow DEF row
  <2> QED BY <1>3, <2>2, <2>7 DEF NotNone, row
<1> QED BY <1>2, <1>3

\* A commit keeps the rows of others and lists those of its own.
LEMMA CommitsKeep ==
  ASSUME ProspectInv, NEW r \in Requests, Busy(r),
           work' = [work EXCEPT ![r] = NoWork],
         crossed' \in BOOLEAN, joined' \in BOOLEAN,
         made' \in [LeadIds -> Prospects \cup {Unknown}],
         \A d \in LeadIds : made[d] # Unknown => made'[d] = made[d],
         prospect' \in [Prospects -> ProspectRow],
         \A p \in Prospects :
           /\ ~Holds(r, p) => prospect'[p] = prospect[p]
           /\ Holds(r, p) => NotNone(prospect'[p]) \/ prospect'[p] = prospect[p]
           /\ IsListed(p) => prospect'[p].ext = prospect[p].ext
           /\ ~IsListed(p)' => LeadsOf(p)' = {}
           /\ OneLead(p)'
  PROVE  ProspectInv'
<1>1. ProspectTypes BY DEF ProspectInv
<1>2. ASSUME NEW q \in Requests
      PROVE  /\ Busy(q)' <=> Busy(q) /\ q # r
             /\ q # r => work'[q] = work[q]
             /\ \A p \in Prospects : Holds(q, p)' <=> Holds(q, p) /\ q # r
  BY <1>1 DEF ProspectTypes, Busy, Holds
<1>3. ProspectTypes'
  <2>1. work' \in [Requests -> Transaction \cup {NoWork}] BY <1>1 DEF ProspectTypes
  <2>2. ASSUME NEW q \in Requests, Busy(q)'
        PROVE  DOMAIN work'[q].seen = DOMAIN work'[q].mine
    BY <1>1, <1>2, <2>2 DEF ProspectTypes
  <2> QED BY <2>1, <2>2 DEF ProspectTypes
<1>4. ASSUME NEW p \in Prospects PROVE BlankRow(p)'
  <2>1. ASSUME ~IsListed(p)' PROVE prospect'[p] = NoProspect
    <3>1. ~NotNone(prospect'[p]) BY <2>1 DEF IsListed, NotNone
    <3>2. prospect'[p] = prospect[p] BY <3>1
    <3>3. ~IsListed(p) BY <2>1, <3>2 DEF IsListed
    <3> QED BY <3>2, <3>3 DEF ProspectInv, BlankRow
  <2> QED BY <2>1 DEF BlankRow
<1>5. ASSUME NEW q \in Requests, NEW p \in Prospects, Holds(q, p)'
      PROVE  HeldRow(q, p)'
  <2>1. Holds(q, p) /\ q # r /\ work'[q] = work[q] BY <1>2, <1>5
  <2>2. HeldRow(q, p) BY <2>1 DEF ProspectInv
  <2>3. work[q].seen[p] \in ProspectRow BY <1>1, <2>1, BusyIsTransaction DEF Holds
  <2>4. work[q].seen[p].lead # Unknown => made'[work[q].seen[p].lead] = p
    <3>1. ASSUME work[q].seen[p].lead # Unknown PROVE made'[work[q].seen[p].lead] = p
      <4>1. made[work[q].seen[p].lead] = p BY <2>2, <3>1 DEF HeldRow
      <4>2. work[q].seen[p].lead \in LeadIds BY <2>3, <3>1 DEF ProspectRow
      <4> QED BY <4>1, <4>2, ProspectAssumption
    <3> QED BY <3>1
  <2>5. CASE IsListed(p)
    <3>1. prospect'[p].status # "none" BY <2>5 DEF IsListed, NotNone
    <3>2. IsListed(p)' BY <3>1 DEF IsListed
    <3> QED BY <2>1, <2>2, <2>4, <2>5, <3>2 DEF HeldRow
  <2>6. CASE ~IsListed(p)
    <3>1. \A o \in Requests : o # q => ~Holds(o, p) BY <2>2, <2>6 DEF HeldRow
    <3>2. prospect'[p] = prospect[p] BY <2>1, <3>1
    <3>3. ~IsListed(p)' BY <2>6, <3>2 DEF IsListed
    <3>4. \A o \in Requests : o # q => ~Holds(o, p)' BY <1>2, <3>1
    <3> QED BY <2>1, <2>2, <2>4, <2>6, <3>3, <3>4 DEF HeldRow
  <2> QED BY <2>5, <2>6
<1> QED BY <1>3, <1>4, <1>5 DEF ProspectInv

\* A transaction that changes one row in its hands.
LEMMA HandsKeep ==
  ASSUME ProspectInv, NEW r \in Requests, UNCHANGED <<prospect, made>>,
         crossed' \in BOOLEAN, joined' \in BOOLEAN,
         NEW t \in Transaction, work' = [work EXCEPT ![r] = t],
         DOMAIN t.seen = DOMAIN t.mine,
         \A p \in DOMAIN t.mine : ~IsListed(p) => \A q \in Requests : q # r =>
           ~Holds(q, p),
         \A p \in DOMAIN t.mine :
           /\ t.mine[p].lead = t.seen[p].lead /\ NotNone(t.mine[p])
           /\ t.seen[p].lead # Unknown => made[t.seen[p].lead] = p
           /\ IsListed(p) => /\ NotNone(t.seen[p])
                /\ t.mine[p].status = t.seen[p].status
                             /\ t.mine[p].ext = t.seen[p].ext
           /\ ~IsListed(p) => t.seen[p] = NoProspect
           /\ t.kind \in {"convert", "reject"} => IsListed(p)
                /\ t.seen[p].status # "converted"
  PROVE  ProspectInv'
<1>1. ProspectTypes BY DEF ProspectInv
<1>2. work'[r] = t /\ \A q \in Requests : q # r => work'[q] = work[q]
  BY <1>1 DEF ProspectTypes
<1>3. \A q \in Requests, p \in Prospects : q # r => (Holds(q, p)' <=> Holds(q, p))
  BY <1>2 DEF Holds, Busy
<1>4. \A p \in Prospects : (IsListed(p)' <=> IsListed(p)) /\ LeadsOf(p)' = LeadsOf(p)
  BY DEF IsListed, LeadsOf
<1>5. ProspectTypes'
  <2>1. work' \in [Requests -> Transaction \cup {NoWork}] BY <1>1 DEF ProspectTypes
  <2>2. ASSUME NEW q \in Requests, Busy(q)'
        PROVE  DOMAIN work'[q].seen = DOMAIN work'[q].mine
    <3>1. CASE q = r BY <1>2, <3>1
    <3>2. CASE q # r BY <1>1, <1>2, <2>2, <3>2 DEF ProspectTypes, Busy
    <3> QED BY <3>1, <3>2
  <2> QED BY <1>1, <2>1, <2>2 DEF ProspectTypes
<1>6. ASSUME NEW p \in Prospects PROVE BlankRow(p)' /\ OneLead(p)'
  <2>1. BlankRow(p) /\ OneLead(p) BY DEF ProspectInv
  <2>2. BlankRow(p)' BY <1>4, <2>1 DEF BlankRow
  <2>3. OneLead(p)' BY <1>4, <2>1 DEF OneLead
  <2> QED BY <2>2, <2>3
<1>7. ASSUME NEW q \in Requests, NEW p \in Prospects, Holds(q, p)'
      PROVE  HeldRow(q, p)'
  <2>1. CASE q = r
    <3>1. p \in DOMAIN t.mine BY <1>2, <1>7, <2>1 DEF Holds
    <3>2. ~IsListed(p) => \A o \in Requests : o # q => ~Holds(o, p)'
      BY <1>3, <2>1, <3>1
    <3> QED BY <1>2, <1>4, <2>1, <3>1, <3>2 DEF HeldRow
  <2>2. CASE q # r
    <3>1. Holds(q, p) BY <1>3, <1>7, <2>2
    <3>2. HeldRow(q, p) BY <3>1 DEF ProspectInv
    <3>3. ~IsListed(p) => \A o \in Requests : o # q => ~Holds(o, p)'
      <4>1. ASSUME ~IsListed(p), NEW o \in Requests, o # q, Holds(o, p)' PROVE FALSE
        <5>1. CASE o = r
          <6>1. p \in DOMAIN t.mine BY <1>2, <4>1, <5>1 DEF Holds
          <6> QED BY <2>2, <3>1, <4>1, <6>1
        <5>2. CASE o # r
          <6>1. Holds(o, p) BY <1>3, <4>1, <5>2
          <6> QED BY <3>2, <4>1, <6>1 DEF HeldRow
        <5> QED BY <5>1, <5>2
      <4> QED BY <4>1
    <3>4. work'[q] = work[q] BY <1>2, <2>2
    <3> QED BY <1>4, <3>2, <3>3, <3>4 DEF HeldRow
  <2> QED BY <2>1, <2>2
<1> QED BY <1>5, <1>6, <1>7 DEF ProspectInv

Converted(row, d) == [row EXCEPT !.status = "converted", !.lead = d]
Rejected(row) == [row EXCEPT !.status = "rejected"]

\* A conversion sets the status and the lead.
LEMMA ConvertedRow ==
  ASSUME NEW row \in ProspectRow, NEW d \in LeadIds
  PROVE  /\ Converted(row, d) \in ProspectRow /\ NotNone(Converted(row, d))
         /\ Converted(row, d).ext = row.ext /\ Converted(row, d).inn = row.inn
         /\ Converted(row, d).phone = row.phone
         /\ Fits(row) => Fits(Converted(row, d))
         /\ Converted(row, d).status = "converted" /\ Converted(row, d).lead = d
<1>1. Converted(row, d) \in ProspectRow BY DEF ProspectRow, Converted
<1>2. /\ Converted(row, d).status = "converted" /\ Converted(row, d).lead = d
      /\ Converted(row, d).ext = row.ext /\ Converted(row, d).inn = row.inn
      /\ Converted(row, d).phone = row.phone
      /\ Converted(row, d).score = row.score /\ Converted(row, d).temp = row.temp
  BY DEF ProspectRow, Converted
<1> QED BY <1>1, <1>2 DEF NotNone, Fits

\* A rejection sets the status.
LEMMA RejectedRow ==
  ASSUME NEW row \in ProspectRow
  PROVE  /\ Rejected(row) \in ProspectRow /\ NotNone(Rejected(row))
         /\ Rejected(row).ext = row.ext /\ Rejected(row).inn = row.inn
         /\ Rejected(row).phone = row.phone
         /\ Fits(row) => Fits(Rejected(row))
         /\ Rejected(row).status = "rejected" /\ Rejected(row).lead = row.lead
<1>1. Rejected(row) \in ProspectRow BY DEF ProspectRow, Rejected
<1>2. /\ Rejected(row).status = "rejected" /\ Rejected(row).lead = row.lead
      /\ Rejected(row).ext = row.ext /\ Rejected(row).inn = row.inn
      /\ Rejected(row).phone = row.phone
      /\ Rejected(row).score = row.score /\ Rejected(row).temp = row.temp
  BY DEF ProspectRow, Rejected
<1> QED BY <1>1, <1>2 DEF NotNone, Fits

\* A decision changes the one row it is about.
LEMMA DecidedTable ==
  ASSUME ProspectInv, NEW r \in Requests, Busy(r), work[r].kind \in {"convert",
           "reject"},
         NEW p \in DOMAIN work[r].mine, NEW new \in ProspectRow,
         new.ext = work[r].mine[p].ext, NotNone(new)
  PROVE  LET T == Table(Touch(work[r], p, new)) IN
         /\ T \in [Prospects -> ProspectRow] /\ p \in Prospects /\ Holds(r, p)
              /\ IsListed(p)
         /\ \A q \in Prospects : q # p => T[q] = Table(work[r])[q]
         /\ T[p] = RowWritten(prospect[p], work[r].seen[p], new)
         /\ NotNone(T[p]) /\ T[p].ext = prospect[p].ext
<1> DEFINE t == Touch(work[r], p, new)
           T == Table(t)
<1>1. ProspectTypes /\ prospect \in [Prospects -> ProspectRow]
  BY DEF ProspectInv, ProspectTypes
<1>2. /\ work[r] \in Transaction /\ p \in Prospects
      /\ DOMAIN work[r].seen = DOMAIN work[r].mine
           /\ DOMAIN work[r].mine \subseteq Prospects
      /\ work[r].seen[p] \in ProspectRow
  BY <1>1, BusyIsTransaction
<1>3. /\ DOMAIN t.mine = DOMAIN work[r].mine /\ t.mine[p] = new
      /\ t.seen[p] = work[r].seen[p]
      /\ \A q \in DOMAIN work[r].mine : q # p =>
           t.mine[q] = work[r].mine[q] /\ t.seen[q] = work[r].seen[q]
  <2>1. DOMAIN work[r].mine \cup {p} = DOMAIN work[r].mine OBVIOUS
  <2>2. /\ DOMAIN t.mine = DOMAIN work[r].mine \cup {p} /\ t.mine[p] = new
        /\ t.seen[p] = IF p \in DOMAIN work[r].mine THEN work[r].seen[p] ELSE prospect[p]
        /\ \A q \in DOMAIN work[r].mine : q # p =>
             t.mine[q] = work[r].mine[q] /\ t.seen[q] = work[r].seen[q]
    BY <1>1, <1>2, TouchedRows
  <2> QED BY <2>1, <2>2
<1> HIDE DEF t
<1>4. T[p] = RowWritten(prospect[p], work[r].seen[p], new) BY <1>2, <1>3 DEF Table
<1>5. ASSUME NEW q \in Prospects, q # p PROVE T[q] = Table(work[r])[q]
  BY <1>3, <1>5 DEF Table
<1>6. Holds(r, p) BY DEF Holds
<1>7. HeldRow(r, p) BY <1>2, <1>6 DEF ProspectInv
<1>8. IsListed(p) BY <1>7 DEF HeldRow
<1>9. prospect[p].status # "none" BY <1>8 DEF IsListed
<1>10. new.ext = work[r].seen[p].ext BY <1>7, <1>8 DEF HeldRow
<1>11. T[p] \in ProspectRow /\ NotNone(T[p]) /\ T[p].ext = prospect[p].ext
  BY <1>1, <1>2, <1>4, <1>9, <1>10, WrittenRow DEF NotNone
<1>12. \A q \in Prospects : T[q] \in ProspectRow BY <1>5, <1>11, TableRow
<1>13. T \in [Prospects -> ProspectRow] BY <1>12 DEF Table
<1> QED BY <1>2, <1>4, <1>5, <1>6, <1>8, <1>11, <1>13 DEF t

\* Nothing loaded yet.
LEMMA NothingHeld ==
  ASSUME NEW kind \in {"run", "inbound", "convert", "reject"},
           NEW found \in SUBSET Raws
  PROVE  LET t == [kind |-> kind, todo |-> found, seen |-> NoRows, mine |-> NoRows] IN
         t \in Transaction /\ DOMAIN t.seen = {} /\ DOMAIN t.mine = {}
<1>1. NoRows \in [{} -> ProspectRow] BY DEF NoRows
<1>2. {} \in SUBSET Prospects OBVIOUS
<1>3. NoRows \in SomeRows BY <1>1, <1>2 DEF SomeRows
<1>4. DOMAIN NoRows = {} BY DEF NoRows
<1> QED BY <1>3, <1>4 DEF Transaction

\* Beginning a request: it has nothing in hand, or the row it decides on.
LEMMA BeginsWith ==
  ASSUME ProspectInv, NEW r \in Requests,
         BeginRun(r) \/ BeginInbound(r) \/ BeginConversion(r) \/ BeginRejection(r)
  PROVE  \E t \in Transaction :
           /\ UNCHANGED <<prospect, made, joined>>
           /\ work' = [work EXCEPT ![r] = t]
           /\ crossed' = (crossed \/ \E q \in Requests : Busy(q))
           /\ DOMAIN t.seen = DOMAIN t.mine /\ DOMAIN t.mine \subseteq Prospects
           /\ \A p \in DOMAIN t.mine :
                /\ t.seen[p] = prospect[p] /\ t.mine[p] = prospect[p]
                /\ IsListed(p) /\ prospect[p].status # "converted"
<1>1. prospect \in [Prospects -> ProspectRow] BY DEF ProspectInv, ProspectTypes
<1>2. CASE BeginRun(r) \/ BeginInbound(r)
  <2>1. PICK kind \in {"run", "inbound"}, found \in SUBSET Raws :
          Begin(r, [kind |-> kind, todo |-> found, seen |-> NoRows, mine |-> NoRows])
    <3>1. CASE BeginRun(r) BY <3>1 DEF BeginRun
    <3>2. CASE BeginInbound(r)
      <4>1. PICK raw \in Raws :
              Begin(r, [kind |-> "inbound", todo |-> {raw}, seen |-> NoRows,
                mine |-> NoRows])
        BY <3>2 DEF BeginInbound
      <4> QED BY <4>1
    <3> QED BY <1>2, <3>1, <3>2
  <2> DEFINE t == [kind |-> kind, todo |-> found, seen |-> NoRows, mine |-> NoRows]
  <2>2. UNCHANGED <<prospect, made, joined>> BY <1>2 DEF BeginRun, BeginInbound
  <2>3. t \in Transaction /\ DOMAIN t.mine = {} /\ DOMAIN t.seen = {} BY NothingHeld
  <2>4. work' = [work EXCEPT ![r] = t] /\ crossed' = (crossed
          \/ \E q \in Requests : Busy(q))
    BY <2>1 DEF Begin
  <2> HIDE DEF t
  <2> QED BY <2>2, <2>3, <2>4
<1>3. CASE BeginConversion(r) \/ BeginRejection(r)
  <2>1. PICK kind \in {"convert", "reject"}, p \in Prospects :
          /\ IsListed(p) /\ prospect[p].status # "converted"
          /\ Begin(r, Touch([kind |-> kind, todo |-> {}, seen |-> NoRows,
               mine |-> NoRows],
                            p, prospect[p]))
    <3>1. CASE BeginConversion(r) BY <3>1 DEF BeginConversion, LoadForDecision
    <3>2. CASE BeginRejection(r) BY <3>2 DEF BeginRejection, LoadForDecision
    <3> QED BY <1>3, <3>1, <3>2
  <2>2. UNCHANGED <<prospect, made, joined>>
    BY <1>3 DEF BeginConversion, BeginRejection, LoadForDecision
  <2> DEFINE u == [kind |-> kind, todo |-> {}, seen |-> NoRows, mine |-> NoRows]
             t == Touch(u, p, prospect[p])
  <2>3. u \in Transaction /\ DOMAIN u.seen = {} /\ DOMAIN u.mine = {} BY NothingHeld
  <2> HIDE DEF u
  <2>4. ASSUME NEW v \in Transaction, DOMAIN v.seen = {}, DOMAIN v.mine = {},
                 NEW row \in ProspectRow,
               row = prospect[p]
        PROVE  /\ Touch(v, p, row) \in Transaction /\ DOMAIN Touch(v, p,
                    row).mine = {p}
               /\ DOMAIN Touch(v, p, row).seen = {p}
               /\ Touch(v, p, row).mine[p] = row /\ Touch(v, p, row).seen[p] = row
    <3>1. DOMAIN v.seen = DOMAIN v.mine BY <2>4
    <3>2. /\ Touch(v, p, row) \in Transaction
          /\ DOMAIN Touch(v, p, row).mine = DOMAIN v.mine \cup {p}
          /\ DOMAIN Touch(v, p, row).seen = DOMAIN v.mine \cup {p}
          /\ Touch(v, p, row).mine[p] = row
          /\ Touch(v, p,
               row).seen[p] = IF p \in DOMAIN v.mine THEN v.seen[p] ELSE prospect[p]
      BY <1>1, <3>1, TouchedRows
    <3> QED BY <2>4, <3>2
  <2>5. /\ t \in Transaction /\ DOMAIN t.mine = {p} /\ DOMAIN t.seen = {p}
        /\ t.mine[p] = prospect[p] /\ t.seen[p] = prospect[p]
    <3>1. prospect[p] \in ProspectRow BY <1>1
    <3> QED BY <2>3, <2>4, <3>1
  <2>6. work' = [work EXCEPT ![r] = t] /\ crossed' = (crossed
          \/ \E q \in Requests : Busy(q))
    BY <2>1 DEF Begin, u
  <2> HIDE DEF t
  <2> QED BY <2>1, <2>2, <2>5, <2>6
<1> QED BY <1>2, <1>3

\* Every step keeps the rows sound.
LEMMA ProspectStep == ProspectInv /\ [ProspectNext]_prospectVars => ProspectInv'
<1> SUFFICES ASSUME ProspectInv, [ProspectNext]_prospectVars
             PROVE  ProspectInv' OBVIOUS
<1>1. ProspectTypes /\ prospect \in [Prospects -> ProspectRow]
      /\ made \in [LeadIds -> Prospects \cup {Unknown}]
           /\ work \in [Requests -> Transaction \cup {NoWork}]
      /\ crossed \in BOOLEAN /\ joined \in BOOLEAN
  BY DEF ProspectInv, ProspectTypes
<1>2. ASSUME NEW r \in Requests,
             BeginRun(r) \/ BeginInbound(r) \/ BeginConversion(r) \/ BeginRejection(r)
      PROVE  ProspectInv'
  <2>1. PICK t \in Transaction :
          /\ UNCHANGED <<prospect, made, joined>>
          /\ work' = [work EXCEPT ![r] = t]
          /\ crossed' = (crossed \/ \E q \in Requests : Busy(q))
          /\ DOMAIN t.seen = DOMAIN t.mine /\ DOMAIN t.mine \subseteq Prospects
          /\ \A p \in DOMAIN t.mine :
               /\ t.seen[p] = prospect[p] /\ t.mine[p] = prospect[p]
               /\ IsListed(p) /\ prospect[p].status # "converted"
    BY <1>2, BeginsWith
  <2>2. ASSUME NEW p \in DOMAIN t.mine
        PROVE  /\ prospect[p].lead # Unknown => made[prospect[p].lead] = p
               /\ NotNone(prospect[p])
    <3>1. OneLead(p) BY <2>1 DEF ProspectInv
    <3> QED BY <2>1, <3>1 DEF OneLead, IsListed, NotNone
  <2>3. crossed' \in BOOLEAN BY <1>1, <2>1
  <2> QED BY <1>1, <2>1, <2>2, <2>3, HandsKeep
<1>4. ASSUME NEW r \in Requests, TakeRecord(r) PROVE ProspectInv'
  <2>1. PICK rest \in Transaction :
          /\ Busy(r) /\ work[r].kind \in {"run", "inbound"}
          /\ rest.kind = work[r].kind
          /\ rest.seen = work[r].seen /\ rest.mine = work[r].mine
          /\ UNCHANGED <<prospect, made, crossed>>
          /\ \/ work' = [work EXCEPT ![r] = rest]
             \/ \E p \in Prospects, row \in ProspectRow :
                  TakenRow(r, p, row) /\ work' = [work EXCEPT ![r] = Touch(rest, p,
                    row)]
    BY <1>4, TakesOne
  <2>2. joined' \in BOOLEAN
    <3>1. PICK raw \in work[r].todo : joined' = (joined \/
            Cardinality(ByExt(work[r], raw) \cup ByInn(work[r], raw)
                        \cup ByPhone(work[r], raw)) > 1)
      BY <1>4 DEF TakeRecord
    <3> QED BY <3>1
  <2>3. /\ DOMAIN rest.seen = DOMAIN rest.mine /\ DOMAIN rest.mine \subseteq Prospects
        /\ rest.kind \notin {"convert", "reject"}
    BY <1>1, <2>1, BusyIsTransaction
  <2>4. ASSUME NEW p \in DOMAIN rest.mine PROVE Holds(r, p) /\ HeldRow(r, p)
    <3>1. Holds(r, p) BY <2>1 DEF Holds
    <3> QED BY <2>3, <3>1 DEF ProspectInv
  <2>5. \A p \in DOMAIN rest.mine :
          /\ rest.mine[p].lead = rest.seen[p].lead /\ NotNone(rest.mine[p])
          /\ rest.seen[p].lead # Unknown => made[rest.seen[p].lead] = p
          /\ IsListed(p) => /\ NotNone(rest.seen[p])
                            /\ rest.mine[p].status = rest.seen[p].status
                            /\ rest.mine[p].ext = rest.seen[p].ext
          /\ ~IsListed(p) => rest.seen[p] = NoProspect
                             /\ \A q \in Requests : q # r => ~Holds(q, p)
    BY <2>1, <2>4 DEF HeldRow
  <2>6. CASE work' = [work EXCEPT ![r] = rest]
    BY <1>1, <2>1, <2>2, <2>3, <2>5, <2>6, HandsKeep
  <2>7. ASSUME NEW p \in Prospects, NEW row \in ProspectRow, TakenRow(r, p, row),
               work' = [work EXCEPT ![r] = Touch(rest, p, row)]
        PROVE  ProspectInv'
    <3> DEFINE t == Touch(rest, p, row)
    <3>1. /\ t \in Transaction /\ t.kind = rest.kind
          /\ DOMAIN t.mine = DOMAIN rest.mine \cup {p}
          /\ DOMAIN t.seen = DOMAIN rest.mine \cup {p}
          /\ t.mine[p] = row
          /\ t.seen[p] = IF p \in DOMAIN rest.mine THEN rest.seen[p] ELSE prospect[p]
          /\ \A q \in DOMAIN rest.mine : q # p =>
               t.mine[q] = rest.mine[q] /\ t.seen[q] = rest.seen[q]
      BY <1>1, <2>3, TouchedRows
    <3>2. Holds(r, p) <=> p \in DOMAIN rest.mine BY <2>1 DEF Holds
    <3>3. /\ row.lead = t.seen[p].lead /\ NotNone(row)
          /\ t.seen[p].lead # Unknown => made[t.seen[p].lead] = p
          /\ IsListed(p) => /\ NotNone(t.seen[p]) /\ row.status = t.seen[p].status
                            /\ row.ext = t.seen[p].ext
          /\ ~IsListed(p) => t.seen[p] = NoProspect
                             /\ \A q \in Requests : q # r => ~Holds(q, p)
      <4>1. CASE Holds(r, p)
        <5>1. row.lead = rest.mine[p].lead /\ row.status = rest.mine[p].status
              /\ row.ext = rest.mine[p].ext
          BY <2>1, <2>7, <3>2, <4>1 DEF TakenRow, Loaded
        <5> QED BY <2>5, <3>1, <3>2, <4>1, <5>1 DEF NotNone
      <4>2. CASE ~Holds(r, p) /\ IsListed(p)
        <5>1. row.lead = prospect[p].lead /\ row.status = prospect[p].status
              /\ row.ext = prospect[p].ext
          BY <2>1, <2>7, <3>2, <4>2 DEF TakenRow, Loaded
        <5>2. OneLead(p) BY DEF ProspectInv
        <5>3. prospect[p].lead # Unknown =>
                made[prospect[p].lead] = p BY <5>2 DEF OneLead
        <5>4. prospect[p].status # "none" BY <4>2 DEF IsListed
        <5> QED BY <3>1, <3>2, <4>2, <5>1, <5>3, <5>4 DEF NotNone
      <4>3. CASE ~Holds(r, p) /\ ~IsListed(p)
        <5>1. /\ \A q \in Requests : ~Holds(q, p)
              /\ row.lead = Unknown /\ row.status = "new"
          BY <2>7, <4>3 DEF TakenRow
        <5>2. BlankRow(p) BY DEF ProspectInv
        <5>3. prospect[p] = NoProspect BY <4>3, <5>2 DEF BlankRow
        <5>4. prospect[p].lead = Unknown BY <5>3 DEF NoProspect
        <5> QED BY <3>1, <3>2, <4>3, <5>1, <5>3, <5>4 DEF NotNone
      <4> QED BY <4>1, <4>2, <4>3
    <3> HIDE DEF t
    <3>4. \A q \in DOMAIN t.mine :
            /\ t.mine[q].lead = t.seen[q].lead /\ NotNone(t.mine[q])
            /\ t.seen[q].lead # Unknown => made[t.seen[q].lead] = q
            /\ IsListed(q) => /\ NotNone(t.seen[q])
                 /\ t.mine[q].status = t.seen[q].status
                              /\ t.mine[q].ext = t.seen[q].ext
            /\ ~IsListed(q) => t.seen[q] = NoProspect
                               /\ \A o \in Requests : o # r => ~Holds(o, q)
      <4> TAKE q \in DOMAIN t.mine
      <4>1. CASE q = p BY <3>1, <3>3, <4>1
      <4>2. CASE q # p
        <5>1. q \in DOMAIN rest.mine /\ t.mine[q] = rest.mine[q]
                /\ t.seen[q] = rest.seen[q]
          BY <3>1, <4>2
        <5> QED BY <2>5, <5>1
      <4> QED BY <4>1, <4>2
    <3>5. work' = [work EXCEPT ![r] = t] BY <2>7 DEF t
    <3>6. DOMAIN t.seen = DOMAIN t.mine BY <3>1
    <3>7. t.kind \notin {"convert", "reject"} BY <2>3, <3>1
    <3> QED BY <1>1, <2>1, <2>2, <3>1, <3>4, <3>5, <3>6, <3>7, HandsKeep
  <2> QED BY <2>1, <2>6, <2>7
<1>5. ASSUME NEW r \in Requests, CommitRecords(r) PROVE ProspectInv'
  <2>1. /\ work[r].kind \in {"run", "inbound"} /\ prospect' = Table(work[r])
        /\ work' = [work EXCEPT ![r] = NoWork] /\ UNCHANGED <<made, joined, crossed>>
    BY <1>5 DEF CommitRecords, End
  <2>2. Busy(r) BY <1>1, <2>1, BusyIsTransaction
  <2>3. ASSUME NEW p \in Prospects
        PROVE  /\ prospect'[p] \in ProspectRow
               /\ ~Holds(r, p) => prospect'[p] = prospect[p]
               /\ Holds(r, p) => NotNone(prospect'[p])
               /\ prospect'[p].lead = prospect[p].lead
               /\ IsListed(p) => prospect'[p].ext = prospect[p].ext
    BY <2>1, <2>2, TableRow
  <2>4. prospect' \in [Prospects -> ProspectRow] BY <2>1, <2>3 DEF Table
  <2>5. ASSUME NEW p \in Prospects
        PROVE  (~IsListed(p)' => LeadsOf(p)' = {}) /\ OneLead(p)'
    <3>1. LeadsOf(p)' = LeadsOf(p) BY <2>1 DEF LeadsOf
    <3>2. BlankRow(p) /\ OneLead(p) BY DEF ProspectInv
    <3>3. CASE IsListed(p)
      <4>1. NotNone(prospect'[p]) BY <2>3, <3>3 DEF IsListed, NotNone
      <4>2. IsListed(p)' BY <4>1 DEF IsListed, NotNone
      <4> QED BY <2>1, <2>3, <3>1, <3>2, <3>3, <4>2 DEF OneLead
    <3>4. CASE ~IsListed(p)
      <4>1. LeadsOf(p) = {} BY <3>2, <3>4 DEF BlankRow
      <4>2. Cardinality(LeadsOf(p)) = 0 BY <4>1, FS_EmptySet
      <4> QED BY <2>1, <2>3, <3>1, <3>2, <4>1, <4>2 DEF OneLead
    <3> QED BY <3>3, <3>4
  <2> QED BY <1>1, <2>1, <2>2, <2>3, <2>4, <2>5, CommitsKeep
<1>6. ASSUME NEW r \in Requests, CommitProspectConversion(r) PROVE ProspectInv'
  <2>1. PICK p \in DOMAIN work[r].mine, d \in LeadsOf(Unknown) :
          /\ work[r].kind = "convert" /\ LeadIsUnique(p)
          /\ made' = [made EXCEPT ![d] = p]
          /\ prospect' = Table(Touch(work[r], p,
               [work[r].mine[p] EXCEPT !.status = "converted", !.lead = d]))
          /\ work' = [work EXCEPT ![r] = NoWork] /\ UNCHANGED <<joined, crossed>>
    BY <1>6 DEF CommitProspectConversion, End
  <2> DEFINE new == Converted(work[r].mine[p], d)
  <2>2. Busy(r) BY <1>1, <2>1, BusyIsTransaction
  <2>3. d \in LeadIds /\ made[d] = Unknown /\ d # Unknown
    BY ProspectAssumption DEF LeadsOf
  <2>4. p \in Prospects /\ p # Unknown /\ work[r].mine[p] \in ProspectRow
        /\ work[r].seen[p] \in ProspectRow
    BY <1>1, <2>2, BusyIsTransaction, ProspectAssumption
  <2>5. new \in ProspectRow /\ new.ext = work[r].mine[p].ext /\ NotNone(new)
          /\ new.lead = d
    BY <2>3, <2>4, ConvertedRow
  <2>13. prospect' = Table(Touch(work[r], p, new)) BY <2>1 DEF Converted
  <2> HIDE DEF new
  <2>6. /\ prospect' \in [Prospects -> ProspectRow] /\ Holds(r, p) /\ IsListed(p)
        /\ \A q \in Prospects : q # p => prospect'[q] = Table(work[r])[q]
        /\ prospect'[p] = RowWritten(prospect[p], work[r].seen[p], new)
        /\ NotNone(prospect'[p]) /\ prospect'[p].ext = prospect[p].ext
    BY <2>1, <2>2, <2>5, <2>13, DecidedTable
  <2>7. made' \in [LeadIds -> Prospects \cup {Unknown}]
        /\ \A e \in LeadIds : made[e] # Unknown => made'[e] = made[e]
    BY <1>1, <2>1, <2>3, <2>4
  <2>8. ASSUME NEW q \in Prospects, q # p
        PROVE  /\ ~Holds(r, q) => prospect'[q] = prospect[q]
               /\ Holds(r, q) => NotNone(prospect'[q])
               /\ prospect'[q].lead = prospect[q].lead
               /\ IsListed(q) => prospect'[q].ext = prospect[q].ext
               /\ LeadsOf(q)' = LeadsOf(q)
    <3>1. LeadsOf(q)' = LeadsOf(q) BY <1>1, <2>1, <2>3, <2>8,
            ProspectAssumption DEF LeadsOf
    <3> QED BY <2>2, <2>6, <2>8, <3>1, TableRow
  <2>9. ASSUME NEW q \in Prospects, q # p
        PROVE  (~IsListed(q)' => LeadsOf(q)' = {}) /\ OneLead(q)'
    <3>1. BlankRow(q) /\ OneLead(q) BY DEF ProspectInv
    <3>2. prospect'[q].lead # Unknown => made'[prospect'[q].lead] = q
      <4>1. ASSUME prospect[q].lead # Unknown PROVE made'[prospect[q].lead] = q
        <5>1. made[prospect[q].lead] = q BY <3>1, <4>1 DEF OneLead
        <5>2. prospect[q].lead \in LeadIds BY <1>1, <4>1 DEF ProspectRow
        <5> QED BY <2>7, <5>1, <5>2, ProspectAssumption
      <4> QED BY <2>8, <2>9, <4>1
    <3>3. CASE IsListed(q)
      <4>1. NotNone(prospect'[q]) BY <2>8, <2>9, <3>3 DEF IsListed, NotNone
      <4>2. IsListed(q)' BY <4>1 DEF IsListed, NotNone
      <4> QED BY <2>8, <2>9, <3>1, <3>2, <3>3, <4>2 DEF OneLead
    <3>4. CASE ~IsListed(q)
      <4>1. LeadsOf(q)' = {} BY <2>8, <2>9, <3>1, <3>4 DEF BlankRow
      <4>2. Cardinality(LeadsOf(q)') = 0 BY <4>1, FS_EmptySet
      <4> QED BY <3>2, <4>1, <4>2 DEF OneLead
    <3> QED BY <3>3, <3>4
  <2>10. IsListed(p)' BY <2>6 DEF IsListed, NotNone
  <2>11. OneLead(p)'
    <3>1. prospect'[p].lead \in {d, prospect[p].lead}
      BY <1>1, <2>4, <2>5, <2>6, WrittenRow
    <3>2. OneLead(p) BY <2>4 DEF ProspectInv
    <3>3. prospect'[p].lead # Unknown => made'[prospect'[p].lead] = p
      <4>1. ASSUME prospect[p].lead # Unknown PROVE made'[prospect[p].lead] = p
        <5>1. made[prospect[p].lead] = p BY <3>2, <4>1 DEF OneLead
        <5>2. prospect[p].lead \in LeadIds BY <1>1, <2>4, <4>1 DEF ProspectRow
        <5> QED BY <2>4, <2>7, <5>1, <5>2
      <4>2. made'[d] = p BY <1>1, <2>1, <2>3
      <4> QED BY <3>1, <4>1, <4>2
    <3>4. ASSUME prospect'[p].ext # Unknown PROVE Cardinality(LeadsOf(p)') <= 1
      <4>1. LeadsOf(p) = {} BY <2>1, <2>6, <3>4 DEF LeadIsUnique
      <4>2. LeadsOf(p)' = {d} BY <1>1, <2>1, <2>3, <4>1 DEF LeadsOf
      <4>3. Cardinality({d}) = 1 BY FS_Singleton
      <4> QED BY <4>2, <4>3
    <3> QED BY <3>3, <3>4 DEF OneLead
  <2>12. \A q \in Prospects :
           /\ ~Holds(r, q) => prospect'[q] = prospect[q]
           /\ Holds(r, q) => NotNone(prospect'[q])
           /\ IsListed(q) => prospect'[q].ext = prospect[q].ext
           /\ ~IsListed(q)' => LeadsOf(q)' = {}
           /\ OneLead(q)'
    <3> TAKE q \in Prospects
    <3>1. CASE q = p BY <2>6, <2>10, <2>11, <3>1
    <3>2. CASE q # p BY <2>8, <2>9, <3>2
    <3> QED BY <3>1, <3>2
  <2> QED BY <1>1, <2>1, <2>2, <2>6, <2>7, <2>12, CommitsKeep
<1>7. ASSUME NEW r \in Requests, CommitProspectRejection(r) PROVE ProspectInv'
  <2>1. PICK p \in DOMAIN work[r].mine :
          /\ work[r].kind = "reject" /\ UNCHANGED made
          /\ prospect' = Table(Touch(work[r], p,
               [work[r].mine[p] EXCEPT !.status = "rejected"]))
          /\ work' = [work EXCEPT ![r] = NoWork] /\ UNCHANGED <<joined, crossed>>
    BY <1>7 DEF CommitProspectRejection, End
  <2> DEFINE new == Rejected(work[r].mine[p])
  <2>2. Busy(r) BY <1>1, <2>1, BusyIsTransaction
  <2>3. p \in Prospects /\ work[r].mine[p] \in ProspectRow
          /\ work[r].seen[p] \in ProspectRow
    BY <1>1, <2>2, BusyIsTransaction
  <2>4. new \in ProspectRow /\ new.ext = work[r].mine[p].ext /\ NotNone(new)
        /\ new.lead = work[r].mine[p].lead
    BY <2>3, RejectedRow
  <2>10. prospect' = Table(Touch(work[r], p, new)) BY <2>1 DEF Rejected
  <2> HIDE DEF new
  <2>5. /\ prospect' \in [Prospects -> ProspectRow] /\ Holds(r, p) /\ IsListed(p)
        /\ \A q \in Prospects : q # p => prospect'[q] = Table(work[r])[q]
        /\ prospect'[p] = RowWritten(prospect[p], work[r].seen[p], new)
        /\ NotNone(prospect'[p]) /\ prospect'[p].ext = prospect[p].ext
    BY <2>1, <2>2, <2>4, <2>10, DecidedTable
  <2>6. HeldRow(r, p) BY <2>3, <2>5 DEF ProspectInv
  <2>7. prospect'[p].lead = prospect[p].lead
    <3>1. new.lead = work[r].seen[p].lead BY <2>4, <2>6 DEF HeldRow
    <3> QED BY <1>1, <2>3, <2>4, <2>5, <3>1, WrittenRow
  <2>8. ASSUME NEW q \in Prospects
        PROVE  /\ ~Holds(r, q) => prospect'[q] = prospect[q]
               /\ Holds(r, q) => NotNone(prospect'[q])
               /\ prospect'[q].lead = prospect[q].lead
               /\ IsListed(q) => prospect'[q].ext = prospect[q].ext
    <3>1. CASE q = p BY <2>5, <2>7, <3>1
    <3>2. CASE q # p BY <2>2, <2>5, <3>2, TableRow
    <3> QED BY <3>1, <3>2
  <2>9. ASSUME NEW q \in Prospects
        PROVE  (~IsListed(q)' => LeadsOf(q)' = {}) /\ OneLead(q)'
    <3>1. LeadsOf(q)' = LeadsOf(q) BY <2>1 DEF LeadsOf
    <3>2. BlankRow(q) /\ OneLead(q) BY DEF ProspectInv
    <3>3. CASE IsListed(q)
      <4>1. NotNone(prospect'[q]) BY <2>8, <3>3 DEF IsListed, NotNone
      <4>2. IsListed(q)' BY <4>1 DEF IsListed, NotNone
      <4> QED BY <2>1, <2>8, <3>1, <3>2, <3>3, <4>2 DEF OneLead
    <3>4. CASE ~IsListed(q)
      <4>1. LeadsOf(q) = {} BY <3>2, <3>4 DEF BlankRow
      <4>2. Cardinality(LeadsOf(q)) = 0 BY <4>1, FS_EmptySet
      <4> QED BY <2>1, <2>8, <3>1, <3>2, <4>1, <4>2 DEF OneLead
    <3> QED BY <3>3, <3>4
  <2> QED BY <1>1, <2>1, <2>2, <2>5, <2>8, <2>9, CommitsKeep
<1>8. ASSUME NEW r \in Requests, Rollback(r) PROVE ProspectInv'
  <2>1. Busy(r) /\ work' = [work EXCEPT ![r] = NoWork]
        /\ UNCHANGED <<prospect, made, joined, crossed>>
    BY <1>8 DEF Rollback, End
  <2>2. ASSUME NEW p \in Prospects
        PROVE  /\ ~Holds(r, p) => prospect'[p] = prospect[p]
               /\ IsListed(p) => prospect'[p].ext = prospect[p].ext
               /\ ~IsListed(p)' => LeadsOf(p)' = {}
               /\ OneLead(p)'
    <3>1. BlankRow(p) /\ OneLead(p) BY DEF ProspectInv
    <3>2. LeadsOf(p)' = LeadsOf(p) /\ (IsListed(p)' <=>
            IsListed(p)) BY <2>1 DEF LeadsOf, IsListed
    <3> QED BY <2>1, <3>1, <3>2 DEF BlankRow, OneLead
  <2> QED BY <1>1, <2>1, <2>2, CommitsKeep
<1>9. CASE UNCHANGED prospectVars
  <2>1. UNCHANGED <<prospect, made, work, crossed, joined>> BY <1>9 DEF prospectVars
  <2>2. ProspectTypes' BY <1>1, <2>1 DEF ProspectInv, ProspectTypes, Busy
  <2>3. ASSUME NEW r \in Requests, NEW p \in Prospects, Holds(r, p)'
        PROVE  HeldRow(r, p)'
    <3>1. Holds(r, p) BY <2>1, <2>3 DEF Holds, Busy
    <3>2. HeldRow(r, p) BY <3>1 DEF ProspectInv
    <3> QED BY <2>1, <3>2 DEF HeldRow, IsListed, Holds, Busy
  <2>4. ASSUME NEW p \in Prospects PROVE BlankRow(p)' /\ OneLead(p)'
    <3>1. BlankRow(p) /\ OneLead(p) BY DEF ProspectInv
    <3> QED BY <2>1, <3>1 DEF BlankRow, OneLead, IsListed, LeadsOf
  <2> QED BY <2>2, <2>3, <2>4 DEF ProspectInv
<1> QED BY <1>2, <1>4, <1>5, <1>6, <1>7, <1>8, <1>9 DEF ProspectNext

\* A prospect is converted exactly if it has a lead.
HasLead(row) == row.status = "converted" <=> row.lead # Unknown

\* Without overlaps one request is at work at most, on rows as they are.
SoloInv ==
  ~crossed =>
    /\ \A q, r \in Requests : Busy(q) /\ Busy(r) => q = r
    /\ \A r \in Requests, p \in Prospects : Holds(r, p) =>
         /\ work[r].seen[p] = prospect[p]
         /\ HasLead(work[r].mine[p]) /\ Fits(work[r].mine[p])
    /\ \A p \in Prospects :
         /\ LeadsOf(p) = {prospect[p].lead} \ {Unknown}
         /\ HasLead(prospect[p]) /\ Fits(prospect[p])

\* Without overlaps a transaction finds what it has in hand.
LEMMA SoloTable ==
  ASSUME ProspectInv, SoloInv, ~crossed, NEW r \in Requests, Busy(r),
           NEW p \in Prospects
  PROVE  /\ Table(work[r])[p] = Loaded(work[r], p)
         /\ HasLead(Loaded(work[r], p)) /\ Fits(Loaded(work[r], p))
         /\ Loaded(work[r], p).lead = prospect[p].lead
<1>1. prospect[p] \in ProspectRow /\ ProspectTypes BY DEF ProspectInv, ProspectTypes
<1>2. CASE ~Holds(r, p) BY <1>2 DEF Table, Holds, Loaded, SoloInv
<1>3. CASE Holds(r, p)
  <2>1. /\ p \in DOMAIN work[r].mine /\ work[r].seen[p] \in ProspectRow
        /\ work[r].mine[p] \in ProspectRow
    BY <1>1, <1>3, BusyIsTransaction DEF Holds
  <2>2. Table(work[r])[p] = RowWritten(prospect[p], work[r].seen[p], work[r].mine[p])
    BY <2>1 DEF Table
  <2>3. /\ work[r].seen[p] = prospect[p]
        /\ HasLead(work[r].mine[p]) /\ Fits(work[r].mine[p])
    BY <1>3 DEF SoloInv
  <2>4. Table(work[r])[p] = work[r].mine[p] BY <1>1, <2>1, <2>2, <2>3, WrittenRow
  <2>5. HeldRow(r, p) BY <1>3 DEF ProspectInv
  <2>6. work[r].mine[p].lead = prospect[p].lead BY <2>3, <2>5 DEF HeldRow
  <2> QED BY <2>1, <2>3, <2>4, <2>6 DEF Loaded
<1> QED BY <1>2, <1>3

\* After a commit nobody is at work.
LEMMA SoloCommits ==
  ASSUME ProspectInv, SoloInv, NEW r \in Requests, Busy(r),
         work' = [work EXCEPT ![r] = NoWork], crossed' = crossed,
         ~crossed => \A p \in Prospects :
           /\ LeadsOf(p)' = {prospect'[p].lead} \ {Unknown}
           /\ HasLead(prospect'[p]) /\ Fits(prospect'[p])
  PROVE  SoloInv' /\ (~crossed => \A q \in Requests : ~Busy(q)')
<1>1. ASSUME ~crossed, NEW q \in Requests
      PROVE  ~Busy(q)' /\ \A p \in Prospects : ~Holds(q, p)'
  <2>1. q # r => ~Busy(q) BY <1>1 DEF SoloInv
  <2>2. ~Busy(q)' BY <2>1 DEF Busy, ProspectInv, ProspectTypes
  <2> QED BY <2>2 DEF Holds
<1>2. SoloInv' BY <1>1 DEF SoloInv
<1> QED BY <1>1, <1>2

\* A step of the one transaction at work.
LEMMA SoloHands ==
  ASSUME ProspectInv, UNCHANGED <<prospect, made>>, NEW r \in Requests, NEW t,
         work' = [work EXCEPT ![r] = t],
         ~crossed' => ~crossed /\ \A q \in Requests : q # r => ~Busy(q),
         ~crossed => \A p \in Prospects :
           /\ LeadsOf(p) = {prospect[p].lead} \ {Unknown}
           /\ HasLead(prospect[p]) /\ Fits(prospect[p]),
         ~crossed => \A p \in DOMAIN t.mine :
           t.seen[p] = prospect[p] /\ HasLead(t.mine[p]) /\ Fits(t.mine[p])
  PROVE  SoloInv'
<1>1. work'[r] = t /\ \A q \in Requests : q # r => work'[q] = work[q]
  BY DEF ProspectInv, ProspectTypes
<1>2. ASSUME ~crossed', NEW q \in Requests, q # r
      PROVE  ~Busy(q)' /\ \A p \in Prospects : ~Holds(q, p)'
  BY <1>1, <1>2 DEF Busy, Holds
<1>3. ASSUME ~crossed', NEW q \in Requests, NEW p \in Prospects, Holds(q, p)'
      PROVE  work'[q].seen[p] = prospect'[p] /\ HasLead(work'[q].mine[p])
               /\ Fits(work'[q].mine[p])
  <2>1. q = r BY <1>2, <1>3
  <2>2. p \in DOMAIN t.mine BY <1>1, <1>3, <2>1 DEF Holds
  <2> QED BY <1>1, <1>3, <2>1, <2>2
<1>4. ASSUME ~crossed', NEW p \in Prospects
      PROVE  /\ LeadsOf(p)' = {prospect'[p].lead} \ {Unknown}
             /\ HasLead(prospect'[p]) /\ Fits(prospect'[p])
  <2>1. LeadsOf(p)' = LeadsOf(p) BY DEF LeadsOf
  <2> QED BY <1>4, <2>1
<1>5. ~crossed' => \A q, o \in Requests : Busy(q)' /\ Busy(o)' => q = o
  BY <1>2
<1> QED BY <1>3, <1>4, <1>5 DEF SoloInv

\* Two people never share an INN or a phone in a table.
Distinct(table) ==
  \A p, q \in Prospects : p # q =>
    /\ table[p].inn # Unknown => table[p].inn # table[q].inn
    /\ table[p].phone # Unknown => table[p].phone # table[q].phone

PersonInv ==
  ~crossed /\ ~joined =>
    /\ Distinct(prospect)
    /\ \A r \in Requests : Busy(r) => Distinct(Table(work[r]))

\* Tables that agree on people.
LEMMA SamePeople ==
  ASSUME NEW S, NEW T, Distinct(S),
         \A p \in Prospects : T[p].inn = S[p].inn /\ T[p].phone = S[p].phone
  PROVE  Distinct(T)
BY DEF Distinct

\* A decision that is committed without overlaps: one row, whose lead is new.
LEMMA DecisionAlone ==
  ASSUME ProspectInv, SoloInv, ~crossed, NEW r \in Requests, Busy(r),
         work[r].kind \in {"convert", "reject"},
         NEW p \in DOMAIN work[r].mine, NEW new \in ProspectRow,
         new.ext = work[r].mine[p].ext, NotNone(new)
  PROVE  LET T == Table(Touch(work[r], p, new)) IN
         /\ p \in Prospects /\ T[p] = new
         /\ work[r].mine[p].lead = Unknown /\ Fits(work[r].mine[p])
         /\ Table(work[r])[p] = work[r].mine[p]
         /\ LeadsOf(p) = {}
         /\ \A q \in Prospects : q # p => T[q] = Table(work[r])[q]
<1>1. ProspectTypes /\ prospect \in [Prospects -> ProspectRow]
  BY DEF ProspectInv, ProspectTypes
<1>2. /\ p \in Prospects /\ work[r].seen[p] \in ProspectRow
  BY <1>1, BusyIsTransaction
<1>3. LET T == Table(Touch(work[r], p, new)) IN
      /\ \A q \in Prospects : q # p => T[q] = Table(work[r])[q]
      /\ T[p] = RowWritten(prospect[p], work[r].seen[p], new)
  BY DecidedTable
<1>4. Holds(r, p) BY DEF Holds
<1>5. HeldRow(r, p) BY <1>2, <1>4 DEF ProspectInv
<1>6. /\ work[r].seen[p] = prospect[p] /\ Fits(work[r].mine[p])
      /\ HasLead(prospect[p]) /\ LeadsOf(p) = {prospect[p].lead} \ {Unknown}
  BY <1>2, <1>4 DEF SoloInv
<1>7. prospect[p].status # "converted" BY <1>5, <1>6 DEF HeldRow
<1>8. prospect[p].lead = Unknown BY <1>6, <1>7 DEF HasLead
<1>9. work[r].mine[p].lead = Unknown BY <1>5, <1>6, <1>8 DEF HeldRow
<1>10. RowWritten(prospect[p], work[r].seen[p], new) = new BY <1>1, <1>2, <1>6,
         WrittenRow
<1>11. Table(work[r])[p] = work[r].mine[p] BY <1>2, SoloTable DEF Loaded
<1>12. LeadsOf(p) = {} BY <1>6, <1>8
<1> QED BY <1>2, <1>3, <1>6, <1>9, <1>10, <1>11, <1>12

\* Requests that do not overlap work on rows as they are.
LEMMA SoloStep == ProspectInv /\ SoloInv /\ [ProspectNext]_prospectVars => SoloInv'
<1> SUFFICES ASSUME ProspectInv, SoloInv, [ProspectNext]_prospectVars
             PROVE  SoloInv' OBVIOUS
<1>1. ProspectTypes /\ prospect \in [Prospects -> ProspectRow]
      /\ made \in [LeadIds -> Prospects \cup {Unknown}] /\ crossed \in BOOLEAN
  BY DEF ProspectInv, ProspectTypes
<1>2. ~crossed => \A p \in Prospects :
        /\ LeadsOf(p) = {prospect[p].lead} \ {Unknown}
        /\ HasLead(prospect[p]) /\ Fits(prospect[p])
  BY DEF SoloInv
<1>3. ASSUME NEW r \in Requests,
             BeginRun(r) \/ BeginInbound(r) \/ BeginConversion(r) \/ BeginRejection(r)
      PROVE  SoloInv'
  <2>1. PICK t \in Transaction :
          /\ UNCHANGED <<prospect, made, joined>>
          /\ work' = [work EXCEPT ![r] = t]
          /\ crossed' = (crossed \/ \E q \in Requests : Busy(q))
          /\ DOMAIN t.mine \subseteq Prospects
          /\ \A p \in DOMAIN t.mine : t.seen[p] = prospect[p]
               /\ t.mine[p] = prospect[p]
    BY <1>3, BeginsWith
  <2>2. ~crossed' => ~crossed /\ \A q \in Requests : q # r => ~Busy(q) BY <2>1
  <2>3. ~crossed => \A p \in DOMAIN t.mine :
          t.seen[p] = prospect[p] /\ HasLead(t.mine[p]) /\ Fits(t.mine[p])
    BY <1>2, <2>1
  <2> QED BY <1>2, <2>1, <2>2, <2>3, SoloHands
<1>4. ASSUME NEW r \in Requests, TakeRecord(r) PROVE SoloInv'
  <2>1. PICK rest \in Transaction :
          /\ Busy(r)
          /\ rest.seen = work[r].seen /\ rest.mine = work[r].mine
          /\ UNCHANGED <<prospect, made, crossed>>
          /\ \/ work' = [work EXCEPT ![r] = rest]
             \/ \E p \in Prospects, row \in ProspectRow :
                  TakenRow(r, p, row) /\ work' = [work EXCEPT ![r] = Touch(rest, p,
                    row)]
    BY <1>4, TakesOne
  <2>2. ~crossed' => ~crossed /\ \A q \in Requests : q # r =>
          ~Busy(q) BY <2>1 DEF SoloInv
  <2>3. DOMAIN rest.seen = DOMAIN rest.mine /\ DOMAIN rest.mine \subseteq Prospects
    BY <1>1, <2>1, BusyIsTransaction
  <2>4. ASSUME ~crossed, NEW p \in DOMAIN rest.mine
        PROVE  rest.seen[p] = prospect[p] /\ HasLead(rest.mine[p])
                 /\ Fits(rest.mine[p])
    <3>1. Holds(r, p) BY <2>1 DEF Holds
    <3> QED BY <2>1, <2>3, <2>4, <3>1 DEF SoloInv
  <2>5. CASE work' = [work EXCEPT ![r] = rest]
    BY <1>2, <2>1, <2>2, <2>4, <2>5, SoloHands
  <2>6. ASSUME NEW p \in Prospects, NEW row \in ProspectRow, TakenRow(r, p, row),
               work' = [work EXCEPT ![r] = Touch(rest, p, row)]
        PROVE  SoloInv'
    <3> DEFINE t == Touch(rest, p, row)
    <3>1. /\ DOMAIN t.mine = DOMAIN rest.mine \cup {p}
          /\ t.mine[p] = row
          /\ t.seen[p] = IF p \in DOMAIN rest.mine THEN rest.seen[p] ELSE prospect[p]
          /\ \A q \in DOMAIN rest.mine : q # p =>
               t.mine[q] = rest.mine[q] /\ t.seen[q] = rest.seen[q]
      BY <1>1, <2>3, TouchedRows
    <3>2. work' = [work EXCEPT ![r] = t] BY <2>6
    <3> HIDE DEF t
    <3>3. ASSUME ~crossed PROVE HasLead(row) /\ Fits(row)
      <4>1. CASE Holds(r, p) \/ IsListed(p)
        <5>1. HasLead(Loaded(work[r], p)) /\ Fits(Loaded(work[r], p)) BY <2>1,
                <3>3, SoloTable
        <5>2. /\ row.lead = Loaded(work[r], p).lead /\ row.status = Loaded(work[r],
                   p).status
              /\ Fits(row)
          BY <2>6, <4>1, <5>1 DEF TakenRow, Holds
        <5> QED BY <5>1, <5>2 DEF HasLead
      <4>2. CASE ~Holds(r, p) /\ ~IsListed(p)
        BY <2>6, <4>2 DEF TakenRow, HasLead
      <4> QED BY <4>1, <4>2
    <3>4. ASSUME ~crossed, NEW q \in DOMAIN t.mine
          PROVE  t.seen[q] = prospect[q] /\ HasLead(t.mine[q]) /\ Fits(t.mine[q])
      <4>1. CASE q = p BY <2>4, <3>1, <3>3, <3>4, <4>1
      <4>2. CASE q # p
        <5>1. q \in DOMAIN rest.mine /\ t.mine[q] = rest.mine[q]
                /\ t.seen[q] = rest.seen[q]
          BY <3>1, <3>4, <4>2
        <5> QED BY <2>4, <3>4, <5>1
      <4> QED BY <4>1, <4>2
    <3> QED BY <1>2, <2>1, <2>2, <3>2, <3>4, SoloHands
  <2> QED BY <2>1, <2>5, <2>6
<1>5. ASSUME NEW r \in Requests, CommitRecords(r) PROVE SoloInv'
  <2>1. /\ work[r].kind \in {"run", "inbound"} /\ prospect' = Table(work[r])
        /\ work' = [work EXCEPT ![r] = NoWork] /\ UNCHANGED <<made, joined, crossed>>
    BY <1>5 DEF CommitRecords, End
  <2>2. Busy(r) BY <1>1, <2>1, BusyIsTransaction
  <2>3. ASSUME ~crossed, NEW p \in Prospects
        PROVE  /\ LeadsOf(p)' = {prospect'[p].lead} \ {Unknown}
               /\ HasLead(prospect'[p]) /\ Fits(prospect'[p])
    <3>1. /\ prospect'[p] = Loaded(work[r], p)
          /\ HasLead(Loaded(work[r], p)) /\ Fits(Loaded(work[r], p))
          /\ Loaded(work[r], p).lead = prospect[p].lead
      BY <2>1, <2>2, <2>3, SoloTable
    <3>2. LeadsOf(p)' = LeadsOf(p) BY <2>1 DEF LeadsOf
    <3> QED BY <1>2, <2>3, <3>1, <3>2
  <2> QED BY <2>1, <2>2, <2>3, SoloCommits
<1>6. ASSUME NEW r \in Requests, CommitProspectConversion(r) PROVE SoloInv'
  <2>1. PICK p \in DOMAIN work[r].mine, d \in LeadsOf(Unknown) :
          /\ work[r].kind = "convert" /\ made' = [made EXCEPT ![d] = p]
          /\ prospect' = Table(Touch(work[r], p, Converted(work[r].mine[p], d)))
          /\ work' = [work EXCEPT ![r] = NoWork] /\ UNCHANGED <<joined, crossed>>
    BY <1>6 DEF CommitProspectConversion, End, Converted
  <2>2. Busy(r) BY <1>1, <2>1, BusyIsTransaction
  <2>3. d \in LeadIds /\ made[d] = Unknown /\ d # Unknown
    BY ProspectAssumption DEF LeadsOf
  <2>4. p \in Prospects /\ p # Unknown /\ work[r].mine[p] \in ProspectRow
    BY <1>1, <2>2, BusyIsTransaction, ProspectAssumption
  <2> DEFINE new == Converted(work[r].mine[p], d)
  <2>5. /\ new \in ProspectRow /\ new.ext = work[r].mine[p].ext /\ NotNone(new)
        /\ Fits(work[r].mine[p]) => Fits(new)
        /\ new.status = "converted" /\ new.lead = d
    BY <2>3, <2>4, ConvertedRow
  <2>6. prospect' = Table(Touch(work[r], p, new)) BY <2>1
  <2> HIDE DEF new
  <2>7. ASSUME ~crossed, NEW q \in Prospects
        PROVE  /\ LeadsOf(q)' = {prospect'[q].lead} \ {Unknown}
               /\ HasLead(prospect'[q]) /\ Fits(prospect'[q])
    <3>1. /\ prospect'[p] = new /\ LeadsOf(p) = {} /\ Fits(work[r].mine[p])
          /\ \A o \in Prospects : o # p => prospect'[o] = Table(work[r])[o]
      BY <2>1, <2>2, <2>5, <2>6, <2>7, DecisionAlone
    <3>2. CASE q = p
      <4>1. LeadsOf(p)' = {d} BY <1>1, <2>1, <2>3, <3>1 DEF LeadsOf
      <4>2. HasLead(new) BY <2>3, <2>5 DEF HasLead
      <4> QED BY <2>3, <2>5, <3>1, <3>2, <4>1, <4>2
    <3>3. CASE q # p
      <4>1. LeadsOf(q)' = LeadsOf(q) BY <1>1, <2>1, <2>3, <2>7, <3>3,
              ProspectAssumption DEF LeadsOf
      <4>2. /\ prospect'[q] = Loaded(work[r], q)
            /\ HasLead(Loaded(work[r], q)) /\ Fits(Loaded(work[r], q))
            /\ Loaded(work[r], q).lead = prospect[q].lead
        BY <2>2, <2>7, <3>1, <3>3, SoloTable
      <4> QED BY <1>2, <2>7, <4>1, <4>2
    <3> QED BY <3>2, <3>3
  <2> QED BY <2>1, <2>2, <2>7, SoloCommits
<1>7. ASSUME NEW r \in Requests, CommitProspectRejection(r) PROVE SoloInv'
  <2>1. PICK p \in DOMAIN work[r].mine :
          /\ work[r].kind = "reject" /\ UNCHANGED made
          /\ prospect' = Table(Touch(work[r], p, Rejected(work[r].mine[p])))
          /\ work' = [work EXCEPT ![r] = NoWork] /\ UNCHANGED <<joined, crossed>>
    BY <1>7 DEF CommitProspectRejection, End, Rejected
  <2>2. Busy(r) BY <1>1, <2>1, BusyIsTransaction
  <2>3. p \in Prospects /\ work[r].mine[p] \in ProspectRow
    BY <1>1, <2>2, BusyIsTransaction
  <2> DEFINE new == Rejected(work[r].mine[p])
  <2>4. /\ new \in ProspectRow /\ new.ext = work[r].mine[p].ext /\ NotNone(new)
        /\ Fits(work[r].mine[p]) => Fits(new)
        /\ new.status = "rejected" /\ new.lead = work[r].mine[p].lead
    BY <2>3, RejectedRow
  <2>5. prospect' = Table(Touch(work[r], p, new)) BY <2>1
  <2> HIDE DEF new
  <2>6. ASSUME ~crossed, NEW q \in Prospects
        PROVE  /\ LeadsOf(q)' = {prospect'[q].lead} \ {Unknown}
               /\ HasLead(prospect'[q]) /\ Fits(prospect'[q])
    <3>1. /\ prospect'[p] = new /\ LeadsOf(p) = {} /\ Fits(work[r].mine[p])
          /\ work[r].mine[p].lead = Unknown
          /\ \A o \in Prospects : o # p => prospect'[o] = Table(work[r])[o]
      BY <2>1, <2>2, <2>4, <2>5, <2>6, DecisionAlone
    <3>2. LeadsOf(q)' = LeadsOf(q) BY <2>1 DEF LeadsOf
    <3>3. CASE q = p
      <4>1. HasLead(new) BY <2>4, <3>1 DEF HasLead
      <4> QED BY <2>4, <3>1, <3>2, <3>3, <4>1
    <3>4. CASE q # p
      <4>1. /\ prospect'[q] = Loaded(work[r], q)
            /\ HasLead(Loaded(work[r], q)) /\ Fits(Loaded(work[r], q))
            /\ Loaded(work[r], q).lead = prospect[q].lead
        BY <2>2, <2>6, <3>1, <3>4, SoloTable
      <4> QED BY <1>2, <2>6, <3>2, <4>1
    <3> QED BY <3>3, <3>4
  <2> QED BY <2>1, <2>2, <2>6, SoloCommits
<1>8. ASSUME NEW r \in Requests, Rollback(r) PROVE SoloInv'
  <2>1. Busy(r) /\ work' = [work EXCEPT ![r] = NoWork]
        /\ UNCHANGED <<prospect, made, joined, crossed>>
    BY <1>8 DEF Rollback, End
  <2>2. \A p \in Prospects : LeadsOf(p)' = LeadsOf(p) BY <2>1 DEF LeadsOf
  <2> QED BY <1>2, <2>1, <2>2, SoloCommits
<1>9. CASE UNCHANGED prospectVars
  <2>1. UNCHANGED <<prospect, made, work, crossed>> BY <1>9 DEF prospectVars
  <2>2. /\ \A r \in Requests : Busy(r)' <=> Busy(r)
        /\ \A r \in Requests, p \in Prospects : Holds(r, p)' <=> Holds(r, p)
        /\ \A p \in Prospects : LeadsOf(p)' = LeadsOf(p)
    BY <2>1 DEF Busy, Holds, LeadsOf
  <2> QED BY <2>1, <2>2 DEF SoloInv
<1> QED BY <1>3, <1>4, <1>5, <1>6, <1>7, <1>8, <1>9 DEF ProspectNext

\* One row that shares nothing with the others keeps people distinct.
LEMMA OneMore ==
  ASSUME NEW S, NEW T, NEW p \in Prospects, Distinct(T),
         \A q \in Prospects : q # p => S[q] = T[q],
         \A q \in Prospects : q # p =>
           /\ S[p].inn # Unknown => S[p].inn # T[q].inn
           /\ S[p].phone # Unknown => S[p].phone # T[q].phone
  PROVE  Distinct(S)
<1> SUFFICES ASSUME NEW q \in Prospects, NEW o \in Prospects, q # o
             PROVE  /\ S[q].inn # Unknown => S[q].inn # S[o].inn
                    /\ S[q].phone # Unknown => S[q].phone # S[o].phone
  BY DEF Distinct
<1>1. CASE q # p /\ o # p BY <1>1 DEF Distinct
<1>2. CASE q = p BY <1>2
<1>3. CASE o = p BY <1>3
<1> QED BY <1>1, <1>2, <1>3

\* Taking a record without overlaps changes one row of the table.
LEMMA TouchedTable ==
  ASSUME ProspectInv, SoloInv, ~crossed, NEW r \in Requests, Busy(r),
         NEW rest \in Transaction, rest.seen = work[r].seen, rest.mine = work[r].mine,
         NEW p \in Prospects, NEW row \in ProspectRow
  PROVE  LET S == Table(Touch(rest, p, row)) IN
         S[p] = row /\ \A q \in Prospects : q # p => S[q] = Table(work[r])[q]
<1> DEFINE t == Touch(rest, p, row)
<1>1. ProspectTypes /\ prospect \in [Prospects -> ProspectRow]
  BY DEF ProspectInv, ProspectTypes
<1>2. DOMAIN rest.seen = DOMAIN rest.mine /\ DOMAIN rest.mine \subseteq Prospects
  BY <1>1, BusyIsTransaction
<1>3. /\ DOMAIN t.mine = DOMAIN rest.mine \cup {p}
      /\ t.mine[p] = row
      /\ t.seen[p] = IF p \in DOMAIN rest.mine THEN rest.seen[p] ELSE prospect[p]
      /\ \A q \in DOMAIN rest.mine : q # p =>
           t.mine[q] = rest.mine[q] /\ t.seen[q] = rest.seen[q]
  BY <1>1, <1>2, TouchedRows
<1> HIDE DEF t
<1>4. t.seen[p] = prospect[p]
  <2>1. CASE p \in DOMAIN rest.mine
    <3>1. Holds(r, p) BY <2>1 DEF Holds
    <3> QED BY <1>3, <2>1, <3>1 DEF SoloInv
  <2>2. CASE p \notin DOMAIN rest.mine BY <1>3, <2>2
  <2> QED BY <2>1, <2>2
<1>5. Table(t)[p] = RowWritten(prospect[p], t.seen[p], row) BY <1>3 DEF Table
<1>6. Table(t)[p] = row
  <2>1. prospect[p] \in ProspectRow BY <1>1
  <2> QED BY <1>4, <1>5, <2>1, WrittenRow
<1>7. ASSUME NEW q \in Prospects, q # p PROVE Table(t)[q] = Table(work[r])[q]
  <2>1. CASE q \in DOMAIN rest.mine BY <1>3, <1>7, <2>1 DEF Table
  <2>2. CASE q \notin DOMAIN rest.mine BY <1>3, <1>7, <2>2 DEF Table
  <2> QED BY <2>1, <2>2
<1> QED BY <1>6, <1>7 DEF t

\* A record that names one known person, or none, keeps people distinct.
LEMMA PersonTakes ==
  ASSUME ProspectInv, SoloInv, NEW r \in Requests, TakeRecord(r),
         ~crossed, ~joined', Distinct(Table(work[r]))
  PROVE  Distinct(Table(work'[r]))
<1> DEFINE T == Table(work[r])
<1>1. work[r].kind \in {"run", "inbound"} BY DEF TakeRecord
<1>2. ProspectTypes /\ prospect \in [Prospects -> ProspectRow]
      /\ work \in [Requests -> Transaction \cup {NoWork}]
  BY DEF ProspectInv, ProspectTypes
<1>3. Busy(r) BY <1>1, <1>2, BusyIsTransaction
<1>4. PICK raw \in work[r].todo :
        LET rest == [work[r] EXCEPT !.todo = @ \ {raw}]
            found == Duplicates(work[r], raw)
        IN /\ \/ /\ Cardinality(found) = 1
                 /\ \E p \in found :
                     LET row == Merged(Loaded(work[r], p), raw) IN
                     work' = [work EXCEPT ![r] = Touch(rest, p,
                        IF work[r].kind = "inbound" THEN Rescored(row, raw) ELSE row)]
              \/ found = {}
                 /\ \E p \in Fresh : work' = [work EXCEPT ![r] = Touch(rest, p,
                      NewRow(raw))]
              \/ work' = [work EXCEPT ![r] = rest]
           /\ joined' = (joined \/ Cardinality(ByExt(work[r],
                raw) \cup ByInn(work[r], raw)
                                              \cup ByPhone(work[r], raw)) > 1)
  BY DEF TakeRecord
<1> DEFINE rest == [work[r] EXCEPT !.todo = @ \ {raw}]
           U == ByExt(work[r], raw) \cup ByInn(work[r], raw) \cup ByPhone(work[r],
             raw)
<1>5. /\ work[r] \in Transaction /\ raw \in Raws
  BY <1>2, <1>3, <1>4, BusyIsTransaction DEF Transaction
<1>6. rest \in Transaction /\ rest.seen = work[r].seen /\ rest.mine = work[r].mine
  BY <1>5 DEF Transaction
<1>7. ~(Cardinality(U) > 1) BY <1>4
<1>8. IsFiniteSet(U) /\ Cardinality(U) \in Nat
  <2>1. U \subseteq Prospects BY DEF ByExt, ByInn, ByPhone
  <2>2. IsFiniteSet(U) BY <2>1, ProspectAssumption, FS_Subset
  <2> QED BY <2>2, FS_CardinalityType
<1>9. \A p, q \in U : p = q
  <2> SUFFICES ASSUME NEW p \in U, NEW q \in U, p # q PROVE FALSE OBVIOUS
  <2>1. {p, q} \subseteq U OBVIOUS
  <2>2. Cardinality({p, q}) <= Cardinality(U) BY <1>8, <2>1, FS_Subset
  <2>3. IsFiniteSet({p}) /\ Cardinality({p}) = 1 BY FS_Singleton
  <2>4. Cardinality({p} \cup {q}) = Cardinality({p}) + 1 BY <2>3, FS_AddElement
  <2>5. {p} \cup {q} = {p, q} OBVIOUS
  <2> QED BY <1>7, <1>8, <2>2, <2>3, <2>4, <2>5
<1>10. \A q \in Prospects :
         /\ raw.inn # Unknown /\ T[q].inn = raw.inn => q \in U
         /\ raw.phone # Unknown /\ T[q].phone = raw.phone => q \in U
  BY DEF ByInn, ByPhone
<1>11. Duplicates(work[r], raw) \subseteq U /\ (Duplicates(work[r], raw) = {} =>
         U = {})
  BY DEF Duplicates
<1> HIDE DEF U
<1>12. ASSUME NEW p \in Duplicates(work[r], raw),
              work' = [work EXCEPT ![r] = Touch(rest, p,
                 IF work[r].kind = "inbound"
                 THEN Rescored(Merged(Loaded(work[r], p), raw), raw)
                 ELSE Merged(Loaded(work[r], p), raw))]
       PROVE  Distinct(Table(work'[r]))
  <2> DEFINE old == Loaded(work[r], p)
             row == Merged(old, raw)
             new == IF work[r].kind = "inbound" THEN Rescored(row, raw) ELSE row
  <2>1. p \in U BY <1>11
  <2>2. p \in Prospects BY <2>1 DEF U, ByExt, ByInn, ByPhone
  <2>3. T[p] = old BY <1>3, <2>2, SoloTable
  <2>4. old \in ProspectRow BY <1>3, <2>2, <2>3, TableRow
  <2> HIDE DEF old
  <2>5. row \in ProspectRow /\ row.inn = Filled(old.inn, raw.inn)
        /\ row.phone = Filled(old.phone, raw.phone)
    BY <1>5, <2>4, MergedRow
  <2> HIDE DEF row
  <2>6. new \in ProspectRow /\ new.inn = row.inn /\ new.phone = row.phone
    <3>1. CASE work[r].kind = "inbound" BY <1>5, <2>5, <3>1, RescoredRow
    <3>2. CASE work[r].kind # "inbound" BY <2>5, <3>2
    <3> QED BY <3>1, <3>2
  <2>7. work'[r] = Touch(rest, p, new) BY <1>2, <1>12 DEF row, old
  <2> HIDE DEF new, rest
  <2>8. LET S == Table(Touch(rest, p, new)) IN
        S[p] = new /\ \A q \in Prospects : q # p => S[q] = T[q]
    BY <1>3, <1>6, <2>2, <2>6, TouchedTable
  <2>9. \A q \in Prospects : q # p => q \notin U BY <1>9, <2>1
  <2> DEFINE S == Table(Touch(rest, p, new))
  <2>10. S[p].inn = Filled(T[p].inn, raw.inn) /\ S[p].phone = Filled(T[p].phone,
           raw.phone)
    BY <2>3, <2>5, <2>6, <2>8
  <2>11. \A q \in Prospects : q # p => S[q] = T[q] BY <2>8
  <2>12. Distinct(T) OBVIOUS
  <2> HIDE DEF S, T
  <2>13. ASSUME NEW q \in Prospects, q # p
         PROVE  /\ S[p].inn # Unknown => S[p].inn # T[q].inn
                /\ S[p].phone # Unknown => S[p].phone # T[q].phone
    <3>1. q \notin U BY <2>9, <2>13
    <3>2. /\ T[p].inn # Unknown => T[p].inn # T[q].inn
          /\ T[p].phone # Unknown => T[p].phone # T[q].phone
      BY <2>2, <2>12, <2>13 DEF Distinct
    <3> QED BY <1>10, <2>10, <2>13, <3>1, <3>2 DEF Filled
  <2>14. Distinct(S) BY <2>2, <2>11, <2>12, <2>13, OneMore
  <2> QED BY <2>7, <2>14 DEF S
<1>13. ASSUME Duplicates(work[r], raw) = {}, NEW p \in Fresh,
              work' = [work EXCEPT ![r] = Touch(rest, p, NewRow(raw))]
       PROVE  Distinct(Table(work'[r]))
  <2>1. p \in Prospects BY DEF Fresh
  <2>2. NewRow(raw) \in ProspectRow /\ NewRow(raw).inn = raw.inn
          /\ NewRow(raw).phone = raw.phone
    BY <1>5, FreshRow
  <2>3. work'[r] = Touch(rest, p, NewRow(raw)) BY <1>2, <1>13
  <2> HIDE DEF rest
  <2>4. LET S == Table(Touch(rest, p, NewRow(raw))) IN
        S[p] = NewRow(raw) /\ \A q \in Prospects : q # p => S[q] = T[q]
    BY <1>3, <1>6, <2>1, <2>2, TouchedTable
  <2>5. \A q \in Prospects :
          (raw.inn # Unknown => raw.inn # T[q].inn) /\ (raw.phone # Unknown =>
            raw.phone # T[q].phone)
    BY <1>10, <1>11, <1>13
  <2> DEFINE S == Table(Touch(rest, p, NewRow(raw)))
  <2>6. Distinct(T) /\ S[p].inn = raw.inn /\ S[p].phone = raw.phone
        /\ \A q \in Prospects : q # p => S[q] = T[q]
    BY <2>2, <2>4
  <2> HIDE DEF S, T
  <2>7. Distinct(S) BY <2>1, <2>5, <2>6, OneMore
  <2> QED BY <2>3, <2>7 DEF S
<1>14. ASSUME work' = [work EXCEPT ![r] = rest] PROVE Distinct(Table(work'[r]))
  <2>1. work'[r] = rest BY <1>2, <1>14
  <2> HIDE DEF rest
  <2>2. Table(rest) = Table(work[r]) BY <1>6 DEF Table
  <2> QED BY <2>1, <2>2
<1> QED BY <1>4, <1>12, <1>13, <1>14

\* Requests that do not overlap, and records that name one person, keep people
\* apart.
LEMMA PersonStep ==
  ProspectInv /\ SoloInv /\ PersonInv /\ [ProspectNext]_prospectVars => PersonInv'
<1> SUFFICES ASSUME ProspectInv, SoloInv, PersonInv, [ProspectNext]_prospectVars,
                    ~crossed', ~joined'
             PROVE  Distinct(prospect') /\ \A r \in Requests : Busy(r)' =>
                      Distinct(Table(work[r]))'
  BY DEF PersonInv
<1>1. ProspectTypes /\ prospect \in [Prospects -> ProspectRow]
      /\ work \in [Requests -> Transaction \cup {NoWork}]
  BY DEF ProspectInv, ProspectTypes
<1>2. ~crossed /\ ~joined => /\ Distinct(prospect)
                             /\ \A r \in Requests : Busy(r) =>
                                  Distinct(Table(work[r]))
  BY DEF PersonInv
<1>3. ASSUME NEW r \in Requests, ~crossed, ~joined, UNCHANGED prospect,
             \A q \in Requests : q # r => ~Busy(q), NEW t,
               work' = [work EXCEPT ![r] = t],
             Distinct(Table(t))
      PROVE  Distinct(prospect') /\ \A q \in Requests : Busy(q)' =>
               Distinct(Table(work[q]))'
  <2>1. work'[r] = t /\ \A q \in Requests : q # r => work'[q] = work[q] BY <1>1, <1>3
  <2>2. ASSUME NEW q \in Requests, Busy(q)' PROVE Distinct(Table(work[q]))'
    <3>1. q = r BY <1>3, <2>1, <2>2 DEF Busy
    <3>2. Table(work[q])' = Table(t) BY <1>3, <2>1, <3>1 DEF Table
    <3> QED BY <1>3, <3>2 DEF Distinct
  <2> QED BY <1>2, <1>3, <2>2
<1>4. ASSUME NEW r \in Requests, Busy(r), ~crossed, ~joined, crossed' = crossed,
             work' = [work EXCEPT ![r] = NoWork], Distinct(prospect')
      PROVE  Distinct(prospect') /\ \A q \in Requests : Busy(q)' =>
               Distinct(Table(work[q]))'
  <2>1. \A q \in Requests : ~Busy(q)'
    <3>1. \A q \in Requests : q # r => ~Busy(q) BY <1>4 DEF SoloInv
    <3> QED BY <1>1, <1>4, <3>1 DEF Busy
  <2> QED BY <1>4, <2>1
<1>5. ASSUME NEW r \in Requests,
             BeginRun(r) \/ BeginInbound(r) \/ BeginConversion(r) \/ BeginRejection(r)
      PROVE  Distinct(prospect') /\ \A q \in Requests : Busy(q)' =>
               Distinct(Table(work[q]))'
  <2>1. PICK t \in Transaction :
          /\ UNCHANGED <<prospect, made, joined>>
          /\ work' = [work EXCEPT ![r] = t]
          /\ crossed' = (crossed \/ \E q \in Requests : Busy(q))
          /\ DOMAIN t.mine \subseteq Prospects
          /\ \A p \in DOMAIN t.mine : t.seen[p] = prospect[p]
               /\ t.mine[p] = prospect[p]
    BY <1>5, BeginsWith
  <2>2. ~crossed /\ ~joined /\ \A q \in Requests : ~Busy(q) BY <2>1
  <2>3. ASSUME NEW p \in Prospects PROVE Table(t)[p] = prospect[p]
    <3>1. CASE p \in DOMAIN t.mine
      <4>1. Table(t)[p] = RowWritten(prospect[p], prospect[p], prospect[p])
        BY <2>1, <3>1 DEF Table
      <4>2. prospect[p] \in ProspectRow BY <1>1
      <4> QED BY <4>1, <4>2, WrittenRow
    <3>2. CASE p \notin DOMAIN t.mine BY <3>2 DEF Table
    <3> QED BY <3>1, <3>2
  <2>4. Distinct(Table(t)) BY <1>2, <2>2, <2>3, SamePeople
  <2> QED BY <1>3, <2>1, <2>2, <2>4
<1>6. ASSUME NEW r \in Requests, TakeRecord(r)
      PROVE  Distinct(prospect') /\ \A q \in Requests : Busy(q)' =>
               Distinct(Table(work[q]))'
  <2>1. PICK t :
          /\ Busy(r) /\ UNCHANGED <<prospect, crossed>>
               /\ work' = [work EXCEPT ![r] = t]
    BY <1>6, TakesOne
  <2>2. ~joined
    <3>1. \E raw \in work[r].todo :
            joined' = (joined \/ Cardinality(ByExt(work[r],
              raw) \cup ByInn(work[r], raw)
                                              \cup ByPhone(work[r], raw)) > 1)
      BY <1>6 DEF TakeRecord
    <3> QED BY <3>1
  <2>3. ~crossed /\ \A q \in Requests : q # r => ~Busy(q) BY <2>1 DEF SoloInv
  <2>4. work'[r] = t BY <1>1, <2>1
  <2>5. Distinct(Table(work'[r])) BY <1>2, <1>6, <2>1, <2>2, <2>3, PersonTakes
  <2> QED BY <1>3, <2>1, <2>2, <2>3, <2>4, <2>5
<1>7. ASSUME NEW r \in Requests, CommitRecords(r)
      PROVE  Distinct(prospect') /\ \A q \in Requests : Busy(q)' =>
               Distinct(Table(work[q]))'
  <2>1. /\ work[r].kind \in {"run", "inbound"} /\ prospect' = Table(work[r])
        /\ work' = [work EXCEPT ![r] = NoWork] /\ UNCHANGED <<made, joined, crossed>>
    BY <1>7 DEF CommitRecords, End
  <2>2. Busy(r) BY <1>1, <2>1, BusyIsTransaction
  <2>3. Distinct(prospect') BY <1>2, <2>1, <2>2
  <2> QED BY <1>4, <2>1, <2>2, <2>3
<1>8. ASSUME NEW r \in Requests, work[r].kind \in {"convert", "reject"},
             work' = [work EXCEPT ![r] = NoWork], UNCHANGED <<joined, crossed>>,
             NEW p \in DOMAIN work[r].mine, NEW new \in ProspectRow,
             new.ext = work[r].mine[p].ext, NotNone(new),
             new.inn = work[r].mine[p].inn, new.phone = work[r].mine[p].phone,
             prospect' = Table(Touch(work[r], p, new))
      PROVE  Distinct(prospect') /\ \A q \in Requests : Busy(q)' =>
               Distinct(Table(work[q]))'
  <2>1. Busy(r) /\ ~crossed /\ ~joined BY <1>1, <1>8, BusyIsTransaction
  <2>2. /\ prospect'[p] = new /\ Table(work[r])[p] = work[r].mine[p]
        /\ \A q \in Prospects : q # p => prospect'[q] = Table(work[r])[q]
    BY <1>8, <2>1, DecisionAlone
  <2>3. \A q \in Prospects : /\ prospect'[q].inn = Table(work[r])[q].inn
                             /\ prospect'[q].phone = Table(work[r])[q].phone
    BY <1>8, <2>2
  <2>4. Distinct(Table(work[r])) BY <1>2, <2>1
  <2>5. Distinct(prospect') BY <2>3, <2>4, SamePeople
  <2> QED BY <1>4, <1>8, <2>1, <2>5
<1>9. ASSUME NEW r \in Requests, CommitProspectConversion(r)
      PROVE  Distinct(prospect') /\ \A q \in Requests : Busy(q)' =>
               Distinct(Table(work[q]))'
  <2>1. PICK p \in DOMAIN work[r].mine, d \in LeadsOf(Unknown) :
          /\ work[r].kind = "convert"
          /\ prospect' = Table(Touch(work[r], p, Converted(work[r].mine[p], d)))
          /\ work' = [work EXCEPT ![r] = NoWork] /\ UNCHANGED <<joined, crossed>>
    BY <1>9 DEF CommitProspectConversion, End, Converted
  <2>2. Busy(r) BY <1>1, <2>1, BusyIsTransaction
  <2>3. work[r].mine[p] \in ProspectRow BY <1>1, <2>2, BusyIsTransaction
  <2>4. d \in LeadIds BY DEF LeadsOf
  <2> DEFINE new == Converted(work[r].mine[p], d)
  <2>5. /\ new \in ProspectRow /\ new.ext = work[r].mine[p].ext /\ NotNone(new)
        /\ new.inn = work[r].mine[p].inn /\ new.phone = work[r].mine[p].phone
    BY <2>3, <2>4, ConvertedRow
  <2>6. prospect' = Table(Touch(work[r], p, new)) BY <2>1
  <2> HIDE DEF new
  <2> QED BY <1>8, <2>1, <2>5, <2>6
<1>10. ASSUME NEW r \in Requests, CommitProspectRejection(r)
       PROVE  Distinct(prospect') /\ \A q \in Requests : Busy(q)' =>
                Distinct(Table(work[q]))'
  <2>1. PICK p \in DOMAIN work[r].mine :
          /\ work[r].kind = "reject"
          /\ prospect' = Table(Touch(work[r], p, Rejected(work[r].mine[p])))
          /\ work' = [work EXCEPT ![r] = NoWork] /\ UNCHANGED <<joined, crossed>>
    BY <1>10 DEF CommitProspectRejection, End, Rejected
  <2>2. Busy(r) BY <1>1, <2>1, BusyIsTransaction
  <2>3. work[r].mine[p] \in ProspectRow BY <1>1, <2>2, BusyIsTransaction
  <2> DEFINE new == Rejected(work[r].mine[p])
  <2>4. /\ new \in ProspectRow /\ new.ext = work[r].mine[p].ext /\ NotNone(new)
        /\ new.inn = work[r].mine[p].inn /\ new.phone = work[r].mine[p].phone
    BY <2>3, RejectedRow
  <2>5. prospect' = Table(Touch(work[r], p, new)) BY <2>1
  <2> HIDE DEF new
  <2> QED BY <1>8, <2>1, <2>4, <2>5
<1>11. ASSUME NEW r \in Requests, Rollback(r)
       PROVE  Distinct(prospect') /\ \A q \in Requests : Busy(q)' =>
                Distinct(Table(work[q]))'
  <2>1. Busy(r) /\ work' = [work EXCEPT ![r] = NoWork]
        /\ UNCHANGED <<prospect, made, joined, crossed>>
    BY <1>11 DEF Rollback, End
  <2> QED BY <1>2, <1>4, <2>1
<1>12. CASE UNCHANGED prospectVars
  <2>1. UNCHANGED <<prospect, work, crossed, joined>> BY <1>12 DEF prospectVars
  <2>2. ASSUME NEW q \in Requests, Busy(q)' PROVE Distinct(Table(work[q]))'
    <3>1. Busy(q) /\ Table(work[q])' = Table(work[q]) BY <2>1, <2>2 DEF Busy, Table
    <3> QED BY <1>2, <2>1, <3>1 DEF Distinct
  <2> QED BY <1>2, <2>1, <2>2
<1> QED BY <1>5, <1>6, <1>7, <1>9, <1>10, <1>11, <1>12 DEF ProspectNext

\* Whatever overlaps, rows keep their ids and leads; without overlaps they are
\* as the requests have left them, and people are kept apart.
THEOREM ProspectInvariance == ProspectSpec => [](ProspectInv /\ SoloInv /\ PersonInv)
<1>1. ProspectInit => ProspectInv /\ SoloInv /\ PersonInv
  <2> SUFFICES ASSUME ProspectInit PROVE ProspectInv /\ SoloInv /\ PersonInv OBVIOUS
  <2>1. \A r \in Requests : ~Busy(r) BY DEF ProspectInit, Busy
  <2>2. \A p \in Prospects : prospect[p] = NoProspect BY DEF ProspectInit
  <2>3. \A p \in Prospects : ~IsListed(p) /\ LeadsOf(p) = {}
    BY <2>2, ProspectAssumption DEF ProspectInit, IsListed, NoProspect, LeadsOf
  <2>4. NoProspect \in ProspectRow BY DEF NoProspect, ProspectRow
  <2>5. HasLead(NoProspect) /\ Fits(NoProspect)
        /\ NoProspect.lead = Unknown /\ NoProspect.ext = Unknown
        /\ NoProspect.inn = Unknown /\ NoProspect.phone = Unknown
    BY DEF HasLead, Fits, NoProspect, Temperature
  <2>6. ProspectTypes
    <3>1. prospect \in [Prospects -> ProspectRow] BY <2>4 DEF ProspectInit
    <3>2. made \in [LeadIds -> Prospects \cup {Unknown}] BY DEF ProspectInit
    <3>3. work \in [Requests -> Transaction \cup {NoWork}] BY DEF ProspectInit
    <3>4. crossed \in BOOLEAN /\ joined \in BOOLEAN BY DEF ProspectInit
    <3> QED BY <2>1, <3>1, <3>2, <3>3, <3>4 DEF ProspectTypes
  <2>7. ProspectInv
    <3>1. \A p \in Prospects : BlankRow(p) /\ OneLead(p)
      BY <2>2, <2>3, <2>5 DEF BlankRow, OneLead
    <3> QED BY <2>1, <2>6, <3>1 DEF ProspectInv, Holds
  <2>8. SoloInv
    <3>1. \A p \in Prospects : LeadsOf(p) = {prospect[p].lead} \ {Unknown}
      BY <2>2, <2>3, <2>5
    <3> QED BY <2>1, <2>2, <2>5, <3>1 DEF SoloInv, Holds
  <2>9. PersonInv BY <2>1, <2>2, <2>5 DEF PersonInv, Distinct
  <2> QED BY <2>7, <2>8, <2>9
<1>2. ProspectInv /\ SoloInv /\ PersonInv /\ [ProspectNext]_prospectVars
        => (ProspectInv /\ SoloInv /\ PersonInv)'
  BY ProspectStep, SoloStep, PersonStep
<1> QED BY <1>1, <1>2, PTL DEF ProspectSpec

\* Prospects, their scores and the leads made of them agree: the two ways of
\* counting conversions give one number, unless requests overlap.
THEOREM ProspectsStaySound == ProspectSpec => []ProspectsAreSound
<1>1. ProspectInv /\ SoloInv => ProspectsAreSound
  <2> SUFFICES ASSUME ProspectInv, SoloInv PROVE ProspectsAreSound OBVIOUS
  <2>1. ProspectTypes BY DEF ProspectInv
  <2>2. ASSUME NEW p \in Prospects
        PROVE  /\ prospect[p].status \in {"none", "new", "converted", "rejected"}
               /\ prospect[p].lead \in LeadIds \cup {Unknown}
               /\ prospect[p].temp \in {"hot", "warm", "cold"}
               /\ ~IsListed(p) => prospect[p] = NoProspect
    <3>1. prospect[p] \in ProspectRow BY <2>1 DEF ProspectTypes
    <3>2. BlankRow(p) BY DEF ProspectInv
    <3> QED BY <3>1, <3>2 DEF ProspectRow, BlankRow
  <2>3. ProspectTypeOK BY <2>1, <2>2 DEF ProspectTypeOK, ProspectTypes
  <2>4. LeadsComeFromProspects BY DEF ProspectInv, OneLead, LeadsComeFromProspects
  <2>5. ConvertedHasOneLead BY DEF SoloInv, HasLead, ConvertedHasOneLead
  <2>6. TemperatureFitsScore BY DEF SoloInv, Fits, TemperatureFitsScore
  <2> QED BY <2>3, <2>4, <2>5, <2>6 DEF ProspectsAreSound
<1> QED BY <1>1, ProspectInvariance, PTL

\* Two rows share an INN or a phone only after requests overlapped or a record
\* named two known people.
THEOREM PeopleStayApart == ProspectSpec => []OneRowPerPerson
<1>1. PersonInv => OneRowPerPerson BY DEF PersonInv, Distinct, OneRowPerPerson
<1> QED BY <1>1, ProspectInvariance, PTL
=============================================================================
