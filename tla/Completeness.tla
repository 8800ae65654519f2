---------------------------- MODULE Completeness ----------------------------
(***************************************************************************)
(* The document checklist of one case                                      *)
(* (backend/app/services/completeness/checker.py and matcher.py).          *)
(*                                                                         *)
(* Lawyers initialise the checklist and review its items, clients attach   *)
(* documents, and auto-match attaches the documents whose type or file     *)
(* name fits an item.  Every request loads rows, decides on what it has    *)
(* loaded, and commits later the columns it has changed; no row is locked. *)
(***************************************************************************)
EXTENDS Sessions, Naturals, FiniteSets

CONSTANTS
  Items,       \* items of the checklist
  Documents,   \* documents the case may come to have
  Reviewers,   \* users who review
  ByType,      \* item each document's type names, or NoItem
  ByName,      \* items each document's file name resembles
  NoItem, NoDocument, NoReviewer

ASSUME CompletenessAssumption ==
  /\ NoItem \notin Items
  /\ NoDocument \notin Documents
  /\ NoReviewer \notin Reviewers
  /\ ByType \in [Documents -> Items \cup {NoItem}]
  /\ ByName \in [Documents -> SUBSET Items]

VARIABLES
  documents,   \* committed documents of the case
  items,       \* items that have a row
  row,         \* the committed row of each item
  phase,       \* where each request stands
  listed,      \* documents an auto-match has listed
  edits,       \* rows a request has loaded and changed: [item, old, new]
  reviewed     \* history: items that were committed in status "review"

requestVars == <<phase, listed, edits>>
checklistVars        == <<documents, items, row, requestVars, reviewed>>

ItemStatus ==
  {"missing", "uploaded", "review", "approved", "rejected", "waived"}

Row == [status   : ItemStatus,
        document : Documents \cup {NoDocument},
        method   : {"manual", "auto"},
        reviewer : Reviewers \cup {NoReviewer}]

Edit == [item : Items, old : Row, new : Row]

PhaseName == {"idle", "creating", "updating", "listed", "matching"}

ChecklistTypeOK ==
  /\ documents \subseteq Documents
  /\ items \subseteq Items
  /\ row \in [Items -> Row]
  /\ phase \in [Requests -> PhaseName]
  /\ listed \in [Requests -> SUBSET Documents]
  /\ edits \in [Requests -> SUBSET Edit]
  /\ reviewed \subseteq Items

NewRow == [status |-> "missing", document |-> NoDocument,
           method |-> "manual", reviewer |-> NoReviewer]

ChecklistInit ==
  /\ documents = {}
  /\ items = {}
  /\ row = [i \in Items |-> NewRow]
  /\ phase = [r \in Requests |-> "idle"]
  /\ listed = [r \in Requests |-> {}]
  /\ edits = [r \in Requests |-> {}]
  /\ reviewed = {}

EndRequest(r) ==
  /\ phase' = [phase EXCEPT ![r] = "idle"]
  /\ listed' = [listed EXCEPT ![r] = {}]
  /\ edits' = [edits EXCEPT ![r] = {}]

-----------------------------------------------------------------------------
(* POST /completeness/init                                                 *)

\* The rows that exist are read.  (When none is missing nothing is written.)
ReadChecklist(r) ==
  /\ phase[r] = "idle"
  /\ items # Items
  /\ phase' = [phase EXCEPT ![r] = "creating"]
  /\ edits' = [edits EXCEPT ![r] =
       {[item |-> i, old |-> NewRow, new |-> NewRow] : i \in Items \ items}]
  /\ UNCHANGED <<documents, items, row, listed, reviewed>>

Creates(r) == {e.item : e \in edits[r]}

\* The missing rows are inserted together; a row inserted meanwhile breaks
\* the unique constraint, and the request is rolled back.
CreateItems(r) ==
  /\ phase[r] = "creating"
  /\ IF Creates(r) \cap items = {}
       THEN /\ items' = items \cup Creates(r)
            /\ row' = [i \in Items |->
                         IF i \in Creates(r) THEN NewRow ELSE row[i]]
       ELSE UNCHANGED <<items, row>>
  /\ EndRequest(r)
  /\ UNCHANGED <<documents, reviewed>>

-----------------------------------------------------------------------------
(* PATCH /completeness/items/{id}                                          *)

Targets == [s \in ItemStatus |->
  CASE s = "missing"  -> {"uploaded", "waived"}
    [] s = "uploaded" -> {"review", "missing", "waived"}
    [] s = "review"   -> {"approved", "rejected", "waived"}
    [] s = "approved" -> {}
    [] s = "rejected" -> {"uploaded", "waived"}
    [] s = "waived"   -> {"missing"}]

\* Mutant: what is uploaded may be approved at once.
SkipsReview(from, to) ==
  to \in Targets[from] \/ (from = "uploaded" /\ to = "approved")

ValidTransition(from, to) == to \in Targets[from]

ReviewerFor(to, u) ==
  IF to \in {"approved", "rejected"} THEN u ELSE NoReviewer

\* The row as the handler leaves it.  "missing" with a document means
\* "uploaded, by hand".
Updated(old, to, d, u) ==
  LET binds == d # NoDocument /\ to = "missing" IN
    [status   |-> IF binds THEN "uploaded" ELSE to,
     document |-> IF d = NoDocument THEN old.document ELSE d,
     method   |-> IF binds THEN "manual" ELSE old.method,
     reviewer |-> ReviewerFor(to, u)]

UpdateItem(r, i, to, d, u) ==
  /\ phase[r] = "idle"
  /\ i \in items
  /\ ValidTransition(row[i].status, to)
  /\ d \in documents \cup {NoDocument}
  /\ phase' = [phase EXCEPT ![r] = "updating"]
  /\ edits' = [edits EXCEPT ![r] =
       {[item |-> i, old |-> row[i], new |-> Updated(row[i], to, d, u)]}]
  /\ UNCHANGED <<documents, items, row, listed, reviewed>>

-----------------------------------------------------------------------------
(* POST /completeness/auto-match                                           *)

ListDocuments(r) ==
  /\ phase[r] = "idle"
  /\ documents # {}
  /\ phase' = [phase EXCEPT ![r] = "listed"]
  /\ listed' = [listed EXCEPT ![r] = documents]
  /\ UNCHANGED <<documents, items, row, edits, reviewed>>

\* Mutant: items that already have a document are not left out.
TakesAnyItem == items

\* Items without a document: the others are in existing_matches.
Unmatched == {i \in items : row[i].document = NoDocument}

Pair == [document : Documents, item : Items]

\* First every free item whose type some document has takes one of those
\* documents; then the other documents take free items their names resemble,
\* in some order, until none can.  The documents come in no fixed order.
IsMatching(byType, byName, docs, free) ==
  LET all == byType \cup byName IN
    /\ \A p \in byType : p.item = ByType[p.document]
    /\ \A p \in byName : p.item \in ByName[p.document]
    /\ \A p, q \in all :
         (p.item = q.item \/ p.document = q.document) => p = q
    /\ \A i \in free, d \in docs :
         ByType[d] = i => \E p \in byType : p.item = i
    /\ \A i \in free, d \in docs :
         i \in ByName[d] => \E p \in all : p.item = i \/ p.document = d

Matchings(docs, free) ==
  LET pairs == {p \in Pair : p.document \in docs /\ p.item \in free} IN
    {m \in SUBSET pairs : \E byType \in SUBSET m :
       IsMatching(byType, m \ byType, docs, free)}

Matched(old, d) ==
  [old EXCEPT !.document = d, !.method = "auto", !.status = "uploaded"]

\* The rows are loaded and the matches applied to them.
MatchItems(r) ==
  /\ phase[r] = "listed"
  /\ \E m \in Matchings(listed[r], Unmatched) :
       IF m = {}
         THEN EndRequest(r)
         ELSE /\ phase' = [phase EXCEPT ![r] = "matching"]
              /\ listed' = [listed EXCEPT ![r] = {}]
              /\ edits' = [edits EXCEPT ![r] =
                   {[item |-> p.item, old |-> row[p.item],
                     new |-> Matched(row[p.item], p.document)] : p \in m}]
  /\ UNCHANGED <<documents, items, row, reviewed>>

-----------------------------------------------------------------------------
\* A commit writes the columns that the request has changed, over whatever
\* the row holds by then.
Merge(current, old, new) ==
  [column \in DOMAIN current |->
     IF new[column] # old[column] THEN new[column] ELSE current[column]]

CommitEdits(r) ==
  /\ phase[r] \in {"updating", "matching"}
  /\ row' = [i \in Items |->
       IF \E e \in edits[r] : e.item = i
         THEN LET e == CHOOSE e \in edits[r] : e.item = i
              IN  Merge(row[i], e.old, e.new)
         ELSE row[i]]
  /\ reviewed' = reviewed \cup {i \in Items : row'[i].status = "review"}
  /\ EndRequest(r)
  /\ UNCHANGED <<documents, items>>

\* The handler dies or its commit fails.
AbortRequest(r) ==
  /\ phase[r] # "idle"
  /\ EndRequest(r)
  /\ UNCHANGED <<documents, items, row, reviewed>>

\* A document of the case is uploaded (and committed).
AddDocument(d) ==
  /\ d \notin documents
  /\ documents' = documents \cup {d}
  /\ UNCHANGED <<items, row, requestVars, reviewed>>

RequestStep(r) ==
  \/ ReadChecklist(r)
  \/ CreateItems(r)
  \/ \E i \in Items, to \in ItemStatus, d \in Documents \cup {NoDocument},
        u \in Reviewers : UpdateItem(r, i, to, d, u)
  \/ ListDocuments(r)
  \/ MatchItems(r)
  \/ CommitEdits(r)
  \/ AbortRequest(r)

ChecklistNext ==
  \/ \E r \in Requests : RequestStep(r)
  \/ \E d \in Documents : AddDocument(d)

ChecklistSpec == ChecklistInit /\ [][ChecklistNext]_checklistVars

-----------------------------------------------------------------------------
(* Properties                                                              *)

\* Human in the loop: whatever requests overtake each other, an item is
\* approved only if it was in review before.
ApprovedWasReviewed ==
  \A i \in items : row[i].status = "approved" => i \in reviewed

\* What auto-match has attached stays attached to something: no overlap of
\* requests leaves an item matched automatically without a document.
AutoMatchedHasDocument ==
  \A i \in items : row[i].method = "auto" => row[i].document # NoDocument

\* With one request at a time auto-match never replaces the document of an
\* item, not even when a lawyer has just attached it by hand.
AutoMatchKeepsLinks ==
  [][\A r \in Requests, i \in items :
       /\ phase[r] = "matching" /\ phase'[r] = "idle"
       /\ row[i].document # NoDocument
       => row'[i].document = row[i].document]_checklistVars
=============================================================================
