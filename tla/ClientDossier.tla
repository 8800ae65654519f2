--------------------------- MODULE ClientDossier ---------------------------
(* What a client is shown of its one case: how far it has come, and which  *)
(* documents are missing (api/v1/client_cabinet.py), beside what staff are *)
(* shown of it (api/v1/cases.py).                                          *)
EXTENDS RequiredDocuments, CaseMachine, Sequences

CONSTANTS
  Files,         \* documents that get uploaded
  Held,          \* types of which a validated document is there from the start
  Offered,       \* names of types that uploads give
  NoFile

VARIABLES
  caseStatus,    \* the status of the case
  marital, employed, \* of the client, as far as known
  creditors,     \* how many creditors the case has
  file           \* per uploaded document its type and status

dossierVars == <<caseStatus, marital, employed, creditors, file>>

MaxCreditors == 1

\* Mutant: a stage that came later is listed last.
ListedLast ==
  <<"lead", "qualification", "consultation", "contract_signing", "document_collection",
    "application_preparation", "application_filed", "court_accepted", "hearing_scheduled",
    "procedure_started", "creditors_registry", "creditors_meeting", "asset_realization",
    "restructuring", "fu_report", "completion", "debt_discharged", "document_review">>
\* The statuses of STAGE_INFO; on_hold and settlement are not among them.
StatusOrder ==
  <<"lead", "qualification", "consultation", "contract_signing", "document_collection",
    "document_review", "application_preparation", "application_filed", "court_accepted",
    "hearing_scheduled", "procedure_started", "creditors_registry", "creditors_meeting",
    "asset_realization", "restructuring", "fu_report", "completion", "debt_discharged">>

DocumentTypes == Base \cup Process \cup {"marriage_cert", "divorce_cert", "egrn_extract",
  "vehicle_title", "unemployment_cert", "credit_contract", "payment_schedule", "other"}

DossierInit ==
  /\ caseStatus = "lead"
  /\ marital \in {"unknown", "married", "divorced"} /\ employed \in {"unknown", "yes", "no"}
  /\ creditors = 0
  /\ file = [f \in Files |-> NoFile]

\* Staff, or a paid invoice, move the case.
MoveCase ==
  /\ \E s \in AvailableTransitions(caseStatus) : caseStatus' = s
  /\ UNCHANGED <<marital, employed, creditors, file>>

AddCreditor ==
  /\ creditors < MaxCreditors
  /\ creditors' = creditors + 1
  /\ UNCHANGED <<caseStatus, marital, employed, file>>

\* DocumentType(name), or "other".
TypeOf(name) == IF name \in DocumentTypes THEN name ELSE "other"

\* A case that is over for good takes no more.
CabinetOpen == caseStatus \notin {"rejected", "cancelled"}

Upload(f, name) ==
  /\ CabinetOpen /\ file[f] = NoFile
  /\ file' = [file EXCEPT ![f] = [type |-> TypeOf(name), status |-> "uploaded", queued |-> FALSE]]
  /\ UNCHANGED <<caseStatus, marital, employed, creditors>>

\* Staff upload documents of any case, and have them read.
StaffUpload(f, name) ==
  /\ file[f] = NoFile
  /\ file' = [file EXCEPT ![f] = [type |-> TypeOf(name), status |-> "processing", queued |-> TRUE]]
  /\ UNCHANGED <<caseStatus, marital, employed, creditors>>

\* The worker has read a document, however late and often (see TaskQueue).
Read(f) ==
  /\ file[f] # NoFile /\ file[f].queued
  /\ \E s \in {"extracted", "uploaded"} : file' = [file EXCEPT ![f].status = s]
  /\ UNCHANGED <<caseStatus, marital, employed, creditors>>

\* A lawyer judges it.
Validate(f) ==
  /\ file[f] # NoFile
  /\ \E s \in {"validated", "rejected"} : file' = [file EXCEPT ![f].status = s]
  /\ UNCHANGED <<caseStatus, marital, employed, creditors>>

DossierNext ==
  \/ MoveCase \/ AddCreditor
  \/ \E f \in Files :
       \/ Read(f) \/ Validate(f)
       \/ \E name \in Offered : Upload(f, name) \/ StaffUpload(f, name)

DossierSpec == DossierInit /\ [][DossierNext]_dossierVars

-----------------------------------------------------------------------------
(* What is shown.                                                          *)

Collected ==
  Held \cup {file[f].type : f \in {g \in Files :
               file[g] # NoFile /\ file[g].status \notin {"pending", "rejected"}}}

\* list.index(), or 0.
StageIndex(s) ==
  IF \E i \in 1..Len(StatusOrder) : StatusOrder[i] = s
  THEN (CHOOSE i \in 1..Len(StatusOrder) : StatusOrder[i] = s) - 1
  ELSE 0

\* round(index / 17 * 100)
Percent(s) ==
  LET last == Len(StatusOrder) - 1 IN (200 * StageIndex(s) + last) \div (2 * last)

CompletedStages(s) == {StatusOrder[i] : i \in 1..StageIndex(s)}

\* Mutant: the cabinet does not know of the creditors.
WithoutCreditors == Checklist(marital, employed, {}, 0)
\* Nobody passes the kinds of property.
ClientList == Checklist(marital, employed, {}, creditors)
StaffList == Checklist(marital, employed, {}, creditors)

\* The client is not shown the documents that arise on the way.
Shown == ClientList \ Process

-----------------------------------------------------------------------------
\* Statuses, files and features keep their types; a file has a known type.
DossierTypeOK ==
  /\ caseStatus \in CaseStatus
  /\ marital \in {"unknown", "married", "divorced"} /\ employed \in {"unknown", "yes", "no"}
  /\ creditors \in 0..MaxCreditors
  /\ file \in [Files -> [type : DocumentTypes,
                         status : {"uploaded", "processing", "extracted", "validated", "rejected"},
                         queued : BOOLEAN]
                        \cup {NoFile}]

\* Steps back: documents turn out to be wrong, a restructuring fails.
StepsBack == {<<"document_review", "document_collection">>,
              <<"application_preparation", "document_review">>,
              <<"restructuring", "asset_realization">>}

\* Along the table of the case machine the client sees progress, and each
\* completed stage remains completed, unless the case is closed, paused or
\* settled, or takes one of three steps back.
ProgressGrows ==
  [][caseStatus' # caseStatus =>
       \/ caseStatus' \in {"rejected", "cancelled", "on_hold", "settlement"}
       \/ <<caseStatus, caseStatus'>> \in StepsBack
       \/ /\ Percent(caseStatus') > Percent(caseStatus)
          /\ CompletedStages(caseStatus) \subseteq CompletedStages(caseStatus')]_dossierVars

\* Everything is done just when the debts are discharged.
DoneWhenDischarged == Percent(caseStatus) = 100 <=> caseStatus = "debt_discharged"

\* The client's list and the staff's agree: what staff miss is what the client
\* is shown as missing, and what arises on the way; both are at 100 % together,
\* and just when nothing required is missing.
ListsAgree ==
  /\ Missing(StaffList, Collected) \ Process = Missing(Shown, Collected)
  /\ Progress(StaffList, Collected) = Progress(ClientList, Collected)
  /\ Progress(ClientList, Collected) = 1000 <=> IsComplete(StaffList, Collected)

\* A type counts as collected only through a document of it that was not
\* rejected, so no rejection leaves the list complete.
RejectedIsMissing ==
  \A f \in Files :
    /\ file[f] # NoFile /\ file[f].type \in Required(ClientList) \ Held
    /\ \A g \in Files : file[g] # NoFile /\ file[g].type = file[f].type => file[g].status = "rejected"
    => ~IsComplete(ClientList, Collected) /\ Progress(ClientList, Collected) < 1000

\* What is shown of a case and its documents agrees with what they are.
DossierIsSound == DossierTypeOK /\ DoneWhenDischarged /\ ListsAgree /\ RejectedIsMissing
=============================================================================
