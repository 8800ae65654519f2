----------------------------- MODULE CaseMachine -----------------------------
(***************************************************************************)
(* The status machine of a bankruptcy case                                 *)
(* (backend/app/services/case_machine.py): a table and what can be read    *)
(* off it.                                                                 *)
(***************************************************************************)
EXTENDS Naturals

CaseStatus == {
  "lead", "qualification", "consultation", "contract_signing",
  "document_collection", "document_review", "application_preparation",
  "application_filed", "court_accepted", "hearing_scheduled",
  "procedure_started", "creditors_registry", "creditors_meeting",
  "asset_realization", "restructuring", "fu_report", "completion",
  "debt_discharged", "on_hold", "rejected", "cancelled", "settlement"}

Transitions == [s \in CaseStatus |->
  CASE s = "lead" -> {"qualification", "rejected", "cancelled"}
    [] s = "qualification" -> {"consultation", "rejected", "cancelled"}
    [] s = "consultation" -> {"contract_signing", "rejected", "cancelled"}
    [] s = "contract_signing" -> {"document_collection", "cancelled"}
    [] s = "document_collection" ->
         {"document_review", "on_hold", "cancelled"}
    [] s = "document_review" ->
         {"document_collection", "application_preparation", "on_hold"}
    [] s = "application_preparation" ->
         {"document_review", "application_filed", "on_hold"}
    [] s = "application_filed" -> {"court_accepted", "on_hold"}
    [] s = "court_accepted" -> {"hearing_scheduled"}
    [] s = "hearing_scheduled" ->
         {"procedure_started", "settlement", "on_hold"}
    [] s = "procedure_started" ->
         {"creditors_registry", "restructuring", "asset_realization",
          "settlement"}
    [] s = "creditors_registry" -> {"creditors_meeting"}
    [] s = "creditors_meeting" ->
         {"asset_realization", "restructuring", "settlement"}
    [] s = "asset_realization" -> {"fu_report"}
    [] s = "restructuring" -> {"fu_report", "asset_realization"}
    [] s = "fu_report" -> {"completion"}
    [] s = "completion" -> {"debt_discharged"}
    [] s = "on_hold" ->
         {"document_collection", "application_preparation",
          "application_filed", "hearing_scheduled", "cancelled"}
    [] s = "settlement" -> {"debt_discharged"}
    [] OTHER -> {}]

\* Mutant: any status may follow a pause.
ResumesAnywhere(from, to) ==
  to \in Transitions[from] \/ from = "on_hold"

IsValidTransition(from, to) == to \in Transitions[from]

AvailableTransitions(from) == {to \in CaseStatus : IsValidTransition(from, to)}

\* "Terminal states - no transitions out".
Terminal == {"debt_discharged", "rejected", "cancelled"}

\* The statuses before a court has scheduled the first hearing, and the two
\* that close a case without one.
BeforeHearing == {
  "lead", "qualification", "consultation", "contract_signing",
  "document_collection", "document_review", "application_preparation",
  "application_filed", "court_accepted", "on_hold", "rejected", "cancelled"}
=============================================================================
