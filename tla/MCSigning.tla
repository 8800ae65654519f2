------------------------------ MODULE MCSigning ------------------------------
(* The signing of drafts, and what else the client does: entering the      *)
(* cabinet, writing in it, and looking at the state of the case.  "which"  *)
(* says what is under way; the other parts stay in their initial states.   *)
EXTENDS Signing, ClientLogin, ClientCabinet, ClientDossier, TLC

VARIABLE which

MCInit ==
  /\ which \in {"signing", "login", "cabinet", "dossier"}
  /\ Init /\ LoginInit /\ CabinetInit /\ DossierInit
  /\ which # "dossier" => marital = "unknown" /\ employed = "unknown"

MCNext ==
  /\ UNCHANGED which
  /\ \/ which = "signing" /\ Next /\ UNCHANGED <<loginVars, cabinetVars, dossierVars>>
     \/ which = "login" /\ LoginNext /\ UNCHANGED <<vars, cabinetVars, dossierVars>>
     \/ which = "cabinet" /\ CabinetNext /\ UNCHANGED <<vars, loginVars, dossierVars>>
     \/ which = "dossier" /\ DossierNext /\ UNCHANGED <<vars, loginVars, cabinetVars>>

MCSpec == MCInit /\ [][MCNext]_<<which, vars, loginVars, cabinetVars, dossierVars>>

Symmetry ==
  Permutations(Requests) \cup Permutations(Drafts) \cup Permutations(Signatures)
    \cup Permutations(Clients) \cup Permutations(Cases)
=============================================================================
