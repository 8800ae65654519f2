--------------------------- MODULE DraftLifecycle ---------------------------
(***************************************************************************)
(* What the document workflow promises of a draft: it is generated,        *)
(* approved by a lawyer, sent to the client and signed, in this order, and *)
(* never goes back (backend/app/models/billing_models.py, DocumentDraft).  *)
(***************************************************************************)
EXTENDS Naturals

CONSTANT Drafts    \* identities of the drafts

VARIABLE status    \* document_drafts.status ("absent": no such row)

Follows == [absent |-> "draft", draft |-> "approved",
            approved |-> "sent_for_signing", sent_for_signing |-> "signed"]

Init == status = [d \in Drafts |-> "absent"]

Advance(d) ==
  /\ status[d] # "signed"
  /\ status' = [status EXCEPT ![d] = Follows[status[d]]]

Next == \E d \in Drafts : Advance(d)

Spec == Init /\ [][Next]_status
=============================================================================
