---------------------------- MODULE CaseLifecycle ----------------------------
(***************************************************************************)
(* What PATCH /cases/{id} promises of a case: its status moves along the   *)
(* table of the state machine, one step at a time, and in no other way.    *)
(***************************************************************************)
EXTENDS CaseMachine

VARIABLE status   \* cases.status

Init == status = "lead"

Move(to) ==
  /\ IsValidTransition(status, to)
  /\ status' = to

Next == \E to \in CaseStatus : Move(to)

Spec == Init /\ [][Next]_status
=============================================================================
