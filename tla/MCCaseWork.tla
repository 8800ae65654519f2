----------------------------- MODULE MCCaseWork -----------------------------
(* What is done with a case in the office: its status, its creditors, the  *)
(* accounts and tasks of the staff, and who sees the case's rows.  These   *)
(* share no column, so a behaviour is one of them.                         *)
EXTENDS CaseFile, CreditorRegister, StaffAccess, TLC

VARIABLE which

\* A correction of a debt may be entered as a creditor of its own.
MCAmounts == {-1, 3}

WorkInit ==
  /\ which \in {"status", "debts", "accounts", "policies"}
  /\ Init /\ RegisterInit /\ StaffInit
  \* What the other behaviours do not use begins in one way.
  /\ which # "debts" => opening = 0
  /\ which \in {"status", "debts"} => \A t \in Tasks : task[t].assignee = Root

\* Two overlapping requests on accounts and tasks; nobody has a case.
AccountsNext ==
  /\ StaffNext /\ UNCHANGED assigned
  /\ \A u \in Users : account'[u].role \in {"none", "admin", "lawyer"}

\* One request at a time, a case, and an account of any role.
PoliciesNext == StaffNext /\ Cardinality({r \in Requests : doing'[r] # Idle}) <= 1

WorkNext ==
  /\ UNCHANGED which
  /\ \/ which = "status" /\ Next /\ UNCHANGED <<registerVars, staffVars>>
     \/ which = "debts" /\ RegisterNext /\ UNCHANGED <<vars, staffVars>>
     \/ which = "accounts" /\ AccountsNext /\ UNCHANGED <<vars, registerVars>>
     \/ which = "policies" /\ PoliciesNext /\ UNCHANGED <<vars, registerVars>>

WorkSpec == WorkInit /\ [][WorkNext]_<<which, vars, registerVars, staffVars>>

Symmetry == Permutations(Requests) \cup Permutations(Creditors)
=============================================================================
