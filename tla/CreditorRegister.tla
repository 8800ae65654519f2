-------------------------- MODULE CreditorRegister --------------------------
(***************************************************************************)
(* The creditors of one case and the case's total_debt column              *)
(* (backend/app/api/v1/cases.py, add_creditor).                            *)
(*                                                                         *)
(* A request loads the case, inserts the creditor, sums the creditors it   *)
(* can see (the committed ones and its own) and commits the creditor       *)
(* together with the sum.  Nothing is locked in between.  The commit       *)
(* writes total_debt only if the sum differs from the loaded value.        *)
(***************************************************************************)
EXTENDS Sessions, Integers, FiniteSetsExt

CONSTANTS
  Creditors,   \* identities of the creditors that may be added
  Amounts,     \* amounts a creditor may be entered with (nothing keeps them positive)
  Openings     \* total_debt a case may be created with

ASSUME RegisterAssumption == Amounts \subseteq Int /\ Openings \subseteq Int

VARIABLES
  creditors,   \* committed creditors
  owed,        \* total_amount of each creditor
  totalDebt,   \* committed total_debt of the case
  debtPhase,   \* where each request stands
  adds,        \* the creditors a request is adding: none or one
  seenDebt,    \* total_debt as the request's session loaded it
  sum,         \* the sum it has computed
  opening,     \* total_debt the case was created with
  alone        \* history: no other request has committed since the load

addVars == <<debtPhase, adds, seenDebt, sum, alone>>
registerVars == <<creditors, owed, totalDebt, addVars, opening>>

RegisterTypeOK ==
  /\ creditors \subseteq Creditors
  /\ owed \in [Creditors -> Int]
  /\ totalDebt \in Int
  /\ debtPhase \in [Requests -> {"idle", "loaded", "summed"}]
  /\ adds \in [Requests -> SUBSET Creditors]
  /\ seenDebt \in [Requests -> Int]
  /\ sum \in [Requests -> Int]
  /\ opening \in Int
  /\ alone \in [Requests -> BOOLEAN]

SumOf(S) == MapThenSumSet(LAMBDA c : owed[c], S)

RegisterInit ==
  /\ creditors = {}
  /\ owed = [c \in Creditors |-> 0]
  /\ opening \in Openings
  /\ totalDebt = opening
  /\ debtPhase = [r \in Requests |-> "idle"]
  /\ adds = [r \in Requests |-> {}]
  /\ seenDebt = [r \in Requests |-> 0]
  /\ sum = [r \in Requests |-> 0]
  /\ alone = [r \in Requests |-> TRUE]

-----------------------------------------------------------------------------
\* The case is loaded; the new creditor gets an id of its own.
LoadForCreditor(r, c, amount) ==
  /\ debtPhase[r] = "idle"
  /\ c \notin creditors
  /\ \A q \in Requests : c \notin adds[q]
  /\ debtPhase' = [debtPhase EXCEPT ![r] = "loaded"]
  /\ adds' = [adds EXCEPT ![r] = {c}]
  /\ owed' = [owed EXCEPT ![c] = amount]
  /\ seenDebt' = [seenDebt EXCEPT ![r] = totalDebt]
  /\ alone' = [alone EXCEPT ![r] = TRUE]
  /\ UNCHANGED <<creditors, totalDebt, sum, opening>>

\* Mutants: the amount is added to the loaded total; the sum is taken before
\* the creditor is flushed.
AddsToLoaded(r) == seenDebt[r] + SumOf(adds[r])
SumsBeforeFlush(r) == SumOf(creditors)

\* SELECT sum(total_amount): what this transaction can see.
VisibleSum(r) == SumOf(creditors \cup adds[r])

\* The creditor is flushed and the sum computed.
SumDebt(r) ==
  /\ debtPhase[r] = "loaded"
  /\ debtPhase' = [debtPhase EXCEPT ![r] = "summed"]
  /\ sum' = [sum EXCEPT ![r] = VisibleSum(r)]
  /\ UNCHANGED <<creditors, owed, totalDebt, adds, seenDebt, opening, alone>>

EndAdd(r) ==
  /\ debtPhase' = [debtPhase EXCEPT ![r] = "idle"]
  /\ adds' = [adds EXCEPT ![r] = {}]
  /\ seenDebt' = [seenDebt EXCEPT ![r] = 0]
  /\ sum' = [sum EXCEPT ![r] = 0]

\* The commit writes the column only if the session changed it.
DebtAfter(r) == IF sum[r] = seenDebt[r] THEN totalDebt ELSE sum[r]

CommitCreditor(r) ==
  /\ debtPhase[r] = "summed"
  /\ creditors' = creditors \cup adds[r]
  /\ totalDebt' = DebtAfter(r)
  /\ alone' = [q \in Requests |-> q = r]
  /\ EndAdd(r)
  /\ UNCHANGED <<owed, opening>>

\* The handler dies or the commit fails: the creditor is rolled back.
AbortCreditor(r) ==
  /\ debtPhase[r] \in {"loaded", "summed"}
  /\ owed' = [c \in Creditors |-> IF c \in adds[r] THEN 0 ELSE owed[c]]
  /\ EndAdd(r)
  /\ UNCHANGED <<creditors, totalDebt, opening, alone>>

RegisterNext ==
  \E r \in Requests :
    \/ \E c \in Creditors, amount \in Amounts : LoadForCreditor(r, c, amount)
    \/ SumDebt(r)
    \/ CommitCreditor(r)
    \/ AbortCreditor(r)

RegisterSpec == RegisterInit /\ [][RegisterNext]_registerVars

-----------------------------------------------------------------------------
(* Properties                                                              *)

\* The total is never an invention: it is the opening value or the sum of
\* some creditors that are really there, each counted once.  Overlapping
\* requests can leave a creditor out, but a rolled back one never stays in.
DebtIsOwed ==
  \/ totalDebt = opening
  \/ \E S \in SUBSET creditors : S # {} /\ totalDebt = SumOf(S)

\* A request that no other commit overlaps repairs the total, whatever
\* earlier ones have lost.
LoneRequestRepairs ==
  [][\A r \in Requests :
       creditors' = creditors \cup adds[r] /\ adds[r] # {} /\ alone[r]
         => (totalDebt = SumOf(creditors))']_registerVars

\* With one request at a time the total is what is owed, once a creditor has been
\* added (until then it is what the case was created with).
TotalIsExact == creditors # {} \/ opening = 0 => totalDebt = SumOf(creditors)

\* With one request at a time each further creditor adds just its own amount.
DebtAddsUp ==
  [][\A c \in creditors' \ creditors :
       creditors # {} \/ opening = 0 => totalDebt' = totalDebt + owed[c]]_registerVars

\* What is stored of debts, with its types.
RegisterIsSound == RegisterTypeOK /\ DebtIsOwed
=============================================================================
