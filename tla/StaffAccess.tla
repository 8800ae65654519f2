---------------------------- MODULE StaffAccess ----------------------------
(* Accounts of the staff, their tasks, and who may see what.  Two tables   *)
(* decide that: the permissions of the roles, which the handlers ask, and  *)
(* the row policies of the database (migration 010), which bind every      *)
(* database user that is not a superuser.                                  *)
EXTENDS Sessions, FiniteSets

CONSTANTS
  Users,      \* accounts that may come to exist
  Root,       \* the account that seed-admin creates
  Hired,      \* roles that accounts are registered with
  Cases,      \* cases
  Tasks,      \* tasks somebody was given
  Nobody

VARIABLES
  account,    \* the row of a user
  assigned,   \* per case the users in its columns; owner is the client's account
  task,       \* a task's status and its assignee
  doing,      \* per request what it has loaded
  crossed,    \* two requests have overlapped (a history variable)
  resigned    \* an administrator has deactivated itself (a history variable)

staffVars == <<account, assigned, task, doing, crossed, resigned>>

Directors == {"admin", "operations_director"}
Desk == {"lawyer", "paralegal", "client_manager"}
Roles == Directors \cup Desk \cup {"marketer", "ai_engineer", "client"}

\* seed-admin's account is one of the accounts; roles are roles of the enum.
ASSUME StaffAssumption == Root \in Users /\ Hired \subseteq Roles

NoAccount == [role |-> "none", active |-> FALSE]
Exists(u) == account[u] # NoAccount
Role(u) == account[u].role
Idle == [op |-> "idle"]
TaskStatus == {"new", "in_progress", "done"}

StaffInit ==
  /\ account = [u \in Users |-> NoAccount]
  /\ assigned = [c \in Cases |->
       [lawyer |-> Nobody, paralegal |-> Nobody, manager |-> Nobody, owner |-> Nobody]]
  /\ task \in [Tasks -> [status : {"new"}, assignee : Users]]
  /\ doing = [r \in Requests |-> Idle]
  /\ crossed = FALSE /\ resigned = FALSE

-----------------------------------------------------------------------------
(* What the handlers ask (core/permissions.py, core/security.py), but for  *)
(* those of the checklist.                                                 *)

MayRead ==
  [documents |-> Directors \cup Desk \cup {"client"},
   deadlines |-> Directors \cup Desk \cup {"client"},
   messages  |-> Directors \cup Desk \cup {"client"},
   payments  |-> Directors \cup {"lawyer", "client_manager", "client"}]

MayWriteCases == Directors \cup {"lawyer", "client_manager"}

\* Mutant: a token that was issued once is enough.
TokenIsEnough(u, roles) == Role(u) \in roles
\* The account is loaded for every request; the role is the row's.
Admits(u, roles) == account[u].active /\ Role(u) \in roles

-----------------------------------------------------------------------------
(* What the database shows to user u: the policies.                        *)

\* Policies on cases.
SeesCase(u, c) ==
  \/ Role(u) \in Directors
  \/ Role(u) = "lawyer" /\ assigned[c].lawyer = u
  \/ Role(u) = "paralegal" /\ assigned[c].paralegal = u
  \/ Role(u) = "client_manager" /\ assigned[c].manager = u
  \/ Role(u) = "client" /\ assigned[c].owner = u

\* Mutant: the owner of the tables runs the subqueries of the policies.
AllOf(u, S) == S
\* A subquery on cases inside a policy finds only cases u sees.
Selected(u, S) == {c \in S : SeesCase(u, c)}

AssignedTo(u) == {c \in Cases : u \in {assigned[c].lawyer, assigned[c].paralegal, assigned[c].manager}}
OwnedBy(u) == {c \in Cases : assigned[c].owner = u}

SeesDocuments(u, c) ==
  \/ Role(u) \in Directors
  \/ Role(u) = "lawyer" /\ c \in Selected(u, {d \in Cases : assigned[d].lawyer = u})
  \/ Role(u) = "paralegal" /\ c \in Selected(u, {d \in Cases : assigned[d].paralegal = u})
  \/ Role(u) = "client_manager" /\ c \in Selected(u, {d \in Cases : assigned[d].manager = u})
  \/ Role(u) = "client" /\ c \in Selected(u, OwnedBy(u))

SeesPayments(u, c) ==
  \/ Role(u) \in Directors \cup {"client_manager"}
  \/ Role(u) = "lawyer" /\ c \in Selected(u, {d \in Cases : assigned[d].lawyer = u})
  \/ Role(u) = "client" /\ c \in Selected(u, OwnedBy(u))

\* Deadlines, events, checklist items and creditors have one policy; for the
\* items the handlers have a check of their own (ServesChecklist).
SeesDeadlines(u, c) ==
  \/ Role(u) \in Directors
  \/ Role(u) \in Desk /\ c \in Selected(u, AssignedTo(u))
  \/ Role(u) = "client" /\ c \in Selected(u, OwnedBy(u))

\* A message of case c that somebody else has sent; the client's messages are
\* found by the client, not by the case.
SeesMessages(u, c) ==
  \/ Role(u) \in Directors
  \/ Role(u) \in Desk /\ c \in Selected(u, AssignedTo(u))
  \/ Role(u) = "client" /\ assigned[c].owner = u

-----------------------------------------------------------------------------
(* What the handlers of the checklist ask, instead of a permission.        *)

\* Every case is open to four roles; a client's account has one client.
AdmitsToChecklist(u, c) ==
  \/ Role(u) \in Directors \cup {"lawyer", "paralegal"}
  \/ Role(u) = "client" /\ assigned[c].owner = u

\* The case is looked up first: 404 where the policy hides it, then 403.
ServesChecklist(u, c) == SeesCase(u, c) /\ AdmitsToChecklist(u, c)

-----------------------------------------------------------------------------
(* Requests.                                                               *)

Begin(r, loaded) ==
  /\ doing[r] = Idle
  /\ doing' = [doing EXCEPT ![r] = loaded]
  /\ crossed' = (crossed \/ \E q \in Requests : doing[q] # Idle)
  /\ UNCHANGED <<account, assigned, task, resigned>>

End(r) == doing' = [doing EXCEPT ![r] = Idle] /\ UNCHANGED crossed

\* Refused, failed, or the email was taken in the meantime.
Abort(r) ==
  /\ doing[r] # Idle
  /\ End(r)
  /\ UNCHANGED <<account, assigned, task, resigned>>

\* seed-admin works while there are no users; emails are unique.
LoadSeed(r) ==
  /\ \A u \in Users : ~Exists(u)
  /\ Begin(r, [op |-> "create", user |-> Root, role |-> "admin"])

LoadRegister(r, admin, u, role) ==
  /\ Admits(admin, {"admin"}) /\ ~Exists(u)
  /\ Begin(r, [op |-> "create", user |-> u, role |-> role])

CommitCreate(r) ==
  LET q == doing[r] IN
  /\ q.op = "create" /\ ~Exists(q.user)
  /\ account' = [account EXCEPT ![q.user] = [role |-> q.role, active |-> TRUE]]
  /\ End(r)
  /\ UNCHANGED <<assigned, task, resigned>>

\* An administrator sets is_active of any account, of its own as well.
LoadUpdate(r, admin, u, active) ==
  /\ Admits(admin, {"admin"}) /\ Exists(u)
  /\ Begin(r, [op |-> "update", by |-> admin, user |-> u, seen |-> account[u].active,
               active |-> active])

\* Only a column that differs from what was loaded is written.
CommitAccount(r) ==
  LET q == doing[r] IN
  /\ q.op = "update"
  /\ account' = IF q.active = q.seen THEN account
                ELSE [account EXCEPT ![q.user].active = q.active]
  /\ resigned' = (resigned \/ (q.by = q.user /\ ~q.active))
  /\ End(r)
  /\ UNCHANGED <<assigned, task>>

\* A case's columns are set by who may write cases, to any account.
AssignCase(by, c, column, u) ==
  /\ Admits(by, MayWriteCases) /\ Exists(u)
  /\ assigned' = [assigned EXCEPT ![c][column] = u]
  /\ UNCHANGED <<account, task, doing, crossed, resigned>>

\* A client gets an account (no handler does that; it is done by hand).
LinkClient(c, u) ==
  /\ Exists(u) /\ Role(u) = "client"
  /\ assigned' = [assigned EXCEPT ![c].owner = u]
  /\ UNCHANGED <<account, task, doing, crossed, resigned>>

Allowed(status) ==
  CASE status = "new" -> {"in_progress"}
    [] status = "in_progress" -> {"done"}
    [] status = "done" -> {"in_progress"}

\* Who a task is assigned to moves it along.
LoadTask(r, u, t, status) ==
  /\ Admits(u, Directors \cup Desk) /\ task[t].assignee = u
  /\ status \in Allowed(task[t].status)
  /\ Begin(r, [op |-> "task", task |-> t, seen |-> task[t].status, status |-> status])

CommitTask(r) ==
  LET q == doing[r] IN
  /\ q.op = "task"
  /\ task' = IF q.status = q.seen THEN task ELSE [task EXCEPT ![q.task].status = q.status]
  /\ End(r)
  /\ UNCHANGED <<account, assigned, resigned>>

StaffNext ==
  \/ \E r \in Requests :
       \/ LoadSeed(r) \/ CommitCreate(r) \/ CommitAccount(r) \/ CommitTask(r) \/ Abort(r)
       \/ \E admin, u \in Users :
            \/ \E role \in Hired : LoadRegister(r, admin, u, role)
            \/ \E active \in BOOLEAN : LoadUpdate(r, admin, u, active)
       \/ \E u \in Users, t \in Tasks, status \in TaskStatus : LoadTask(r, u, t, status)
  \/ \E by, u \in Users, c \in Cases :
       \E column \in {"lawyer", "paralegal", "manager"} : AssignCase(by, c, column, u)
  \/ \E u \in Users, c \in Cases : LinkClient(c, u)

StaffSpec == StaffInit /\ [][StaffNext]_staffVars

-----------------------------------------------------------------------------
\* Accounts, columns and requests keep their types.
Request ==
  [op : {"create"}, user : Users, role : Roles]
  \cup [op : {"update"}, by : Users, user : Users, seen : BOOLEAN, active : BOOLEAN]
  \cup [op : {"task"}, task : Tasks, seen : TaskStatus, status : TaskStatus]

StaffTypeOK ==
  /\ account \in [Users -> [role : Roles \cup {"none"}, active : BOOLEAN]]
  /\ assigned \in [Cases -> [lawyer : Users \cup {Nobody}, paralegal : Users \cup {Nobody},
                             manager : Users \cup {Nobody}, owner : Users \cup {Nobody}]]
  /\ task \in [Tasks -> [status : TaskStatus, assignee : Users]]
  /\ doing \in [Requests -> Request \cup {Idle}]
  /\ crossed \in BOOLEAN /\ resigned \in BOOLEAN

\* The handlers' permissions and the database's policies agree, whatever the
\* columns hold and whoever stands in a column that is not its role's: who is
\* shown a case and may read a table is shown the case's rows of it, and nobody
\* else is, but for payments, which every manager is shown.  The checklist's own
\* check never serves half a case, whose list would be taken for one that was
\* never made; the only ones it refuses rows they could see are the managers.
PoliciesMatchPermissions ==
  \A u \in Users, c \in Cases :
    /\ SeesDocuments(u, c) <=> SeesCase(u, c) /\ Role(u) \in MayRead.documents
    /\ SeesDeadlines(u, c) <=> SeesCase(u, c) /\ Role(u) \in MayRead.deadlines
    /\ SeesMessages(u, c) <=> SeesCase(u, c) /\ Role(u) \in MayRead.messages
    /\ SeesPayments(u, c) <=> /\ SeesCase(u, c) \/ Role(u) = "client_manager"
                              /\ Role(u) \in MayRead.payments
    /\ ServesChecklist(u, c) <=> SeesDeadlines(u, c) /\ Role(u) # "client_manager"

\* Somebody can always administer the accounts, unless an administrator has
\* deactivated itself or two of them have deactivated each other at once.
AdminRemains ==
  ~crossed /\ ~resigned /\ (\E u \in Users : Exists(u)) =>
    \E u \in Users : account[u].active /\ Role(u) = "admin"

\* However requests overlap, a task is done only after work on it, and never
\* new again.
TasksMoveInOrder ==
  [][\A t \in Tasks : task'[t].status # task[t].status =>
       <<task[t].status, task'[t].status>> \in
         {<<"new", "in_progress">>, <<"in_progress", "done">>, <<"done", "in_progress">>}]_staffVars
=============================================================================
