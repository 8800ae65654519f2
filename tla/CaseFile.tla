------------------------------ MODULE CaseFile ------------------------------
(***************************************************************************)
(* One case and the requests that change its status                        *)
(* (backend/app/api/v1/cases.py, update_case).                             *)
(*                                                                         *)
(* A request loads the row, checks the new status against the one it has   *)
(* loaded and commits later; no lock is taken and the row has no version   *)
(* column, so another request may commit in between.  The commit writes    *)
(* the status column only if it differs from the loaded value, and inserts *)
(* the event of the timeline in the same transaction.                      *)
(***************************************************************************)
EXTENDS Sessions, CaseMachine, FiniteSets

CONSTANTS
  MaxEvents    \* bound: different events a timeline may come to hold

ASSUME CaseFileAssumption == MaxEvents \in Nat

VARIABLES
  status,      \* committed status of the case
  timeline,    \* committed status_change events: [old, new]
  phase,       \* where each request stands
  seen,        \* the status the request's session loaded
  target       \* the status it asks for

requestVars == <<phase, seen, target>>
vars        == <<status, timeline, requestVars>>

Event == [old : CaseStatus, new : CaseStatus]

TypeOK ==
  /\ status \in CaseStatus
  /\ timeline \subseteq Event
  /\ phase \in [Requests -> {"idle", "loaded"}]
  /\ seen \in [Requests -> CaseStatus]
  /\ target \in [Requests -> CaseStatus]

\* POST /cases and the three ways a lead becomes a case: all start at "lead".
Init ==
  /\ status = "lead"
  /\ timeline = {}
  /\ phase = [r \in Requests |-> "idle"]
  /\ seen = [r \in Requests |-> "lead"]
  /\ target = [r \in Requests |-> "lead"]

-----------------------------------------------------------------------------
\* Mutant: any known status is accepted.
AcceptsAnyStatus(from, to) == TRUE

\* A PATCH without a change of status is always accepted.
Accepted(from, to) == to = from \/ IsValidTransition(from, to)

\* The row is loaded and the status validated; a refused request ends here.
LoadCase(r, to) ==
  /\ phase[r] = "idle"
  /\ Accepted(status, to)
  /\ phase' = [phase EXCEPT ![r] = "loaded"]
  /\ seen' = [seen EXCEPT ![r] = status]
  /\ target' = [target EXCEPT ![r] = to]
  /\ UNCHANGED <<status, timeline>>

\* The session is closed; what it had loaded is forgotten.
EndRequest(r) ==
  /\ phase' = [phase EXCEPT ![r] = "idle"]
  /\ seen' = [seen EXCEPT ![r] = "lead"]
  /\ target' = [target EXCEPT ![r] = "lead"]

\* The commit: status and event together, or nothing of the two.
CommitUpdate(r) ==
  /\ phase[r] = "loaded"
  /\ \/ /\ target[r] = seen[r]
        /\ UNCHANGED <<status, timeline>>
     \/ /\ target[r] # seen[r]
        /\ status' = target[r]
        /\ timeline' = timeline \cup {[old |-> seen[r], new |-> target[r]]}
        /\ Cardinality(timeline') <= MaxEvents
  /\ EndRequest(r)

\* The handler dies or the commit fails: everything is rolled back.
AbortUpdate(r) ==
  /\ phase[r] = "loaded"
  /\ EndRequest(r)
  /\ UNCHANGED <<status, timeline>>

Next ==
  \E r \in Requests :
    \/ \E to \in CaseStatus : LoadCase(r, to)
    \/ CommitUpdate(r)
    \/ AbortUpdate(r)

Spec == Init /\ [][Next]_vars

-----------------------------------------------------------------------------
(* Properties                                                              *)

\* The statuses the case has had, as its timeline tells.
Reached == {"lead"} \cup {e.new : e \in timeline}

\* The timeline tells a true story however requests overtake each other:
\* every event is a move of the table, out of a status the case really had,
\* and the present status is one the timeline accounts for.
TimelineIsTrue ==
  /\ \A e \in timeline :
       IsValidTransition(e.old, e.new) /\ e.old \in Reached
  /\ status \in Reached

\* No interleaving of stale requests gets a case past the first hearing, let
\* alone to its discharge, without a hearing having been scheduled.
HearingComesFirst ==
  status \notin BeforeHearing => "hearing_scheduled" \in Reached

\* With one request at a time the status is what the state machine promises.
Lifecycle == INSTANCE CaseLifecycle
ImplementsLifecycle == Lifecycle!Spec
=============================================================================
