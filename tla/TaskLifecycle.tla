---------------------------- MODULE TaskLifecycle ----------------------------
(***************************************************************************)
(* What the AITask table promises to whoever polls GET /ai/tasks/{id}: a   *)
(* task is queued, taken up, and ends completed or failed; it is attempted *)
(* again after a failed attempt, failed only after MaxRetries of them, and *)
(* a finished task never changes again.                                    *)
(***************************************************************************)
EXTENDS Naturals

CONSTANTS Tasks, MaxRetries

VARIABLES
  phase,   \* what the client sees of each task
  tries    \* failed attempts so far

lifecycleVars == <<phase, tries>>

Init ==
  /\ phase = [t \in Tasks |-> "absent"]
  /\ tries = [t \in Tasks |-> 0]

Submit(t) ==
  /\ phase[t] = "absent"
  /\ phase' = [phase EXCEPT ![t] = "queued"]
  /\ UNCHANGED tries

Start(t) ==
  /\ phase[t] = "queued"
  /\ phase' = [phase EXCEPT ![t] = "processing"]
  /\ UNCHANGED tries

Complete(t) ==
  /\ phase[t] = "processing"
  /\ phase' = [phase EXCEPT ![t] = "completed"]
  /\ UNCHANGED tries

Retry(t) ==
  /\ phase[t] = "processing"
  /\ tries[t] + 1 < MaxRetries
  /\ phase' = [phase EXCEPT ![t] = "queued"]
  /\ tries' = [tries EXCEPT ![t] = @ + 1]

GiveUp(t) ==
  /\ phase[t] = "processing"
  /\ tries[t] + 1 >= MaxRetries
  /\ phase' = [phase EXCEPT ![t] = "failed"]
  /\ tries' = [tries EXCEPT ![t] = @ + 1]

Next ==
  \E t \in Tasks :
    Submit(t) \/ Start(t) \/ Complete(t) \/ Retry(t) \/ GiveUp(t)

Spec == Init /\ [][Next]_lifecycleVars
=============================================================================
