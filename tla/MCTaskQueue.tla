----------------------------- MODULE MCTaskQueue -----------------------------
(* Instances of TaskQueue for TLC: tasks and workers are interchangeable.  *)
EXTENDS TaskQueue, TLC

Symmetry == Permutations(Tasks) \cup Permutations(Workers) \cup Permutations(Docs)
=============================================================================
