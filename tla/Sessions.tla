------------------------------ MODULE Sessions ------------------------------
(* What the components share: handlers run as coroutines, each with a      *)
(* database session of its own, and nothing orders the steps of two.       *)

CONSTANT
  Requests     \* requests that may be under way at the same time
=============================================================================
