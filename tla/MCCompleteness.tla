--------------------------- MODULE MCCompleteness ---------------------------
(* Model values, matches and symmetry for checking Completeness.  Every    *)
(* document's name resembles every item; only the first document (if any)  *)
(* has a type the checklist knows.                                         *)
EXTENDS Completeness, TLC

MCByType == [d \in Documents |->
  IF d = CHOOSE e \in Documents : TRUE
  THEN CHOOSE i \in Items : TRUE ELSE NoItem]

MCByName == [d \in Documents |-> Items]

Symmetry == Permutations(Requests) \cup Permutations(Reviewers)
=============================================================================
