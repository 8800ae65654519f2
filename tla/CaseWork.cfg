\* Two requests that may overtake each other; an opening total equal to one of
\* the sums.
\* (It stops when every identity of a creditor has been used.)
CHECK_DEADLOCK FALSE
SPECIFICATION WorkSpec
CONSTANTS
  Requests = {r1, r2}
  MaxEvents = 8
  Creditors = {c1, c2, c3}
  Amounts <- MCAmounts
  Openings = {0, 2}
  Users = {"admin", "other"}
  Root = "admin"
  Hired = {"admin", "operations_director", "lawyer", "paralegal", "client_manager", "marketer", "ai_engineer", "client"}
  Cases = {"case"}
  Tasks = {t1}
  Nobody = Nobody
SYMMETRY Symmetry
INVARIANTS
  RegisterIsSound
  TimelineIsTrue
  HearingComesFirst
  PoliciesMatchPermissions
  AdminRemains
PROPERTIES
  LoneRequestRepairs
