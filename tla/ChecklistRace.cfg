\* Two requests for one item that may overtake each other.
SPECIFICATION ChecklistSpec
CONSTANTS
  Requests = {r1, r2}
  Items = {i1}
  Documents = {d1, d2}
  Reviewers = {u1, u2}
  ByType <- MCByType
  ByName <- MCByName
  NoItem = NoItem
  NoDocument = NoDocument
  NoReviewer = NoReviewer
SYMMETRY Symmetry
INVARIANTS
  ApprovedWasReviewed
