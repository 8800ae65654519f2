SPECIFICATION MCSpec
CHECK_DEADLOCK FALSE
CONSTANTS
  Requests = {r1, r2}
  Contacts = {c1}
  Sources = {s1, s2}
  Leads = {row1, row2}
  Tasks = {row1, row2}
  Edits = {"spam", "in_progress"}
  MaxClients = 2
  Prospects = {row1, row2}
  LeadIds = {s1, s2}
  Raws <- MCRaws
  Parsed = {"fssp"}
  Unknown = Unknown
  None = None
  MaxOverlap = 2
  Recommended = {"restructuring"}
  Given = {"sale"}
  Empty = Empty
  Posts = {r1, r2, q3}
  ClientRows = {1, 2, 3}
  Phones = {f1}
  Emails = {e1}
SYMMETRY Symmetry
INVARIANTS
  ClientsAgree
  ProspectsAreSound
  ClientsAreFound
  OnlyReopeningBlocks
  OneRowPerPerson
  PostsMayBeRepeated
