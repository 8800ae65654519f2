\* One request at a time.
\* (It stops when every signature or document has been used.)
CHECK_DEADLOCK FALSE
SPECIFICATION SerialSpec
CONSTANTS
  Requests = {r1}
  Drafts = {d1, d2, d3}
  Signatures = {s1, s2}
  NoDraft = NoDraft
  NoSignature = NoSignature
  Items = {i1, i2}
  Documents = {f1, f2}
  Reviewers = {u1}
  ByType <- MCByType
  ByName <- MCByName
  NoItem = NoItem
  NoDocument = NoDocument
  NoReviewer = NoReviewer
  Chats = {chat1, chat2}
  MaxUpdates = 3
  MaxRestarts = 1
  NoSession = NoSession
INVARIANTS
  UpdatesAreHandled
  SignatureBinds
  DialogueIsComplete
PROPERTIES
  ImplementsLifecycle
  AutoMatchKeepsLinks
  EveryUpdateIsConfirmed
