\* Two overlapping collector runs, one conversion at a time, a batch of one.
SPECIFICATION FairSpec
CONSTANTS
  Leads = {1, 2}
  Source <- MCSource
  Person <- MCPerson
  Priority <- MCPriority
  Channels <- MCChannels
  Runs = {"manual", "worker"}
  Requests = {"staff"}
  BatchSize = 1
  MaxAttempts = 2
  MaxCrashes = 1
  NoLead = 0
  NoSource = "none"
INVARIANTS
  ContactLimit
  DuplicatesAreSettled
  OneClientPerPerson
PROPERTIES
  WaitIsKept
  EveryLeadSettles
