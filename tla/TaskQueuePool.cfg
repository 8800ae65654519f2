\* Two workers, as when the worker service is scaled or replaced while running.
SPECIFICATION Spec
CONSTANTS
  Tasks = {t1, t2}
  Docs = {d1}
  Workers = {w1, w2}
  Agents = {"ocr", "unknown"}
  MaxRetries = 2
  MaxCrashes = 1
  MaxOutages = 0
  NoTask = NoTask
  NoDoc = NoDoc
SYMMETRY Symmetry
INVARIANTS
  ProcessingIsHeld
  GivesUpOnlyAfterRetries
  UploadIsAtomic
