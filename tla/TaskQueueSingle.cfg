\* The deployed configuration: one worker process.
SPECIFICATION FairSpec
CONSTANTS
  Tasks = {t1, t2}
  Docs = {d1}
  Workers = {w1}
  Agents = {"ocr", "qualification", "unknown"}
  MaxRetries = 2
  MaxCrashes = 1
  MaxOutages = 1
  NoTask = NoTask
  NoDoc = NoDoc
PROPERTIES
  ImplementsLifecycle
  EveryTaskSettles
