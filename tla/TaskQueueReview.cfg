\* A lawyer's decision against a worker that is still processing the document.
SPECIFICATION Spec
CONSTANTS
  Tasks = {t1}
  Docs = {d1}
  Workers = {w1}
  Agents = {"ocr"}
  MaxRetries = 1
  MaxCrashes = 0
  MaxOutages = 0
  NoTask = NoTask
  NoDoc = NoDoc
PROPERTIES
  DecisionStands
