\* A transfer that arrives before its invoice is committed.
\* (It stops when every invoice and transfer has been used and nobody asks.)
CHECK_DEADLOCK FALSE
SPECIFICATION Spec
CONSTANTS
  Requests = {r1}
  Invoices = {i1}
  Clients = {c1}
  Amounts = {1}
  Transfers = {t1}
  MaxRestarts = 0
  NoInvoice = NoInvoice
  NoTransfer = NoTransfer
  NoClient = NoClient
INVARIANTS
  ReconciliationMatches
