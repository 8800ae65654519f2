\* Two overlapping requests, two clients, redelivered webhooks and a restart.
\* (It stops when every invoice and transfer has been used and nobody asks.)
CHECK_DEADLOCK FALSE
SPECIFICATION Spec
CONSTANTS
  Requests = {r1, r2}
  Invoices = {i1, i2}
  Clients = {c1, c2}
  Amounts = {1, 2}
  Transfers = {t1}
  MaxRestarts = 1
  NoInvoice = NoInvoice
  NoTransfer = NoTransfer
  NoClient = NoClient
SYMMETRY Symmetry
INVARIANTS
  SettlesWhatFits
  PaymentsStand
