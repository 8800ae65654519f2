\* Two requests that may overtake each other; the client in its cabinet.
\* (It stops when every draft, signature, code, case and item has been used.)
CHECK_DEADLOCK FALSE
SPECIFICATION MCSpec
CONSTANTS
  Requests = {r1, r2}
  Drafts = {d1, d2}
  Signatures = {s1, s2}
  NoDraft = NoDraft
  NoSignature = NoSignature
  ClientRows = {c1, c2}
  Clients = {c1, c2}
  Phones = {p1, p2}
  NoPhone = NoPhone
  Codes = {1, 2}
  NoCode = NoCode
  MaxAttempts = 2
  Lawyers = {l1}
  Cases = {k1, k2}
  Items = {s1, s2}
  Nobody = Nobody
  Nothing = Nothing
  Files = {d1, d2}
  Held = {"snils", "inn_cert", "income_2ndfl", "credit_report", "bank_statement", "credit_contract", "bankruptcy_application", "creditors_registry", "asset_inventory", "power_of_attorney"}
  Offered = {"passport", "marriage_cert", "selfie"}
  NoFile = NoFile
SYMMETRY Symmetry
INVARIANTS
  LoginIsSound
  CabinetIsSound
  DossierIsSound
  SignedWasApproved
PROPERTY
  ProgressGrows
