------------------------- MODULE RequiredDocuments -------------------------
(* The documents a case needs (services/document_checklist.py).            *)
EXTENDS Naturals, FiniteSets

Base == {"passport", "snils", "inn_cert", "income_2ndfl", "credit_report", "bank_statement"}
Process == {"bankruptcy_application", "creditors_registry", "asset_inventory",
            "power_of_attorney"}

\* marital status, is_employed (a missing value is neither), the kinds of
\* property, the number of creditors.
Conditional(marital, employed, property, creditors) ==
  UNION {IF marital = "married" THEN {"marriage_cert"} ELSE {},
         IF marital = "divorced" THEN {"divorce_cert"} ELSE {},
         IF property \cap {"apartment", "house"} # {} THEN {"egrn_extract"} ELSE {},
         IF "car" \in property THEN {"vehicle_title"} ELSE {},
         IF employed = "no" THEN {"unemployment_cert"} ELSE {},
         IF creditors > 0 THEN {"credit_contract", "payment_schedule"} ELSE {}}

\* Schedules of payments are asked for, not required.
Optional == {"payment_schedule"}

Checklist(marital, employed, property, creditors) ==
  Base \cup Process \cup Conditional(marital, employed, property, creditors)

Required(list) == list \ Optional
Missing(list, collected) == Required(list) \ collected

\* round(part / whole * 100, 1), in tenths of a percent; no list is so long
\* that a tie can occur.
Tenths(part, whole) == (2000 * part + whole) \div (2 * whole)

Progress(list, collected) ==
  Tenths(Cardinality(Required(list) \cap collected), Cardinality(Required(list)))
IsComplete(list, collected) == Missing(list, collected) = {}
=============================================================================
