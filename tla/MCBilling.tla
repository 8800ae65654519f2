------------------------------ MODULE MCBilling ------------------------------
(* Model values and symmetry for checking Billing.                         *)
EXTENDS Billing, TLC

Symmetry ==
  UNION {Permutations(Requests), Permutations(Invoices), Permutations(Clients),
         Permutations(Transfers)}
=============================================================================
