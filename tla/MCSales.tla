------------------------------ MODULE MCSales ------------------------------
(* Three services that make leads, with nothing in common but the          *)
(* salesman: the lead generation service, once with two requests that      *)
(* overlap and once with one that handles several leads in a row,          *)
(* prospecting, and the chat of the site.                                  *)
EXTENDS LeadGen, Prospecting, AIEndpoints, TLC

VARIABLE which

Raw(type, category, ext, inn, phone, debt) ==
  [type |-> type, category |-> category, ext |-> ext, inn |-> inn, phone |-> phone,
   email |-> Unknown, debt |-> debt, capital |-> TRUE, creditors |-> 1, poor |-> FALSE]

\* A register knows a phone, a form knows an INN and another phone, and a
\* later entry of the register has that INN.
MCRaws == {Raw("fssp", "government", "e1", Unknown, "f1", 500),
           Raw("website_form", "website", Unknown, "i1", "f2", 300),
           Raw("fssp", "government", "e1", "i1", Unknown, 1000)}

MCInit ==
  /\ which \in {"race", "serial", "prospects", "chat"}
  /\ Init /\ ProspectInit /\ ChatInit

\* There is one lead.
RaceNext == Next /\ Cardinality({l \in Leads : lead'[l] # NoRow}) <= 1

\* One request at a time, and one task of a lead, by the lead's name.
SerialNext ==
  /\ Next
  /\ Cardinality({r \in Requests : req'[r] # Idle}) <= 1
  /\ \A l \in Leads : pending'[l] \subseteq {l}

MCNext ==
  /\ UNCHANGED which
  /\ \/ which = "race" /\ RaceNext /\ UNCHANGED <<prospectVars, chatVars>>
     \/ which = "serial" /\ SerialNext /\ UNCHANGED <<prospectVars, chatVars>>
     \/ which = "prospects" /\ ProspectNext /\ UNCHANGED <<vars, chatVars>>
     \/ which = "chat" /\ ChatNext /\ UNCHANGED <<vars, prospectVars>>

MCSpec == MCInit /\ [][MCNext]_<<which, vars, prospectVars, chatVars>>

\* The rows of different tables share their names, and posts those of requests,
\* so that there are few permutations.
Symmetry == Permutations(Requests) \cup Permutations(Sources) \cup Permutations(Leads)
=============================================================================
