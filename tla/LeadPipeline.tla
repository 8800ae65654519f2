---------------------------- MODULE LeadPipeline ----------------------------
(***************************************************************************)
(* Leads from government registers, from their collection to a client with *)
(* a case: backend/app/services/lead_collector, the workers                *)
(* backend/workers/lead_collectors.py and outreach.py, and the conversion  *)
(* endpoint of backend/app/api/v1/lead_sources.py.                         *)
(*                                                                         *)
(* A collector run inserts what it has found in one transaction at its     *)
(* end.  The outreach worker loads a batch of rows, tries the channels of  *)
(* one lead after the other over HTTP until one answers, and commits all   *)
(* results together; a round that fails leaves nothing behind but the      *)
(* messages.  Staff convert leads meanwhile.  Commits write the columns    *)
(* that differ from the loaded ones.                                       *)
(***************************************************************************)
EXTENDS Naturals, FiniteSets

CONSTANTS
  Leads,         \* leads of the registers, numbered in the order of created_at
  Source,        \* the register each lead comes from
  Person,        \* who it is about: those with one phone or email (the fuzzy
                 \* match of names is left out)
  Priority,      \* SOURCE_PRIORITY of each register
  Runs,          \* collector runs that may overlap
  Requests,      \* conversions that may overlap
  Channels,      \* how many of Telegram, SMS and e-mail each lead has
  BatchSize,     \* LEAD_OUTREACH_BATCH_SIZE
  MaxAttempts,   \* OUTREACH_MAX_ATTEMPTS
  MaxCrashes,    \* bound: outreach rounds that fail
  NoLead, NoSource

ASSUME LeadAssumption ==
  /\ Leads \subseteq Nat
  /\ Channels \in [Leads -> 0 .. 3]
  /\ BatchSize \in Nat \ {0}
  /\ MaxAttempts \in Nat \ {0}
  /\ MaxCrashes \in Nat
  /\ NoLead \notin Leads
  /\ \A l \in Leads : Source[l] # NoSource

VARIABLES
  status,        \* leads.status ("absent": no such row)
  original,      \* leads.deduplicated_from
  attempts,      \* leads.contact_attempts
  recent,        \* leads contacted less than OUTREACH_WAIT_DAYS before the round
  clients,       \* clients of the CRM for each person
  cases,         \* cases created out of each lead
  collecting,    \* the register each run reads, and the rows it will insert
  found,
  converting,    \* the lead of each conversion, and whether its client is known
  known,
  round,         \* the outreach worker: "idle" or "sending"
  due,           \* leads of the batch it has not come to yet
  seen,          \* statuses as it loaded them
  tried,         \* channels it has tried for each lead of the batch
  result,        \* what came of them
  crashes,
  \* history
  sent,          \* messages delivered to each lead, without those of rounds
                 \* that were rolled back
  fresh          \* those of this round

rowVars      == <<status, original, attempts, recent>>
collectVars  == <<collecting, found>>
convertVars  == <<clients, cases, converting, known>>
outreachVars == <<round, due, seen, tried, result, crashes, sent, fresh>>
vars == <<rowVars, collectVars, convertVars, outreachVars>>

LeadStatus == {"new", "contacted", "rejected", "converted"}
Persons    == {Person[l] : l \in Leads}
Results    == {"none", "delivered", "undeliverable"}

TypeOK ==
  /\ status \in [Leads -> LeadStatus \cup {"absent"}]
  /\ original \in [Leads -> Leads \cup {NoLead}]
  /\ attempts \in [Leads -> Nat]
  /\ recent \subseteq Leads
  /\ clients \in [Persons -> Nat]
  /\ cases \in [Leads -> Nat]
  /\ collecting \in [Runs -> {Source[l] : l \in Leads} \cup {NoSource}]
  /\ found \in [Runs -> SUBSET (Leads \X (Leads \cup {NoLead}))]
  /\ converting \in [Requests -> Leads \cup {NoLead}]
  /\ known \in [Requests -> BOOLEAN]
  /\ round \in {"idle", "sending"}
  /\ due \subseteq Leads
  /\ seen \in [Leads -> LeadStatus \cup {"absent"}]
  /\ tried \in [Leads -> Nat]
  /\ result \in [Leads -> Results]
  /\ crashes \in Nat
  /\ sent \in [Leads -> Nat]
  /\ fresh \in [Leads -> Nat]

Init ==
  /\ status = [l \in Leads |-> "absent"]
  /\ original = [l \in Leads |-> NoLead]
  /\ attempts = [l \in Leads |-> 0]
  /\ recent = {}
  /\ clients = [p \in Persons |-> 0]
  /\ cases = [l \in Leads |-> 0]
  /\ collecting = [r \in Runs |-> NoSource]
  /\ found = [r \in Runs |-> {}]
  /\ converting = [q \in Requests |-> NoLead]
  /\ known = [q \in Requests |-> FALSE]
  /\ round = "idle"
  /\ due = {}
  /\ seen = [l \in Leads |-> "absent"]
  /\ tried = [l \in Leads |-> 0]
  /\ result = [l \in Leads |-> "none"]
  /\ crashes = 0
  /\ sent = [l \in Leads |-> 0]
  /\ fresh = [l \in Leads |-> 0]

Stored     == {l \in Leads : status[l] # "absent"}
Primaries  == {l \in Stored : original[l] = NoLead}

-----------------------------------------------------------------------------
(* Collector runs, of the worker and of POST /lead-sources/{source}/run     *)

StartRun(r, l) ==
  /\ collecting[r] = NoSource
  /\ collecting' = [collecting EXCEPT ![r] = Source[l]]
  /\ UNCHANGED <<rowVars, convertVars, outreachVars, found>>

EndRun(r) ==
  /\ collecting' = [collecting EXCEPT ![r] = NoSource]
  /\ found' = [found EXCEPT ![r] = {}]

Inserts(r) == {entry[1] : entry \in found[r]}

\* The leads that match and are no duplicates themselves: committed ones and
\* those this run has added to its session.
Matches(r, l) ==
  {k \in Primaries : Person[k] = Person[l]} \cup
  {k \in Inserts(r) : <<k, NoLead>> \in found[r] /\ Person[k] = Person[l]}

\* The match from the register with the best (lowest) priority, if any.
PrimaryDuplicates(r, l) ==
  IF Matches(r, l) = {} THEN {NoLead}
  ELSE {k \in Matches(r, l) :
          \A j \in Matches(r, l) : Priority[Source[k]] <= Priority[Source[j]]}

\* A lead that is not stored yet is added to the session.  (One that is has
\* its data refreshed, which is no step here.)
SaveLead(r, l) ==
  /\ collecting[r] = Source[l]
  /\ l \notin Stored \cup Inserts(r)
  /\ \E k \in PrimaryDuplicates(r, l) :
       found' = [found EXCEPT ![r] = @ \cup {<<l, k>>}]
  /\ UNCHANGED <<rowVars, convertVars, outreachVars, collecting>>

\* All rows or, if one of them has been inserted meanwhile (source and
\* external_id are unique), none.  Duplicates are rejected from the start.
CommitRun(r) ==
  /\ collecting[r] # NoSource
  /\ Inserts(r) \cap Stored = {}
  /\ status' = [l \in Leads |->
       IF l \notin Inserts(r) THEN status[l]
       ELSE IF <<l, NoLead>> \in found[r] THEN "new" ELSE "rejected"]
  /\ original' = [l \in Leads |->
       IF l \notin Inserts(r) THEN original[l]
       ELSE CHOOSE k \in Leads \cup {NoLead} : <<l, k>> \in found[r]]
  /\ EndRun(r)
  /\ UNCHANGED <<attempts, recent, convertVars, outreachVars>>

AbortRun(r) ==
  /\ collecting[r] # NoSource
  /\ EndRun(r)
  /\ UNCHANGED <<rowVars, convertVars, outreachVars>>

-----------------------------------------------------------------------------
(* The outreach worker                                                     *)

\* Mutant: the limit is forgotten.
ForgetsLimit == {l \in Primaries : status[l] \in {"new", "contacted"}}

\* The leads that may be contacted, and the oldest of them.
Reachable ==
  {l \in Primaries : status[l] \in {"new", "contacted"}
                     /\ attempts[l] < MaxAttempts}

Oldest(S) == {l \in S : Cardinality({k \in S : k < l}) < BatchSize}

\* Mutant: the wait is forgotten.
OldestReachable == Oldest(Reachable)

\* Those contacted less than OUTREACH_WAIT_DAYS before the round are skipped.
Due == Oldest(Reachable) \ recent

LoadBatch ==
  /\ round = "idle"
  /\ round' = "sending"
  /\ due' = Due
  /\ seen' = [l \in Leads |-> IF l \in Due THEN status[l] ELSE "absent"]
  /\ UNCHANGED <<rowVars, collectVars, convertVars, tried, result, crashes, sent,
                 fresh>>

\* One lead after the other, the oldest first.
InHand(l) == l \in due /\ \A k \in due : l <= k

Delivers(l) ==
  /\ sent' = [sent EXCEPT ![l] = @ + 1]
  /\ fresh' = [fresh EXCEPT ![l] = @ + 1]

\* The next channel answers that it has delivered the message, and no other is
\* tried.
SendMessage(l) ==
  /\ InHand(l) /\ tried[l] < Channels[l]
  /\ tried' = [tried EXCEPT ![l] = @ + 1]
  /\ Delivers(l)
  /\ result' = [result EXCEPT ![l] = "delivered"]
  /\ due' = due \ {l}
  /\ UNCHANGED <<rowVars, collectVars, convertVars, round, seen, crashes>>

\* It fails, or its answer is lost or unreadable: then the message may have
\* been delivered, and the channel after it is tried all the same.
ChannelFails(l) ==
  /\ InHand(l) /\ tried[l] < Channels[l]
  /\ tried' = [tried EXCEPT ![l] = @ + 1]
  /\ Delivers(l) \/ UNCHANGED <<sent, fresh>>
  /\ UNCHANGED <<rowVars, collectVars, convertVars, round, due, seen, result,
                 crashes>>

\* No channel is left.
NoChannel(l) ==
  /\ InHand(l) /\ tried[l] = Channels[l]
  /\ result' = [result EXCEPT ![l] = "undeliverable"]
  /\ due' = due \ {l}
  /\ UNCHANGED <<rowVars, collectVars, convertVars, round, seen, tried, crashes,
                 sent, fresh>>

AttemptsAfter(l) ==
  attempts[l] + IF result[l] = "delivered" THEN 1 ELSE 0

\* The status the round flushes: a column that keeps its loaded value is not
\* written.
Flushed(l) ==
  CASE result[l] = "undeliverable" -> "rejected"
    [] result[l] = "delivered" /\ seen[l] # "contacted" -> "contacted"
    [] OTHER -> status[l]

RecentAfter == recent \cup {l \in Leads : result[l] = "delivered"}

\* Mutant: a lead is given up one attempt later.
GivesUpLate(l) ==
  Flushed(l) = "contacted" /\ AttemptsAfter(l) > MaxAttempts

\* Contacted often enough and some time ago.
GivenUp(l) ==
  /\ Flushed(l) = "contacted"
  /\ AttemptsAfter(l) >= MaxAttempts
  /\ l \notin RecentAfter

EndRound ==
  /\ round' = "idle"
  /\ due' = {}
  /\ seen' = [l \in Leads |-> "absent"]
  /\ tried' = [l \in Leads |-> 0]
  /\ result' = [l \in Leads |-> "none"]
  /\ fresh' = [l \in Leads |-> 0]

\* After the last message the results are flushed, leads given up, and all of
\* it committed.
CommitRound ==
  /\ round = "sending"
  /\ due = {}
  /\ status' = [l \in Leads |-> IF GivenUp(l) THEN "rejected" ELSE Flushed(l)]
  /\ attempts' = [l \in Leads |-> AttemptsAfter(l)]
  /\ recent' = RecentAfter
  /\ EndRound
  /\ UNCHANGED <<original, collectVars, convertVars, crashes, sent>>

\* An exception rolls the round back, or the worker is killed and started
\* again.
AbortRound ==
  /\ round = "sending"
  /\ crashes < MaxCrashes
  /\ crashes' = crashes + 1
  /\ sent' = [l \in Leads |-> sent[l] - fresh[l]]
  /\ EndRound
  /\ UNCHANGED <<rowVars, collectVars, convertVars>>

\* OUTREACH_WAIT_DAYS have passed since a lead was contacted.  A round looks at
\* the clock once, at its start.
WaitEnds(l) ==
  /\ round = "idle"
  /\ l \in recent
  /\ recent' = recent \ {l}
  /\ UNCHANGED <<status, original, attempts, collectVars, convertVars,
                 outreachVars>>

-----------------------------------------------------------------------------
(* POST /lead-sources/leads/{id}/convert                                   *)

\* Mutant: duplicates can be converted.
ConvertsAny(l) == l \in Stored /\ status[l] # "converted"

MayConvert(l) == l \in Primaries /\ status[l] # "converted"

\* Mutant: every lead is a new client.
NeverKnown(l) == FALSE

ClientKnown(l) == clients[Person[l]] > 0

\* The lead is loaded and a client looked for.
LoadLead(q, l) ==
  /\ converting[q] = NoLead
  /\ MayConvert(l)
  /\ converting' = [converting EXCEPT ![q] = l]
  /\ known' = [known EXCEPT ![q] = ClientKnown(l)]
  /\ UNCHANGED <<rowVars, collectVars, outreachVars, clients, cases>>

EndConversion(q) ==
  /\ converting' = [converting EXCEPT ![q] = NoLead]
  /\ known' = [known EXCEPT ![q] = FALSE]

\* A client if none was known, a case, and the lead is converted.
CommitConversion(q) ==
  LET l == converting[q] IN
    /\ l # NoLead
    /\ clients' = [clients EXCEPT ![Person[l]] =
         IF known[q] THEN @ ELSE @ + 1]
    /\ cases' = [cases EXCEPT ![l] = @ + 1]
    /\ status' = [status EXCEPT ![l] = "converted"]
    /\ EndConversion(q)
    /\ UNCHANGED <<original, attempts, recent, collectVars, outreachVars>>

AbortConversion(q) ==
  /\ converting[q] # NoLead
  /\ EndConversion(q)
  /\ UNCHANGED <<rowVars, collectVars, outreachVars, clients, cases>>

-----------------------------------------------------------------------------
CollectorStep(r) ==
  \/ \E l \in Leads : StartRun(r, l) \/ SaveLead(r, l)
  \/ CommitRun(r)
  \/ AbortRun(r)

OutreachStep ==
  \/ LoadBatch
  \/ \E l \in Leads : SendMessage(l) \/ ChannelFails(l) \/ NoChannel(l)
  \/ CommitRound

ConvertStep(q) ==
  \/ \E l \in Leads : LoadLead(q, l)
  \/ CommitConversion(q)
  \/ AbortConversion(q)

Next ==
  \/ \E r \in Runs : CollectorStep(r)
  \/ OutreachStep
  \/ AbortRound
  \/ \E l \in Leads : WaitEnds(l)
  \/ \E q \in Requests : ConvertStep(q)

Spec == Init /\ [][Next]_vars

\* The worker starts a round every six hours and sleeps in between, and time
\* passes.  Nothing is assumed of collectors and staff.
Fairness ==
  /\ WF_vars(OutreachStep)
  /\ \A l \in Leads : SF_vars(WaitEnds(l))

FairSpec == Spec /\ Fairness

-----------------------------------------------------------------------------
(* Properties                                                              *)

\* A lead may get a message over each of its channels for one attempt, since an
\* answer that is lost counts as a failure; but nobody gets more of them than
\* that for each attempt the limit allows, apart from messages whose round was
\* rolled back: neither rounds in which every answer is lost, nor conversions
\* in between, nor a lead that comes back to "contacted" start the count again.
ContactLimit == \A l \in Leads : sent[l] <= Channels[l] * MaxAttempts

\* A message to a lead that was contacted recently is one whose predecessor
\* was lost: the wait is kept although the batch was loaded long before.
WaitIsKept ==
  [][\A l \in recent : sent'[l] = sent[l]]_vars

\* A duplicate is a duplicate of a lead that is stored, is about the same
\* person and is none itself, and nobody works on it: whatever collector
\* runs overlap or are rolled back.
DuplicatesAreSettled ==
  \A l \in Stored : original[l] # NoLead =>
    /\ original[l] \in Primaries
    /\ Person[original[l]] = Person[l]
    /\ status[l] = "rejected" /\ sent[l] = 0 /\ cases[l] = 0

\* With one conversion at a time nobody becomes two clients, even if two
\* collector runs each took them for a new lead.
OneClientPerPerson == \A p \in Persons : clients[p] <= 1

\* Every lead is converted or given up in the end: a lead that waits does not
\* keep its place in the batch for ever.
EveryLeadSettles ==
  \A l \in Leads :
    status[l] \in {"new", "contacted"} ~> status[l] \in {"rejected", "converted"}
=============================================================================
