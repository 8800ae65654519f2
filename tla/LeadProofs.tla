---------------------------- MODULE LeadProofs ----------------------------
(***************************************************************************)
(* Proofs about LeadPipeline, for any leads and registers and any number   *)
(* of collector runs, conversions and failed rounds.                       *)
(*                                                                         *)
(* The rows say nothing of what is under way.  The count of the messages   *)
(* needs those of the round and the end of leads that no channel reached   *)
(* (RoundCounts), and a batch must still be allowed when its turn comes    *)
(* (BatchIsDue).  That nobody works on duplicates needs what runs are      *)
(* about to insert (FoundIsSound) and that no row ever stops being a       *)
(* primary one (WorkIsOnPrimaries).                                        *)
(***************************************************************************)
EXTENDS LeadPipeline, TLAPS

Touched(l) == l \in due \/ result[l] # "none"

\* What a round does with the lead in its hand.
Try(l) == SendMessage(l) \/ ChannelFails(l) \/ NoChannel(l)

\* A round sends a lead no more messages than it tries channels.  The attempts
\* in the row account for those of earlier rounds, but for the last round of a
\* lead that no channel seemed to reach: such a lead is settled.
RoundCounts ==
  \A l \in Leads :
    /\ fresh[l] <= tried[l] /\ tried[l] <= Channels[l] /\ fresh[l] <= sent[l]
    /\ fresh[l] > 0 => Touched(l)
    /\ attempts[l] <= MaxAttempts
    /\ \/ sent[l] <= Channels[l] * attempts[l] + fresh[l]
       \/ /\ sent[l] <= Channels[l] * MaxAttempts
          /\ status[l] \in {"rejected", "converted"} /\ ~Touched(l)

\* What the round has not come to yet may still be contacted.
BatchIsDue ==
  /\ \A l \in Leads : Touched(l) => attempts[l] < MaxAttempts /\ l \notin recent
  /\ \A l \in due : result[l] = "none"
  /\ round = "idle" => due = {} /\ \A l \in Leads : result[l] = "none"

\* A run inserts every lead once, with an original that is stored or inserted
\* by the same run.
FoundIsSound ==
  \A r \in Runs : \A e \in found[r] :
    /\ \A f \in found[r] : f[1] = e[1] => f = e
    /\ e[2] # NoLead => /\ Person[e[2]] = Person[e[1]]
                        /\ e[2] \in Primaries \/ <<e[2], NoLead>> \in found[r]

WorkIsOnPrimaries ==
  \A l \in Leads :
    \/ l \in due
    \/ result[l] # "none"
    \/ \E q \in Requests : converting[q] = l
    \/ sent[l] > 0
    \/ cases[l] > 0
    => l \in Primaries

\* What a duplicate's row says.
RowsAreSound ==
  \A l \in Stored : original[l] # NoLead =>
    /\ original[l] \in Primaries
    /\ Person[original[l]] = Person[l]
    /\ status[l] = "rejected"

Rest == RoundCounts /\ BatchIsDue /\ FoundIsSound /\ WorkIsOnPrimaries /\
        RowsAreSound

Inv == TypeOK /\ Rest

\* With one request at a time: a conversion that has found no client is right
\* until it commits.
ClientsAreSingle ==
  /\ \A p \in Persons : clients[p] <= 1
  /\ \A q \in Requests :
       converting[q] # NoLead /\ ~known[q] => clients[Person[converting[q]]] = 0

-----------------------------------------------------------------------------
(* Types                                                                   *)

\* The initial state is well typed.
LEMMA InitTypeOK == Init => TypeOK
BY DEF Init, TypeOK, Results

\* What a round adds to a lead's attempts is zero or one.
LEMMA AttemptsType ==
  ASSUME TypeOK, NEW l \in Leads
  PROVE  AttemptsAfter(l) \in Nat /\ AttemptsAfter(l) \in {attempts[l], attempts[l] + 1}
BY DEF AttemptsAfter, TypeOK

\* What a round does with one lead is no business of the others, and the rows
\* are left alone until it commits.
LEMMA TryStep ==
  ASSUME TypeOK, NEW l \in Leads, Try(l)
  PROVE  /\ l \in due /\ due' \in {due, due \ {l}}
         /\ UNCHANGED <<rowVars, collectVars, convertVars, round, seen, crashes>>
         /\ tried' \in [Leads -> Nat] /\ sent' \in [Leads -> Nat]
         /\ fresh' \in [Leads -> Nat] /\ result' \in [Leads -> Results]
         /\ \A k \in Leads \ {l} : /\ tried'[k] = tried[k] /\ sent'[k] = sent[k]
                                  /\ fresh'[k] = fresh[k] /\ result'[k] = result[k]
         /\ l \in due' => result'[l] = result[l]
         /\ l \notin due' => result'[l] # "none"
         /\ \/ /\ tried[l] < Channels[l] /\ tried'[l] = tried[l] + 1
               /\ \/ sent'[l] = sent[l] + 1 /\ fresh'[l] = fresh[l] + 1
                  \/ sent'[l] = sent[l] /\ fresh'[l] = fresh[l]
            \/ tried'[l] = tried[l] /\ sent'[l] = sent[l] /\ fresh'[l] = fresh[l]
<1> USE DEF TypeOK, Results, InHand
<1>1. CASE SendMessage(l)
  BY <1>1 DEF SendMessage, Delivers
<1>2. CASE ChannelFails(l)
  BY <1>2 DEF ChannelFails, Delivers
<1>3. CASE NoChannel(l)
  BY <1>3 DEF NoChannel
<1> QED
  BY <1>1, <1>2, <1>3 DEF Try

\* A run looks for duplicates among the leads.
LEMMA DuplicateType ==
  ASSUME TypeOK, NEW r \in Runs, NEW l, NEW k \in PrimaryDuplicates(r, l)
  PROVE  k \in Leads \cup {NoLead}
BY DEF TypeOK, PrimaryDuplicates, Matches, Primaries, Stored, Inserts

\* Every lead a run inserts has an original or is one.
LEMMA OriginalType ==
  ASSUME TypeOK, NEW r \in Runs, NEW l \in Inserts(r)
  PROVE  LET k == CHOOSE k \in Leads \cup {NoLead} : <<l, k>> \in found[r]
         IN  k \in Leads \cup {NoLead} /\ <<l, k>> \in found[r]
<1>1. PICK e \in found[r] : l = e[1]
  BY DEF Inserts
<1>2. e \in Leads \X (Leads \cup {NoLead})
  BY DEF TypeOK
<1>3. e = <<l, e[2]>> /\ e[2] \in Leads \cup {NoLead}
  BY <1>1, <1>2
<1> QED
  BY <1>1, <1>3

\* A run keeps the types.
LEMMA CollectorTypes ==
  ASSUME TypeOK, NEW r \in Runs, CollectorStep(r)
  PROVE  TypeOK'
<1> USE DEF rowVars, convertVars, outreachVars
<1>1. ASSUME NEW l \in Leads, StartRun(r, l)
      PROVE  TypeOK'
  BY <1>1 DEF TypeOK, StartRun
<1>2. ASSUME NEW l \in Leads, SaveLead(r, l)
      PROVE  TypeOK'
  <2>1. PICK k \in PrimaryDuplicates(r, l) :
          found' = [found EXCEPT ![r] = @ \cup {<<l, k>>}]
    BY <1>2 DEF SaveLead
  <2>2. <<l, k>> \in Leads \X (Leads \cup {NoLead})
    BY DuplicateType
  <2>3. found' \in [Runs -> SUBSET (Leads \X (Leads \cup {NoLead}))]
    BY <2>1, <2>2 DEF TypeOK
  <2> QED
    BY <1>2, <2>3 DEF TypeOK, SaveLead
<1>3. CASE CommitRun(r)
  <2>1. status' \in [Leads -> LeadStatus \cup {"absent"}]
    BY <1>3 DEF TypeOK, CommitRun, LeadStatus
  <2>2. original' \in [Leads -> Leads \cup {NoLead}]
    <3>1. ASSUME NEW l \in Leads, l \in Inserts(r)
          PROVE  (CHOOSE k \in Leads \cup {NoLead} : <<l, k>> \in found[r])
                   \in Leads \cup {NoLead}
      BY <3>1, OriginalType
    <3> QED
      BY <1>3, <3>1 DEF TypeOK, CommitRun
  <2> QED
    BY <1>3, <2>1, <2>2 DEF TypeOK, CommitRun, EndRun
<1>4. CASE AbortRun(r)
  BY <1>4 DEF TypeOK, AbortRun, EndRun
<1> QED
  BY <1>1, <1>2, <1>3, <1>4 DEF CollectorStep

\* A round keeps the types, whether it fails or not.
LEMMA OutreachTypes ==
  ASSUME Inv, OutreachStep \/ AbortRound
  PROVE  TypeOK'
<1> USE DEF Inv, rowVars, convertVars, collectVars
<1>1. CASE LoadBatch
  <2>1. Due \subseteq Leads
    BY DEF Due, Oldest, Reachable, Primaries, Stored
  <2> QED
    BY <1>1, <2>1 DEF TypeOK, LoadBatch
<1>2. ASSUME NEW l \in Leads, Try(l)
      PROVE  TypeOK'
  BY <1>2, TryStep DEF TypeOK
<1>3. CASE CommitRound
  <2>1. status' \in [Leads -> LeadStatus \cup {"absent"}]
    BY <1>3 DEF TypeOK, CommitRound, Flushed, LeadStatus
  <2>2. attempts' \in [Leads -> Nat] /\ recent' \subseteq Leads
    BY <1>3, AttemptsType DEF TypeOK, CommitRound, RecentAfter
  <2> QED
    BY <1>3, <2>1, <2>2 DEF TypeOK, CommitRound, EndRound, Results
<1>4. CASE AbortRound
  <2>1. \A l \in Leads : sent[l] - fresh[l] \in Nat
    BY DEF TypeOK, Rest, RoundCounts
  <2>2. sent' \in [Leads -> Nat]
    BY <1>4, <2>1 DEF AbortRound
  <2>3. crashes' \in Nat
    BY <1>4 DEF TypeOK, AbortRound
  <2>4. EndRound /\ UNCHANGED <<rowVars, collectVars, convertVars>>
    BY <1>4 DEF AbortRound
  <2> QED
    BY <2>2, <2>3, <2>4 DEF TypeOK, EndRound, Results
<1> QED
  BY <1>1, <1>2, <1>3, <1>4 DEF OutreachStep, Try

\* A conversion keeps the types.
LEMMA ConvertTypes ==
  ASSUME TypeOK, NEW q \in Requests, ConvertStep(q)
  PROVE  TypeOK'
<1> USE DEF rowVars, collectVars, outreachVars
<1>1. ASSUME NEW l \in Leads, LoadLead(q, l)
      PROVE  TypeOK'
  <2>1. ClientKnown(l) \in BOOLEAN
    BY DEF ClientKnown
  <2> QED
    BY <1>1, <2>1 DEF TypeOK, LoadLead
<1>2. CASE CommitConversion(q)
  <2>1. converting[q] \in Leads
    BY <1>2 DEF TypeOK, CommitConversion
  <2>2. Person[converting[q]] \in Persons
    BY <2>1 DEF Persons
  <2>3. clients' \in [Persons -> Nat]
    <3> DEFINE p == Person[converting[q]]
    <3>1. clients \in [Persons -> Nat] /\ p \in Persons
      BY <2>2 DEF TypeOK
    <3>2. \/ clients' = [clients EXCEPT ![p] = clients[p]]
          \/ clients' = [clients EXCEPT ![p] = clients[p] + 1]
      BY <1>2 DEF CommitConversion
    <3>3. clients[p] \in Nat /\ clients[p] + 1 \in Nat
      BY <3>1
    <3> HIDE DEF p
    <3> QED
      BY <3>1, <3>2, <3>3
  <2>4. cases' \in [Leads -> Nat]
    <3>1. cases' = [cases EXCEPT ![converting[q]] = cases[converting[q]] + 1]
      BY <1>2 DEF CommitConversion
    <3>2. cases \in [Leads -> Nat]
      BY DEF TypeOK
    <3>3. cases[converting[q]] + 1 \in Nat
      BY <2>1, <3>2
    <3> QED
      BY <3>1, <3>2, <3>3
  <2>5. status' \in [Leads -> LeadStatus \cup {"absent"}]
    BY <1>2, <2>1 DEF TypeOK, CommitConversion, LeadStatus
  <2> QED
    BY <1>2, <2>3, <2>4, <2>5 DEF TypeOK, CommitConversion, EndConversion
<1>3. CASE AbortConversion(q)
  BY <1>3 DEF TypeOK, AbortConversion, EndConversion
<1> QED
  BY <1>1, <1>2, <1>3 DEF ConvertStep

\* Every step keeps the types.
LEMMA TypeStep == Inv /\ [Next]_vars => TypeOK'
<1> SUFFICES ASSUME Inv, [Next]_vars
             PROVE  TypeOK'
  OBVIOUS
<1> USE DEF Inv
<1>1. ASSUME NEW l \in Leads, WaitEnds(l)
      PROVE  TypeOK'
  BY <1>1 DEF TypeOK, WaitEnds, collectVars, convertVars, outreachVars
<1>2. CASE UNCHANGED vars
  BY <1>2 DEF TypeOK, vars, rowVars, collectVars, convertVars, outreachVars
<1> QED
  BY <1>1, <1>2, CollectorTypes, OutreachTypes, ConvertTypes DEF Next

-----------------------------------------------------------------------------
(* Primary rows stay primary                                               *)

\* There is no lead called NoLead.
LEMMA NoLeadIsNone == NoLead \notin Leads
BY LeadAssumption

\* A run only adds rows, and what it adds is what it found.
LEMMA InsertedRows ==
  ASSUME Inv, NEW r \in Runs, CommitRun(r), NEW l \in Leads
  PROVE  IF l \in Inserts(r)
           THEN /\ l \notin Stored /\ l \in Stored'
                /\ <<l, original'[l]>> \in found[r]
                /\ original'[l] \in Leads \cup {NoLead}
                /\ original'[l] # NoLead => status'[l] = "rejected"
           ELSE status'[l] = status[l] /\ original'[l] = original[l]
<1>1. /\ status'[l] = IF l \notin Inserts(r) THEN status[l]
                      ELSE IF <<l, NoLead>> \in found[r] THEN "new"
                      ELSE "rejected"
      /\ Inserts(r) \cap Stored = {}
  BY DEF CommitRun
<1>2. original'[l] = IF l \notin Inserts(r) THEN original[l]
        ELSE CHOOSE k \in Leads \cup {NoLead} : <<l, k>> \in found[r]
  BY DEF CommitRun
<1>3. CASE l \in Inserts(r)
  <2>1. <<l, original'[l]>> \in found[r] /\ original'[l] \in Leads \cup {NoLead}
    BY <1>2, <1>3, OriginalType DEF Inv
  <2>2. <<l, NoLead>> \in found[r] => original'[l] = NoLead
    BY <2>1 DEF Inv, Rest, FoundIsSound
  <2> QED
    BY <1>1, <1>3, <2>1, <2>2 DEF Stored
<1> QED
  BY <1>1, <1>2, <1>3

\* A round changes the status of stored leads that are no duplicates only, and
\* none of them disappears.
LEMMA RoundStatus ==
  ASSUME Inv, CommitRound, NEW l \in Leads
  PROVE  /\ l \in Stored <=> l \in Stored'
         /\ original'[l] = original[l]
         /\ status'[l] # status[l] =>
              result[l] # "none" \/ status[l] = "contacted"
<1>1. status'[l] = IF GivenUp(l) THEN "rejected" ELSE Flushed(l)
  BY DEF CommitRound
<1>2. l \notin Stored => result[l] = "none"
  BY DEF Inv, Rest, WorkIsOnPrimaries, Primaries
<1>3. result[l] = "none" => Flushed(l) = status[l]
  BY DEF Flushed
<1>4. Flushed(l) # "absent" <=> status[l] # "absent"
  BY <1>2, <1>3 DEF Flushed, Stored
<1>5. GivenUp(l) => Flushed(l) = "contacted"
  BY DEF GivenUp
<1>6. original' = original
  BY DEF CommitRound
<1> QED
  BY <1>1, <1>3, <1>4, <1>5, <1>6 DEF Stored

\* No step takes a lead out of the primary ones.
LEMMA PrimariesStay ==
  ASSUME Inv, [Next]_vars
  PROVE  Primaries \subseteq Primaries'
<1> USE DEF Primaries
<1>1. CASE UNCHANGED <<status, original>>
  BY <1>1 DEF Stored
<1>2. ASSUME NEW r \in Runs, CommitRun(r)
      PROVE  Primaries \subseteq Primaries'
  BY <1>2, InsertedRows DEF Stored
<1>3. CASE CommitRound
  BY <1>3, RoundStatus DEF Stored
<1>4. ASSUME NEW q \in Requests, CommitConversion(q)
      PROVE  Primaries \subseteq Primaries'
  <2>1. /\ status' = [status EXCEPT ![converting[q]] = "converted"]
        /\ original' = original
    BY <1>4 DEF CommitConversion
  <2>2. \A l \in Leads : status'[l] \in {status[l], "converted"}
    BY <2>1 DEF Inv, TypeOK
  <2> QED
    BY <2>1, <2>2 DEF Stored
<1>5. ASSUME NEW r \in Runs, CollectorStep(r)
      PROVE  Primaries \subseteq Primaries'
  BY <1>1, <1>2, <1>5
  DEF CollectorStep, StartRun, SaveLead, AbortRun, rowVars
<1>6. CASE OutreachStep \/ AbortRound
  BY <1>1, <1>3, <1>6
  DEF OutreachStep, LoadBatch, SendMessage, ChannelFails, NoChannel, AbortRound, rowVars
<1>7. ASSUME NEW q \in Requests, ConvertStep(q)
      PROVE  Primaries \subseteq Primaries'
  BY <1>1, <1>4, <1>7 DEF ConvertStep, LoadLead, AbortConversion, rowVars
<1>8. ASSUME NEW l \in Leads, WaitEnds(l)
      PROVE  Primaries \subseteq Primaries'
  BY <1>1, <1>8 DEF WaitEnds
<1>9. CASE UNCHANGED vars
  BY <1>1, <1>9 DEF vars, rowVars
<1> QED
  BY <1>5, <1>6, <1>7, <1>8, <1>9 DEF Next

-----------------------------------------------------------------------------
(* The count of the messages                                               *)

roundVars == <<attempts, tried, sent, fresh, result>>

\* The steps that have nothing to do with messages.
LEMMA OtherSteps ==
  ASSUME \/ \E r \in Runs : CollectorStep(r)
         \/ \E q \in Requests : ConvertStep(q)
         \/ UNCHANGED vars
  PROVE  UNCHANGED <<roundVars, recent, due, round>>
<1> USE DEF roundVars, rowVars, outreachVars
<1>1. ASSUME NEW r \in Runs, CollectorStep(r)
      PROVE  UNCHANGED <<roundVars, recent, due, round>>
  BY <1>1 DEF CollectorStep, StartRun, SaveLead, CommitRun, AbortRun
<1>2. ASSUME NEW q \in Requests, ConvertStep(q)
      PROVE  UNCHANGED <<roundVars, recent, due, round>>
  BY <1>2 DEF ConvertStep, LoadLead, CommitConversion, AbortConversion
<1>3. CASE UNCHANGED vars
  BY <1>3 DEF vars
<1> QED
  BY <1>1, <1>2, <1>3

\* So many attempts more, so many times the channels more.
LEMMA Products ==
  ASSUME NEW c \in Nat, NEW a \in Nat, NEW b \in Nat
  PROVE  /\ c * (a + 1) = c * a + c
         /\ a <= b => c * a <= c * b
         /\ a < b => c * a + c <= c * b
         /\ c * a \in Nat
<1>1. c * (a + 1) = c * a + c /\ c * a \in Nat
  OBVIOUS
<1>2. ASSUME a <= b
      PROVE  c * a <= c * b
  <2> DEFINE d == b - a
  <2>1. d \in Nat /\ b = a + d
    BY <1>2
  <2> HIDE DEF d
  <2>2. c * d \in Nat /\ c * (a + d) = c * a + c * d
    BY <2>1
  <2> QED
    BY <1>1, <2>1, <2>2
<1>3. ASSUME a < b
      PROVE  c * a + c <= c * b
  <2> DEFINE d == b - (a + 1)
  <2>1. d \in Nat /\ b = (a + 1) + d
    BY <1>3
  <2> HIDE DEF d
  <2>2. c * d \in Nat /\ c * ((a + 1) + d) = c * a + c + c * d
    BY <2>1
  <2> QED
    BY <1>1, <2>1, <2>2
<1> QED
  BY <1>1, <1>2, <1>3

\* Types of the numbers that are counted.
LEMMA CountTypes ==
  ASSUME Inv, NEW l \in Leads
  PROVE  /\ attempts[l] \in Nat /\ tried[l] \in Nat /\ sent[l] \in Nat
         /\ fresh[l] \in Nat /\ Channels[l] \in Nat /\ MaxAttempts \in Nat
         /\ Channels[l] * attempts[l] \in Nat /\ Channels[l] * MaxAttempts \in Nat
<1>1. /\ attempts[l] \in Nat /\ tried[l] \in Nat /\ sent[l] \in Nat
      /\ fresh[l] \in Nat /\ Channels[l] \in Nat /\ MaxAttempts \in Nat
  BY LeadAssumption DEF Inv, TypeOK
<1> QED
  BY <1>1, Products

\* A settled lead that the round leaves alone is settled ever after.
LEMMA SettledStays ==
  ASSUME Inv, [Next]_vars, NEW l \in Leads,
         status[l] \in {"rejected", "converted"}, ~Touched(l)
  PROVE  status'[l] \in {"rejected", "converted"} /\ ~Touched(l)'
<1> USE DEF Inv, Rest
<1>1. CASE UNCHANGED <<status, due, result>>
  BY <1>1 DEF Touched
<1>2. ASSUME NEW r \in Runs, CommitRun(r)
      PROVE  status'[l] = status[l] /\ UNCHANGED <<due, result>>
  BY <1>2, InsertedRows DEF Stored, CommitRun, outreachVars
<1>3. ASSUME NEW r \in Runs, CollectorStep(r)
      PROVE  status'[l] = status[l] /\ UNCHANGED <<due, result>>
  BY <1>2, <1>3 DEF CollectorStep, StartRun, SaveLead, AbortRun, rowVars, outreachVars
<1>4. CASE LoadBatch
  <2>1. l \notin Due
    BY DEF Due, Oldest, Reachable
  <2> QED
    BY <1>4, <2>1 DEF LoadBatch, Touched, rowVars
<1>5. ASSUME NEW k \in Leads, Try(k)
      PROVE  /\ status' = status /\ result'[l] = result[l] /\ l \notin due'
  <2>1. /\ k \in due /\ due' \subseteq due
        /\ \A i \in Leads \ {k} : result'[i] = result[i]
        /\ status' = status
    BY <1>5, TryStep DEF rowVars
  <2> QED
    BY <2>1 DEF Touched
<1>6. CASE CommitRound
  <2>1. status'[l] = IF GivenUp(l) THEN "rejected" ELSE Flushed(l)
    BY <1>6 DEF CommitRound
  <2>2. Flushed(l) = status[l]
    BY DEF Flushed, Touched
  <2> QED
    BY <1>6, <2>1, <2>2 DEF CommitRound, EndRound, Touched
<1>7. CASE AbortRound
  BY <1>7 DEF AbortRound, EndRound, Touched, rowVars
<1>8. ASSUME NEW q \in Requests, ConvertStep(q)
      PROVE  status'[l] \in {status[l], "converted"} /\ UNCHANGED <<due, result>>
  <2>1. CASE CommitConversion(q)
    BY <2>1 DEF CommitConversion, TypeOK, outreachVars
  <2>2. CASE ~CommitConversion(q)
    BY <1>8, <2>2 DEF ConvertStep, LoadLead, AbortConversion, rowVars, outreachVars
  <2> QED
    BY <2>1, <2>2
<1>9. ASSUME NEW k \in Leads, WaitEnds(k)
      PROVE  UNCHANGED <<status, due, result>>
  BY <1>9 DEF WaitEnds, outreachVars
<1>10. CASE UNCHANGED vars
  BY <1>1, <1>10 DEF vars, rowVars, outreachVars
<1>11. CASE OutreachStep \/ AbortRound
  BY <1>4, <1>5, <1>6, <1>7, <1>11 DEF OutreachStep, Try, Touched
<1> QED
  BY <1>1, <1>3, <1>8, <1>9, <1>10, <1>11 DEF Next, Touched

\* The count of a lead that a step leaves alone is right after it.
LEMMA CountStays ==
  ASSUME Inv, [Next]_vars, NEW l \in Leads,
         /\ attempts'[l] = attempts[l] /\ tried'[l] = tried[l]
         /\ sent'[l] = sent[l] /\ fresh'[l] = fresh[l]
         /\ Touched(l) => Touched(l)'
  PROVE  /\ fresh'[l] <= tried'[l] /\ tried'[l] <= Channels[l] /\ fresh'[l] <= sent'[l]
         /\ fresh'[l] > 0 => Touched(l)'
         /\ attempts'[l] <= MaxAttempts
         /\ \/ sent'[l] <= Channels[l] * attempts'[l] + fresh'[l]
            \/ /\ sent'[l] <= Channels[l] * MaxAttempts
               /\ status'[l] \in {"rejected", "converted"} /\ ~Touched(l)'
BY SettledStays DEF Inv, Rest, RoundCounts

\* The count is right when a round ends, well or badly.
LEMMA CountEnds ==
  ASSUME Inv, CommitRound \/ AbortRound, NEW l \in Leads
  PROVE  /\ fresh'[l] <= tried'[l] /\ tried'[l] <= Channels[l] /\ fresh'[l] <= sent'[l]
         /\ fresh'[l] > 0 => Touched(l)'
         /\ attempts'[l] <= MaxAttempts
         /\ \/ sent'[l] <= Channels[l] * attempts'[l] + fresh'[l]
            \/ /\ sent'[l] <= Channels[l] * MaxAttempts
               /\ status'[l] \in {"rejected", "converted"} /\ ~Touched(l)'
<1> DEFINE c == Channels[l]
           a == attempts[l]
<1>1. /\ fresh'[l] = 0 /\ tried'[l] = 0 /\ ~Touched(l)'
      /\ \/ sent' = sent
         \/ sent'[l] = sent[l] - fresh[l] /\ attempts' = attempts /\ status' = status
  BY DEF CommitRound, AbortRound, EndRound, Touched, rowVars
<1>2. /\ a \in Nat /\ c \in Nat /\ fresh[l] \in Nat /\ sent[l] \in Nat
      /\ MaxAttempts \in Nat /\ c * a \in Nat /\ c * MaxAttempts \in Nat
      /\ tried[l] \in Nat
  BY CountTypes
<1>3. /\ fresh[l] <= c /\ fresh[l] <= sent[l] /\ a <= MaxAttempts
      /\ fresh[l] > 0 => Touched(l)
      /\ \/ sent[l] <= c * a + fresh[l]
         \/ /\ sent[l] <= c * MaxAttempts
            /\ status[l] \in {"rejected", "converted"} /\ ~Touched(l)
  BY <1>2 DEF Inv, Rest, RoundCounts
<1>4. Touched(l) => a < MaxAttempts
  BY DEF Inv, Rest, BatchIsDue
<1>5. c * (a + 1) = c * a + c /\ (a < MaxAttempts => c * a + c <= c * MaxAttempts)
  BY <1>2, Products
<1>6. CASE CommitRound
  <2>1. /\ attempts'[l] = AttemptsAfter(l) /\ sent' = sent /\ due = {}
        /\ status'[l] = IF GivenUp(l) THEN "rejected" ELSE Flushed(l)
    BY <1>6 DEF CommitRound
  <2>2. CASE result[l] = "delivered"
    <3>1. attempts'[l] = a + 1
      BY <2>1, <2>2 DEF AttemptsAfter
    <3> HIDE DEF a, c
    <3>2. Touched(l)
      BY <2>2 DEF Touched
    <3>3. sent[l] <= c * (a + 1)
      BY <1>2, <1>3, <1>5, <3>2
    <3>4. a + 1 <= MaxAttempts
      BY <1>2, <1>4, <3>2
    <3> QED
      BY <1>1, <1>2, <2>1, <3>1, <3>3, <3>4 DEF a, c
  <2>3. CASE result[l] = "undeliverable"
    <3>1. attempts'[l] = a /\ status'[l] = "rejected"
      BY <1>2, <2>1, <2>3 DEF AttemptsAfter, Flushed, GivenUp
    <3>2. Touched(l)
      BY <2>3 DEF Touched
    <3> HIDE DEF a, c
    <3>3. sent[l] <= c * MaxAttempts
      BY <1>2, <1>3, <1>4, <1>5, <3>2
    <3> QED
      BY <1>1, <1>2, <1>3, <2>1, <3>1, <3>3 DEF a, c
  <2>4. CASE result[l] = "none"
    <3>1. attempts'[l] = a /\ ~Touched(l)
      BY <1>2, <2>1, <2>4 DEF AttemptsAfter, Touched
    <3>2. fresh[l] = 0
      BY <1>2, <1>3, <3>1
    <3>3. status[l] \in {"rejected", "converted"} => status'[l] = status[l]
      BY <2>1, <2>4 DEF Flushed, GivenUp
    <3> QED
      BY <1>1, <1>2, <1>3, <2>1, <3>1, <3>2, <3>3
  <2> QED
    BY <2>2, <2>3, <2>4 DEF Inv, TypeOK, Results
<1>7. CASE AbortRound
  <2>1. sent'[l] = sent[l] - fresh[l] /\ attempts' = attempts /\ status' = status
    BY <1>7 DEF AbortRound, rowVars
  <2>2. ~Touched(l) => fresh[l] = 0
    BY <1>2, <1>3
  <2> QED
    BY <1>1, <1>2, <1>3, <2>1, <2>2
<1> QED
  BY <1>6, <1>7

\* The count is right after every step.
LEMMA RoundCountsStep ==
  ASSUME Inv, [Next]_vars
  PROVE  RoundCounts'
<1> SUFFICES ASSUME NEW l \in Leads
             PROVE  /\ fresh'[l] <= tried'[l] /\ tried'[l] <= Channels[l]
                    /\ fresh'[l] <= sent'[l]
                    /\ fresh'[l] > 0 => Touched(l)'
                    /\ attempts'[l] <= MaxAttempts
                    /\ \/ sent'[l] <= Channels[l] * attempts'[l] + fresh'[l]
                       \/ /\ sent'[l] <= Channels[l] * MaxAttempts
                          /\ status'[l] \in {"rejected", "converted"} /\ ~Touched(l)'
  BY DEF RoundCounts
<1> USE DEF Inv, Rest
<1>1. CASE UNCHANGED <<attempts, tried, sent, fresh>> /\ (Touched(l) => Touched(l)')
  BY <1>1, CountStays
<1>2. CASE LoadBatch
  <2>1. ~Touched(l)
    BY <1>2 DEF LoadBatch, BatchIsDue, Touched
  <2> QED
    BY <1>1, <1>2, <2>1 DEF LoadBatch, rowVars
<1>3. ASSUME NEW k \in Leads, Try(k)
      PROVE  \/ k # l /\ attempts'[l] = attempts[l] /\ tried'[l] = tried[l]
                /\ sent'[l] = sent[l] /\ fresh'[l] = fresh[l]
                /\ (Touched(l) => Touched(l)')
             \/ k = l
  BY <1>3, TryStep DEF Touched, rowVars
<1>4. CASE Try(l)
  <2>1. /\ Touched(l) /\ Touched(l)' /\ attempts' = attempts /\ status' = status
    BY <1>4, TryStep DEF Touched, rowVars
  <2>2. \/ /\ tried[l] < Channels[l] /\ tried'[l] = tried[l] + 1
           /\ \/ sent'[l] = sent[l] + 1 /\ fresh'[l] = fresh[l] + 1
              \/ sent'[l] = sent[l] /\ fresh'[l] = fresh[l]
        \/ tried'[l] = tried[l] /\ sent'[l] = sent[l] /\ fresh'[l] = fresh[l]
    BY <1>4, TryStep
  <2>3. /\ fresh[l] <= tried[l] /\ tried[l] <= Channels[l] /\ fresh[l] <= sent[l]
        /\ attempts[l] <= MaxAttempts
        /\ sent[l] <= Channels[l] * attempts[l] + fresh[l]
    BY <2>1 DEF RoundCounts
  <2> QED
    BY <2>1, <2>2, <2>3, CountTypes
<1>5. CASE CommitRound \/ AbortRound
  BY <1>5, CountEnds
<1>6. CASE OutreachStep \/ AbortRound
  BY <1>2, <1>3, <1>4, <1>5, <1>6, CountStays DEF OutreachStep, Try
<1>7. ASSUME NEW k \in Leads, WaitEnds(k)
      PROVE  UNCHANGED <<attempts, tried, sent, fresh>> /\ (Touched(l) => Touched(l)')
  BY <1>7 DEF WaitEnds, outreachVars, Touched
<1>8. CASE UNCHANGED <<roundVars, due>>
  BY <1>1, <1>8 DEF roundVars, Touched
<1> QED
  BY <1>1, <1>6, <1>7, <1>8, OtherSteps DEF Next

\* The batch remains due while the round goes through it.
LEMMA BatchIsDueStep ==
  ASSUME Inv, [Next]_vars
  PROVE  BatchIsDue'
<1> USE DEF Inv, Rest
<1>1. CASE UNCHANGED <<roundVars, recent, due, round>>
  BY <1>1 DEF BatchIsDue, roundVars, Touched
<1>2. CASE LoadBatch
  <2>1. \A l \in Due : attempts[l] < MaxAttempts /\ l \in Leads /\ l \notin recent
    BY DEF Due, Oldest, Reachable, Primaries, Stored
  <2>2. \A l \in Leads : result[l] = "none"
    BY <1>2 DEF LoadBatch, BatchIsDue
  <2>3. /\ round' = "sending" /\ due' = Due
        /\ UNCHANGED <<attempts, recent, result>>
    BY <1>2 DEF LoadBatch, rowVars
  <2> QED
    BY <2>1, <2>2, <2>3 DEF BatchIsDue, Touched
<1>3. ASSUME NEW l \in Leads, Try(l)
      PROVE  BatchIsDue'
  <2>1. /\ l \in due /\ due' \subseteq due
        /\ \A k \in Leads \ {l} : result'[k] = result[k]
        /\ l \in due' => result'[l] = result[l]
        /\ UNCHANGED <<attempts, recent, round>>
    BY <1>3, TryStep DEF rowVars
  <2>2. round' # "idle" /\ due \subseteq Leads
    BY <2>1 DEF BatchIsDue, TypeOK
  <2>3. \A k \in Leads : Touched(k)' => Touched(k)
    BY <2>1 DEF Touched
  <2> QED
    BY <2>1, <2>2, <2>3 DEF BatchIsDue
<1>4. CASE CommitRound \/ AbortRound
  BY <1>4 DEF CommitRound, AbortRound, EndRound, BatchIsDue, Touched
<1>5. ASSUME NEW l \in Leads, WaitEnds(l)
      PROVE  BatchIsDue'
  BY <1>5 DEF WaitEnds, BatchIsDue, outreachVars, Touched
<1>6. CASE OutreachStep \/ AbortRound
  BY <1>2, <1>3, <1>4, <1>6 DEF OutreachStep, Try
<1> QED
  BY <1>1, <1>5, <1>6, OtherSteps DEF Next

-----------------------------------------------------------------------------
(* Duplicates                                                              *)

\* What runs have found stays sound.
LEMMA FoundIsSoundStep ==
  ASSUME Inv, [Next]_vars
  PROVE  FoundIsSound'
<1> USE PrimariesStay DEF Inv, Rest
<1>1. CASE found' = found
  BY <1>1 DEF FoundIsSound
<1>2. ASSUME NEW r \in Runs, found' = [found EXCEPT ![r] = {}]
      PROVE  FoundIsSound'
  BY <1>2 DEF FoundIsSound, TypeOK
<1>3. ASSUME NEW r \in Runs, NEW l \in Leads, SaveLead(r, l)
      PROVE  FoundIsSound'
  <2>1. PICK k \in PrimaryDuplicates(r, l) :
          found' = [found EXCEPT ![r] = found[r] \cup {<<l, k>>}]
    BY <1>3 DEF SaveLead
  <2>2. l \notin Inserts(r)
    BY <1>3 DEF SaveLead
  <2>3. \A e \in found[r] : e[1] # l
    BY <2>2 DEF Inserts
  <2>4. k # NoLead => /\ Person[k] = Person[l]
                      /\ k \in Primaries \/ <<k, NoLead>> \in found[r]
    BY DEF PrimaryDuplicates, Matches
  <2>5. /\ found'[r] = found[r] \cup {<<l, k>>}
        /\ \A q \in Runs \ {r} : found'[q] = found[q]
    BY <2>1 DEF TypeOK
  <2>6. ASSUME NEW q \in Runs, NEW e \in found'[q]
        PROVE  /\ \A f \in found'[q] : f[1] = e[1] => f = e
               /\ e[2] # NoLead =>
                    /\ Person[e[2]] = Person[e[1]]
                    /\ e[2] \in Primaries' \/ <<e[2], NoLead>> \in found'[q]
    <3>1. CASE q # r
      BY <2>5, <2>6, <3>1 DEF FoundIsSound
    <3>2. CASE q = r /\ e \in found[r]
      BY <2>3, <2>5, <2>6, <3>2 DEF FoundIsSound
    <3>3. CASE q = r /\ e = <<l, k>>
      BY <2>3, <2>4, <2>5, <2>6, <3>3 DEF FoundIsSound
    <3> QED
      BY <2>5, <2>6, <3>1, <3>2, <3>3
  <2> QED
    BY <2>6 DEF FoundIsSound
<1>4. ASSUME NEW r \in Runs, CollectorStep(r)
      PROVE  FoundIsSound'
  BY <1>1, <1>2, <1>3, <1>4
  DEF CollectorStep, StartRun, CommitRun, AbortRun, EndRun
<1>5. CASE ~ \E r \in Runs : CollectorStep(r)
  <2>1. UNCHANGED collectVars
    BY <1>5
    DEF Next, OutreachStep, LoadBatch, SendMessage, ChannelFails, NoChannel, CommitRound, AbortRound,
        WaitEnds, ConvertStep, LoadLead, CommitConversion, AbortConversion, vars
  <2> QED
    BY <1>1, <2>1 DEF collectVars
<1> QED
  BY <1>4, <1>5

\* Nobody starts work on a lead that is no primary one.
LEMMA WorkStep ==
  ASSUME Inv, [Next]_vars
  PROVE  WorkIsOnPrimaries'
<1> USE PrimariesStay DEF Inv, Rest
<1>1. ASSUME \A l \in Leads :
               \/ l \in due' /\ l \notin due
               \/ result'[l] \notin {"none", result[l]}
               \/ \E q \in Requests : converting'[q] = l /\ converting[q] # l
               \/ sent'[l] # sent[l]
               \/ cases'[l] # cases[l]
               => l \in Primaries
      PROVE  WorkIsOnPrimaries'
  BY <1>1 DEF WorkIsOnPrimaries
<1>2. CASE UNCHANGED <<due, result, converting, sent, cases>>
  BY <1>1, <1>2
<1>3. ASSUME NEW r \in Runs, CollectorStep(r)
      PROVE  WorkIsOnPrimaries'
  BY <1>2, <1>3
  DEF CollectorStep, StartRun, SaveLead, CommitRun, AbortRun, convertVars,
      outreachVars
<1>4. CASE LoadBatch
  <2>1. Due \subseteq Primaries
    BY DEF Due, Oldest, Reachable
  <2> QED
    BY <1>1, <1>4, <2>1 DEF LoadBatch, convertVars
<1>5. ASSUME NEW l \in Leads, Try(l)
      PROVE  WorkIsOnPrimaries'
  <2>1. /\ l \in due /\ due' \subseteq due /\ UNCHANGED convertVars
        /\ \A k \in Leads \ {l} : result'[k] = result[k] /\ sent'[k] = sent[k]
    BY <1>5, TryStep
  <2>2. l \in Primaries
    BY <2>1 DEF WorkIsOnPrimaries
  <2> QED
    BY <1>1, <2>1, <2>2 DEF convertVars
<1>6. CASE CommitRound \/ AbortRound
  <2>1. \A l \in Leads : sent'[l] # sent[l] => l \in Primaries
    <3>1. CASE CommitRound
      BY <3>1 DEF CommitRound
    <3>2. CASE AbortRound
      <4> SUFFICES ASSUME NEW l \in Leads, sent'[l] # sent[l]
                   PROVE  l \in Primaries
        OBVIOUS
      <4>1. sent'[l] = sent[l] - fresh[l] /\ sent[l] \in Nat /\ fresh[l] \in Nat
        BY <3>2 DEF AbortRound, TypeOK
      <4>2. fresh[l] > 0
        BY <4>1
      <4> QED
        BY <4>2 DEF RoundCounts, Touched, WorkIsOnPrimaries
    <3> QED
      BY <1>6, <3>1, <3>2
  <2> QED
    BY <1>1, <1>6, <2>1 DEF CommitRound, AbortRound, EndRound, convertVars
<1>7. ASSUME NEW l \in Leads, WaitEnds(l)
      PROVE  WorkIsOnPrimaries'
  BY <1>2, <1>7 DEF WaitEnds, convertVars, outreachVars
<1>8. ASSUME NEW q \in Requests, NEW l \in Leads, LoadLead(q, l)
      PROVE  WorkIsOnPrimaries'
  <2>1. l \in Primaries
    BY <1>8 DEF LoadLead, MayConvert
  <2>2. \A p \in Requests : converting'[p] \in {converting[p], l}
    BY <1>8 DEF LoadLead, TypeOK
  <2> QED
    BY <1>1, <1>8, <2>1, <2>2 DEF LoadLead, outreachVars
<1>9. ASSUME NEW q \in Requests, CommitConversion(q) \/ AbortConversion(q)
      PROVE  WorkIsOnPrimaries'
  <2>1. \A p \in Requests : converting'[p] \in {converting[p], NoLead}
    BY <1>9 DEF CommitConversion, AbortConversion, EndConversion, TypeOK
  <2>2. \A l \in Leads : cases'[l] # cases[l] => l = converting[q]
    BY <1>9 DEF CommitConversion, AbortConversion, TypeOK
  <2>3. UNCHANGED <<due, result, sent>>
    BY <1>9 DEF CommitConversion, AbortConversion, outreachVars
  <2> QED
    BY <1>1, <2>1, <2>2, <2>3, NoLeadIsNone DEF WorkIsOnPrimaries
<1>10. CASE UNCHANGED vars
  BY <1>2, <1>10 DEF vars, convertVars, outreachVars
<1>11. CASE OutreachStep \/ AbortRound
  BY <1>4, <1>5, <1>6, <1>11 DEF OutreachStep, Try
<1>12. ASSUME NEW q \in Requests, ConvertStep(q)
       PROVE  WorkIsOnPrimaries'
  BY <1>8, <1>9, <1>12 DEF ConvertStep
<1> QED
  BY <1>3, <1>7, <1>10, <1>11, <1>12 DEF Next

\* The rows of duplicates stay sound.
LEMMA RowsAreSoundStep ==
  ASSUME Inv, [Next]_vars
  PROVE  RowsAreSound'
<1> USE PrimariesStay DEF Inv, Rest
<1>1. ASSUME \A l \in Stored' : original'[l] # NoLead =>
               /\ original'[l] \in Primaries'
               /\ Person[original'[l]] = Person[l]
               /\ status'[l] = "rejected"
      PROVE  RowsAreSound'
  BY <1>1 DEF RowsAreSound
<1>2. CASE UNCHANGED <<status, original>>
  BY <1>2 DEF RowsAreSound, Stored, Primaries
<1>3. ASSUME NEW r \in Runs, CommitRun(r)
      PROVE  RowsAreSound'
  <2>1. ASSUME NEW l \in Stored', original'[l] # NoLead
        PROVE  /\ original'[l] \in Primaries'
               /\ Person[original'[l]] = Person[l]
               /\ status'[l] = "rejected"
    <3>1. l \in Leads
      BY DEF Stored
    <3>2. CASE l \in Inserts(r)
      <4> DEFINE k == original'[l]
      <4>1. /\ <<l, k>> \in found[r] /\ k \in Leads
            /\ status'[l] = "rejected"
        BY <1>3, <2>1, <3>1, <3>2, InsertedRows
      <4>2. Person[k] = Person[l] /\ (k \in Primaries \/ <<k, NoLead>> \in found[r])
        BY <2>1, <4>1 DEF FoundIsSound
      <4>3. ASSUME <<k, NoLead>> \in found[r]
            PROVE  k \in Primaries'
        <5>1. k \in Inserts(r)
          BY <4>3 DEF Inserts
        <5>2. k \in Stored' /\ <<k, original'[k]>> \in found[r]
          BY <1>3, <4>1, <5>1, InsertedRows
        <5>3. original'[k] = NoLead
          BY <4>3, <5>2 DEF FoundIsSound
        <5> QED
          BY <5>2, <5>3 DEF Primaries
      <4> QED
        BY <4>1, <4>2, <4>3
    <3>3. CASE l \notin Inserts(r)
      <4>1. status'[l] = status[l] /\ original'[l] = original[l]
        BY <1>3, <3>1, <3>3, InsertedRows
      <4>2. l \in Stored
        BY <4>1 DEF Stored
      <4> QED
        BY <2>1, <4>1, <4>2 DEF RowsAreSound
    <3> QED
      BY <3>2, <3>3
  <2> QED
    BY <1>1, <2>1
<1>4. CASE CommitRound
  <2>1. ASSUME NEW l \in Stored', original'[l] # NoLead
        PROVE  /\ original'[l] \in Primaries'
               /\ Person[original'[l]] = Person[l]
               /\ status'[l] = "rejected"
    <3>1. l \in Leads
      BY DEF Stored
    <3>2. l \in Stored /\ original'[l] = original[l]
      BY <1>4, <3>1, RoundStatus
    <3>3. l \notin Primaries /\ status[l] = "rejected"
      BY <2>1, <3>2 DEF Primaries, RowsAreSound
    <3>4. status'[l] = status[l]
      BY <1>4, <3>1, <3>3, RoundStatus DEF WorkIsOnPrimaries
    <3> QED
      BY <2>1, <3>2, <3>3, <3>4 DEF RowsAreSound
  <2> QED
    BY <1>1, <2>1
<1>5. ASSUME NEW q \in Requests, CommitConversion(q)
      PROVE  RowsAreSound'
  <2>1. converting[q] \in Primaries
    BY <1>5 DEF CommitConversion, WorkIsOnPrimaries, TypeOK
  <2>2. /\ original' = original
        /\ \A l \in Leads \ {converting[q]} : status'[l] = status[l]
    BY <1>5 DEF CommitConversion, TypeOK
  <2> QED
    BY <1>1, <2>1, <2>2 DEF RowsAreSound, Stored, Primaries
<1>6. CASE UNCHANGED vars
  BY <1>2, <1>6 DEF vars, rowVars
<1>7. ASSUME NEW r \in Runs, CollectorStep(r)
      PROVE  RowsAreSound'
  BY <1>2, <1>3, <1>7 DEF CollectorStep, StartRun, SaveLead, AbortRun, rowVars
<1>8. CASE OutreachStep \/ AbortRound
  BY <1>2, <1>4, <1>8
  DEF OutreachStep, LoadBatch, SendMessage, ChannelFails, NoChannel, AbortRound, rowVars
<1>9. ASSUME NEW l \in Leads, WaitEnds(l)
      PROVE  RowsAreSound'
  BY <1>2, <1>9 DEF WaitEnds
<1>10. ASSUME NEW q \in Requests, ConvertStep(q)
       PROVE  RowsAreSound'
  BY <1>2, <1>5, <1>10 DEF ConvertStep, LoadLead, AbortConversion, rowVars
<1> QED
  BY <1>6, <1>7, <1>8, <1>9, <1>10 DEF Next

-----------------------------------------------------------------------------
(* The theorems                                                            *)

\* The initial state is in order.
LEMMA InitInv == Init => Inv
<1> SUFFICES ASSUME Init
             PROVE  Inv
  OBVIOUS
<1>1. RoundCounts
  <2> SUFFICES ASSUME NEW l \in Leads
               PROVE  /\ 0 <= Channels[l] /\ 0 <= MaxAttempts
                      /\ 0 <= Channels[l] * 0 + 0
    BY DEF Init, RoundCounts, Touched
  <2>1. Channels[l] \in Nat /\ MaxAttempts \in Nat
    BY LeadAssumption
  <2> QED
    BY <2>1
<1>2. BatchIsDue /\ FoundIsSound
  BY DEF Init, BatchIsDue, FoundIsSound, Touched
<1>3. WorkIsOnPrimaries /\ RowsAreSound
  BY NoLeadIsNone DEF Init, WorkIsOnPrimaries, RowsAreSound, Stored
<1> QED
  BY <1>1, <1>2, <1>3, InitTypeOK DEF Inv, Rest

\* The invariant is inductive.
LEMMA Invariance == Spec => []Inv
<1>1. Inv /\ [Next]_vars => Inv'
  BY TypeStep, RoundCountsStep, BatchIsDueStep, FoundIsSoundStep, WorkStep,
     RowsAreSoundStep
  DEF Inv, Rest
<1> QED
  BY <1>1, InitInv, PTL DEF Spec

\* The rows and everything that is under way keep their types.
THEOREM TypeCorrect == Spec => []TypeOK
<1>1. Inv => TypeOK
  BY DEF Inv
<1> QED
  BY <1>1, Invariance, PTL

\* However rounds and channels fail and whoever converts leads meanwhile,
\* nobody gets more messages than the limit allows over all channels, but for
\* those of failed rounds.
THEOREM LimitIsKept == Spec => []ContactLimit
<1>1. Inv => ContactLimit
  <2> SUFFICES ASSUME Inv, NEW l \in Leads
               PROVE  sent[l] <= Channels[l] * MaxAttempts
    BY DEF ContactLimit
  <2> DEFINE c == Channels[l]
             a == attempts[l]
             m == MaxAttempts
  <2>1. /\ a \in Nat /\ c \in Nat /\ fresh[l] \in Nat /\ sent[l] \in Nat
        /\ m \in Nat /\ tried[l] \in Nat
    BY CountTypes
  <2>2. /\ fresh[l] <= c /\ a <= m /\ (fresh[l] > 0 => a < m)
        /\ sent[l] <= c * a + fresh[l] \/ sent[l] <= c * m
    BY <2>1 DEF Inv, Rest, RoundCounts, BatchIsDue
  <2> HIDE DEF a, c, m
  <2>3. /\ c * a <= c * m /\ (a < m => c * a + c <= c * m)
        /\ c * a \in Nat /\ c * m \in Nat
    BY <2>1, <2>2, Products
  <2>4. sent[l] <= c * m
    BY <2>1, <2>2, <2>3
  <2> QED
    BY <2>4 DEF c, m
<1> QED
  BY <1>1, Invariance, PTL

\* No lead is sent a message while a recent one is on record, whatever has
\* happened since the batch was loaded.
THEOREM RecentLeadsWait == Spec => WaitIsKept
<1>1. Inv /\ [Next]_vars => [\A l \in recent : sent'[l] = sent[l]]_vars
  <2> SUFFICES ASSUME Inv, [Next]_vars, NEW l \in recent
               PROVE  sent'[l] = sent[l]
    OBVIOUS
  <2>1. CASE sent' = sent
    BY <2>1
  <2>2. ASSUME NEW k \in Leads, Try(k)
        PROVE  sent'[l] = sent[l]
    <3>1. k \in due /\ \A i \in Leads \ {k} : sent'[i] = sent[i]
      BY <2>2, TryStep DEF Inv
    <3>2. k \notin recent /\ l \in Leads
      BY <3>1 DEF Inv, Rest, BatchIsDue, TypeOK, Touched
    <3> QED
      BY <3>1, <3>2
  <2>3. CASE OutreachStep \/ AbortRound
    <3>1. CASE AbortRound
      <4>1. l \in Leads
        BY DEF Inv, TypeOK
      <4>2. sent'[l] = sent[l] - fresh[l] /\ sent[l] \in Nat /\ fresh[l] \in Nat
        BY <3>1, <4>1 DEF AbortRound, Inv, TypeOK
      <4>3. ~(fresh[l] > 0)
        BY <4>1 DEF Inv, Rest, RoundCounts, BatchIsDue
      <4> QED
        BY <4>2, <4>3
    <3> QED
      BY <2>1, <2>2, <2>3, <3>1 DEF OutreachStep, LoadBatch, CommitRound, Try
  <2>4. ASSUME NEW k \in Leads, WaitEnds(k)
        PROVE  sent'[l] = sent[l]
    BY <2>1, <2>4 DEF WaitEnds, outreachVars
  <2> QED
    BY <2>1, <2>3, <2>4, OtherSteps DEF Next, roundVars
<1> QED
  BY <1>1, Invariance, PTL DEF Spec, WaitIsKept

\* However runs overlap, a duplicate has an original of the same person and
\* nobody works on it.
THEOREM DuplicatesRest == Spec => []DuplicatesAreSettled
<1>1. Inv => DuplicatesAreSettled
  <2> SUFFICES ASSUME Inv, NEW l \in Stored, original[l] # NoLead
               PROVE  /\ original[l] \in Primaries
                      /\ Person[original[l]] = Person[l]
                      /\ status[l] = "rejected" /\ sent[l] = 0 /\ cases[l] = 0
    BY DEF DuplicatesAreSettled
  <2>1. l \in Leads /\ l \notin Primaries
    BY DEF Stored, Primaries
  <2>2. sent[l] \in Nat /\ cases[l] \in Nat /\ ~(sent[l] > 0) /\ ~(cases[l] > 0)
    BY <2>1 DEF Inv, Rest, TypeOK, WorkIsOnPrimaries
  <2> QED
    BY <2>2 DEF Inv, Rest, RowsAreSound
<1> QED
  BY <1>1, Invariance, PTL

\* A conversion that found no client is still right when it commits.
LEMMA ClientsStep ==
  ASSUME TypeOK, ClientsAreSingle, [Next]_vars, NEW p, Requests = {p}
  PROVE  ClientsAreSingle'
<1>1. CASE UNCHANGED convertVars
  BY <1>1 DEF ClientsAreSingle, convertVars
<1>2. ASSUME NEW l \in Leads, LoadLead(p, l)
      PROVE  ClientsAreSingle'
  <2>1. /\ converting'[p] = l
        /\ known'[p] = ClientKnown(l)
        /\ clients' = clients
    BY <1>2 DEF LoadLead, TypeOK
  <2>2. Person[l] \in Persons
    BY DEF Persons
  <2>3. clients[Person[l]] \in Nat
    BY <2>2 DEF TypeOK
  <2>4. ~ClientKnown(l) => clients[Person[l]] = 0
    BY <2>3 DEF ClientKnown
  <2> QED
    BY <2>1, <2>4 DEF ClientsAreSingle
<1>3. CASE CommitConversion(p)
  <2> DEFINE who == Person[converting[p]]
  <2>1. converting[p] # NoLead /\ converting'[p] = NoLead
    BY <1>3 DEF CommitConversion, EndConversion, TypeOK
  <2>2. \/ known[p] /\ clients' = [clients EXCEPT ![who] = clients[who]]
        \/ ~known[p] /\ clients' = [clients EXCEPT ![who] = clients[who] + 1]
    BY <1>3 DEF CommitConversion
  <2>3. ~known[p] => clients[who] = 0
    BY <2>1 DEF ClientsAreSingle
  <2>4. clients \in [Persons -> Nat] /\ \A x \in Persons : clients[x] <= 1
    BY DEF TypeOK, ClientsAreSingle
  <2> HIDE DEF who
  <2>5. \A x \in Persons : clients'[x] <= 1
    BY <2>2, <2>3, <2>4
  <2> QED
    BY <2>1, <2>5 DEF ClientsAreSingle
<1>4. CASE AbortConversion(p)
  BY <1>4 DEF AbortConversion, EndConversion, TypeOK, ClientsAreSingle
<1>5. CASE ~ \E q \in Requests : ConvertStep(q)
  BY <1>1, <1>5
  DEF Next, CollectorStep, StartRun, SaveLead, CommitRun, AbortRun,
      OutreachStep, LoadBatch, SendMessage, ChannelFails, NoChannel, CommitRound, AbortRound, WaitEnds,
      vars
<1> QED
  BY <1>2, <1>3, <1>4, <1>5 DEF ConvertStep

\* With one conversion at a time nobody becomes two clients, however often
\* collectors and the outreach worker get in its way.
THEOREM OneRequestOneClient ==
  ASSUME NEW p, Requests = {p}
  PROVE  Spec => []OneClientPerPerson
<1>1. Init => ClientsAreSingle
  BY DEF Init, ClientsAreSingle
<1>2. TypeOK /\ ClientsAreSingle /\ [Next]_vars => ClientsAreSingle'
  BY ClientsStep
<1>3. ClientsAreSingle => OneClientPerPerson
  BY DEF ClientsAreSingle, OneClientPerPerson
<1> QED
  BY <1>1, <1>2, <1>3, TypeCorrect, PTL DEF Spec
=============================================================================
