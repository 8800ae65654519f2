---------------------------- MODULE Prospecting ----------------------------
(* Prospects come from parsers of registers and from forms, bots and ads;  *)
(* what is known of one person is merged into one row, which becomes a     *)
(* lead or is rejected.  A request works on the rows it has loaded and     *)
(* writes, when it commits, the columns it has changed; nothing is locked. *)
EXTENDS Sessions, Naturals, FiniteSets

CONSTANTS
  Prospects,  \* rows of prospects
  LeadIds,    \* rows of leads
  Raws,       \* records that parsers find and forms send
  Parsed,     \* source types that have a parser and are automated
  Unknown

ASSUME ProspectAssumption ==
  IsFiniteSet(Prospects) /\ Unknown \notin Prospects \cup LeadIds

VARIABLES
  prospect,   \* the rows of prospects
  made,       \* the prospect a lead was made from (in its external data)
  work,       \* per request the rows it has loaded and changed
  crossed,    \* two requests have overlapped (a history variable)
  joined      \* a record has named two known people (a history variable)

prospectVars == <<prospect, made, work, crossed, joined>>

Points(condition, n) == IF condition THEN n ELSE 0

\* Debts are in thousands; 0 is an unknown one.
Score(raw) ==
  Points(raw.debt >= 1000, 30) + Points(raw.debt \in 500 .. 999, 20)
  + Points(raw.debt \in 300 .. 499, 10)
  + Points(raw.category = "government", 15) + Points(raw.category = "referral", 20)
  + Points(raw.type \in {"fssp", "efrsb", "kad_arbitr"}, 10)
  + Points(raw.phone # Unknown, 15) + Points(raw.email # Unknown, 5)
  + Points(raw.capital, 5) + Points(raw.creditors >= 3, 10) + Points(raw.poor, 5)

Temperature(score) == IF score >= 60 THEN "hot" ELSE IF score >= 30 THEN "warm" ELSE "cold"

NoProspect == [type |-> Unknown, ext |-> Unknown, inn |-> Unknown, phone |-> Unknown, email |-> Unknown,
          score |-> 0, temp |-> "cold", status |-> "none", lead |-> Unknown]

NewRow(raw) ==
  [type |-> raw.type, ext |-> raw.ext, inn |-> raw.inn, phone |-> raw.phone,
   email |-> raw.email, score |-> Score(raw), temp |-> Temperature(Score(raw)),
   status |-> "new", lead |-> Unknown]

\* Only empty columns are filled; the external id is not one of them.
Filled(old, new) == IF old = Unknown THEN new ELSE old
Merged(row, raw) ==
  [row EXCEPT !.inn = Filled(@, raw.inn), !.phone = Filled(@, raw.phone),
              !.email = Filled(@, raw.email)]

\* A form's record gives the row its own score, whatever else the row knows.
Rescored(row, raw) ==
  [row EXCEPT !.score = Score(raw), !.temp = Temperature(Score(raw))]

IsListed(p) == prospect[p].status # "none"

-----------------------------------------------------------------------------
(* A request is a transaction: `seen' holds the rows as it loaded them and *)
(* `mine' as it has changed them.                                          *)

NoWork == [kind |-> "idle"]
Busy(r) == work[r] # NoWork

Begin(r, t) ==
  /\ ~Busy(r)
  /\ work' = [work EXCEPT ![r] = t]
  /\ crossed' = (crossed \/ \E q \in Requests : Busy(q))

End(r) == work' = [work EXCEPT ![r] = NoWork] /\ UNCHANGED crossed

\* The ORM writes the columns that differ from what was loaded.
RowWritten(row, seen, mine) ==
  [c \in DOMAIN row |-> IF mine[c] = seen[c] THEN row[c] ELSE mine[c]]

\* The table as the transaction t finds it: committed rows and its own changes.
Table(t) == [p \in Prospects |->
  IF p \in DOMAIN t.mine THEN RowWritten(prospect[p], t.seen[p], t.mine[p]) ELSE prospect[p]]

\* The key of prospects: the id of a record at its source.
KeysAreUnique(table) ==
  \A p, q \in Prospects :
    p # q /\ table[p].ext # Unknown /\ table[p].ext = table[q].ext => table[p].type # table[q].type

Changed(f, p, row) == [q \in DOMAIN f \cup {p} |-> IF q = p THEN row ELSE f[q]]

\* Request r loads the row of p, unless it has it, and changes it.
Touch(t, p, row) ==
  [t EXCEPT !.seen = IF p \in DOMAIN @ THEN @ ELSE Changed(@, p, prospect[p]),
            !.mine = Changed(@, p, row)]

Loaded(t, p) == IF p \in DOMAIN t.mine THEN t.mine[p] ELSE prospect[p]

NoRows == [p \in {} |-> NoProspect]

\* An exception, a lost connection or a violated key undoes the transaction.
Rollback(r) == Busy(r) /\ End(r) /\ UNCHANGED <<prospect, made, joined>>

-----------------------------------------------------------------------------
(* What is found and sent.                                                 *)

ByExt(t, raw) == {p \in Prospects :
  raw.ext # Unknown /\ Table(t)[p].type = raw.type /\ Table(t)[p].ext = raw.ext}
ByInn(t, raw) == {p \in Prospects : raw.inn # Unknown /\ Table(t)[p].inn = raw.inn}
ByPhone(t, raw) == {p \in Prospects : raw.phone # Unknown /\ Table(t)[p].phone = raw.phone}

\* check_duplicate: the first of the three that names somebody.  Several rows
\* are an error.
\* Mutant: people are compared within their source and by phone only.
NotByInn(t, raw) == IF ByExt(t, raw) # {} THEN ByExt(t, raw) ELSE ByPhone(t, raw)
Duplicates(t, raw) ==
  IF ByExt(t, raw) # {} THEN ByExt(t, raw)
  ELSE IF ByInn(t, raw) # {} THEN ByInn(t, raw) ELSE ByPhone(t, raw)

Fresh == {p \in Prospects : ~IsListed(p) /\ \A r \in Requests :
  Busy(r) => p \notin DOMAIN work[r].mine}

\* run_parser: all that one source has, in one transaction.
BeginRun(r) ==
  /\ \E type \in Parsed, found \in SUBSET Raws :
       /\ \A raw \in found : raw.type = type
       /\ found # {}
       /\ Begin(r, [kind |-> "run", todo |-> found, seen |-> NoRows, mine |-> NoRows])
  /\ UNCHANGED <<prospect, made, joined>>

\* handle_generic: one record from outside.
BeginInbound(r) ==
  /\ \E raw \in Raws :
       Begin(r, [kind |-> "inbound", todo |-> {raw}, seen |-> NoRows, mine |-> NoRows])
  /\ UNCHANGED <<prospect, made, joined>>

\* The next record is merged into the row it repeats, or makes a new one; in a
\* run an error skips it.
TakeRecord(r) ==
  LET t == work[r] IN
  /\ t.kind \in {"run", "inbound"}
  /\ \E raw \in t.todo :
       LET rest == [t EXCEPT !.todo = @ \ {raw}]
           found == Duplicates(t, raw)
       IN
       /\ \/ /\ Cardinality(found) = 1
             /\ \E p \in found :
                  LET row == Merged(Loaded(t, p), raw) IN
                  work' = [work EXCEPT ![r] = Touch(rest, p,
                             IF t.kind = "inbound" THEN Rescored(row, raw) ELSE row)]
          \/ /\ found = {}
             /\ \E p \in Fresh : work' = [work EXCEPT ![r] = Touch(rest, p, NewRow(raw))]
          \/ /\ Cardinality(found) > 1 /\ t.kind = "run"
             /\ work' = [work EXCEPT ![r] = rest]
       /\ joined' = (joined \/
            Cardinality(ByExt(t, raw) \cup ByInn(t, raw) \cup ByPhone(t, raw)) > 1)
  /\ UNCHANGED <<prospect, made, crossed>>

CommitRecords(r) ==
  /\ work[r].kind \in {"run", "inbound"} /\ work[r].todo = {}
  /\ prospect' = Table(work[r])
  /\ KeysAreUnique(prospect')
  /\ End(r)
  /\ UNCHANGED <<made, joined>>

-----------------------------------------------------------------------------
(* What staff decide.                                                      *)

LoadForDecision(r, kind, closed) ==
  /\ \E p \in Prospects :
       /\ IsListed(p) /\ prospect[p].status \notin closed
       /\ kind = "convert" => prospect[p].phone # Unknown \/ prospect[p].email # Unknown
       /\ Begin(r, Touch([kind |-> kind, todo |-> {}, seen |-> NoRows, mine |-> NoRows],
                         p, prospect[p]))
  /\ UNCHANGED <<prospect, made, joined>>

\* Mutant: what was converted is not refused.
ConvertsAgain(r) == LoadForDecision(r, "convert", {"rejected", "stale"})
BeginConversion(r) == LoadForDecision(r, "convert", {"converted", "rejected", "stale"})
BeginRejection(r) == LoadForDecision(r, "reject", {"converted", "rejected"})

LeadsOf(p) == {d \in LeadIds : made[d] = p}

\* A lead has the key of its prospect: leads have a unique one as well.
LeadIsUnique(p) == prospect[p].ext # Unknown => LeadsOf(p) = {}

CommitProspectConversion(r) ==
  LET t == work[r] IN
  /\ t.kind = "convert"
  /\ \E p \in DOMAIN t.mine, d \in LeadsOf(Unknown) :
       /\ LeadIsUnique(p)
       /\ made' = [made EXCEPT ![d] = p]
       /\ prospect' = Table(Touch(t, p, [t.mine[p] EXCEPT !.status = "converted", !.lead = d]))
  /\ End(r)
  /\ UNCHANGED joined

CommitProspectRejection(r) ==
  LET t == work[r] IN
  /\ t.kind = "reject"
  /\ \E p \in DOMAIN t.mine :
       prospect' = Table(Touch(t, p, [t.mine[p] EXCEPT !.status = "rejected"]))
  /\ End(r)
  /\ UNCHANGED <<made, joined>>

-----------------------------------------------------------------------------
ProspectInit ==
  /\ prospect = [p \in Prospects |-> NoProspect]
  /\ made = [d \in LeadIds |-> Unknown]
  /\ work = [r \in Requests |-> NoWork]
  /\ crossed = FALSE /\ joined = FALSE

ProspectNext == \E r \in Requests :
  \/ BeginRun(r) \/ BeginInbound(r) \/ TakeRecord(r) \/ CommitRecords(r)
  \/ BeginConversion(r) \/ CommitProspectConversion(r)
  \/ BeginRejection(r) \/ CommitProspectRejection(r)
  \/ Rollback(r)

ProspectSpec == ProspectInit /\ [][ProspectNext]_prospectVars

-----------------------------------------------------------------------------
\* Rows, leads and transactions are well-formed.
ProspectTypeOK ==
  /\ \A p \in Prospects :
       /\ prospect[p].status \in {"none", "new", "converted", "rejected"}
       /\ prospect[p].lead \in LeadIds \cup {Unknown}
       /\ prospect[p].temp \in {"hot", "warm", "cold"}
       /\ ~IsListed(p) => prospect[p] = NoProspect
  /\ made \in [LeadIds -> Prospects \cup {Unknown}]
  /\ \A r \in Requests : Busy(r) => DOMAIN work[r].seen = DOMAIN work[r].mine
  /\ crossed \in BOOLEAN /\ joined \in BOOLEAN

\* Whatever overlaps, a prospect names a lead that was made from it, and one
\* that a register knows by an id becomes at most one lead.
LeadsComeFromProspects ==
  \A p \in Prospects :
    /\ prospect[p].lead # Unknown => made[prospect[p].lead] = p
    /\ prospect[p].ext # Unknown => Cardinality(LeadsOf(p)) <= 1

\* The two ways of counting conversions in get_stats agree, and no lead is
\* forgotten, as long as requests do not overlap.
ConvertedHasOneLead ==
  ~crossed => \A p \in Prospects :
    /\ LeadsOf(p) = {prospect[p].lead} \ {Unknown}
    /\ prospect[p].status = "converted" <=> prospect[p].lead # Unknown

\* Two rows share an INN or a phone, which makes every later record of that
\* person an error, only after requests overlapped or a record named both.
OneRowPerPerson ==
  ~crossed /\ ~joined => \A p, q \in Prospects : p # q =>
    /\ prospect[p].inn # Unknown => prospect[p].inn # prospect[q].inn
    /\ prospect[p].phone # Unknown => prospect[p].phone # prospect[q].phone

\* A row's temperature is that of its score, as long as requests do not overlap.
TemperatureFitsScore ==
  ~crossed => \A p \in Prospects : prospect[p].temp = Temperature(prospect[p].score)

\* Prospects, their scores and the leads made of them agree.
ProspectsAreSound ==
  ProspectTypeOK /\ LeadsComeFromProspects /\ ConvertedHasOneLead /\ TemperatureFitsScore
=============================================================================
