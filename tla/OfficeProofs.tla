---------------------------- MODULE OfficeProofs ----------------------------
(***************************************************************************)
(* Proofs about what the staff's requests do: CaseFile, CreditorRegister   *)
(* and StaffAccess, for any number of requests.                            *)
(*                                                                         *)
(* CaseFile's TimelineIsTrue and HearingComesFirst are not inductive: a    *)
(* commit writes what its request has checked against the status it        *)
(* loaded, so what the requests hold must be constrained too.  It may be   *)
(* stale by then, but the case really had it (HeldIsReached).              *)
(*                                                                         *)
(* CreditorRegister's DebtIsOwed needs to know what the requests have      *)
(* summed (SumsAreOwed) and that no two of them bring the same creditor    *)
(* (AddsAreFresh): a rollback then never zeroes what another has counted.  *)
(***************************************************************************)
EXTENDS CaseFile, CreditorRegister, StaffAccess, FiniteSetTheorems,
        WellFoundedInduction, TLAPS

USE CaseFileAssumption

\* What a request holds: a status of the case, and a move the table allows.
HeldIsReached ==
  \A r \in Requests : phase[r] = "loaded" =>
    seen[r] \in Reached /\ Accepted(seen[r], target[r])

\* A hearing was scheduled before the case was in any status past it.
HearingWasReached ==
  \A s \in Reached : s \notin BeforeHearing => "hearing_scheduled" \in Reached

Inv ==
  /\ TypeOK
  /\ TimelineIsTrue
  /\ HeldIsReached
  /\ HearingWasReached

-----------------------------------------------------------------------------
(* The table                                                               *)

\* The only way out of the statuses before the hearing leads to it.
LEMMA HearingIsTheWay ==
  ASSUME NEW s \in BeforeHearing, NEW t \in CaseStatus,
         IsValidTransition(s, t), t \notin BeforeHearing
  PROVE  t = "hearing_scheduled"
<1>1. s \in CaseStatus
  BY DEF BeforeHearing, CaseStatus
<1>2. t \in Transitions[s]
  BY DEF IsValidTransition
<1>3. CASE s \in {"lead", "qualification", "consultation", "contract_signing"}
  BY <1>1, <1>2, <1>3 DEF Transitions, BeforeHearing
<1>4. CASE s \in {"document_collection", "document_review",
                  "application_preparation", "application_filed"}
  BY <1>1, <1>2, <1>4 DEF Transitions, BeforeHearing
<1>5. CASE s \in {"court_accepted", "on_hold", "rejected", "cancelled"}
  BY <1>1, <1>2, <1>5 DEF Transitions, BeforeHearing
<1> QED
  BY <1>3, <1>4, <1>5 DEF BeforeHearing

-----------------------------------------------------------------------------
(* The invariant                                                           *)

\* Every variable keeps its type.
LEMMA TypeStep ==
  ASSUME TypeOK, [Next]_vars
  PROVE  TypeOK'
<1>1. ASSUME NEW r \in Requests, NEW to \in CaseStatus, LoadCase(r, to)
      PROVE  TypeOK'
  BY <1>1 DEF TypeOK, LoadCase
<1>2. ASSUME NEW r \in Requests, EndRequest(r)
      PROVE  /\ phase' \in [Requests -> {"idle", "loaded"}]
             /\ seen' \in [Requests -> CaseStatus]
             /\ target' \in [Requests -> CaseStatus]
  <2>1. "lead" \in CaseStatus
    BY DEF CaseStatus
  <2> QED
    BY <1>2, <2>1 DEF TypeOK, EndRequest
<1>3. ASSUME NEW r \in Requests, CommitUpdate(r)
      PROVE  TypeOK'
  <2>1. [old |-> seen[r], new |-> target[r]] \in Event
    BY DEF TypeOK, Event
  <2>2. status' \in CaseStatus /\ timeline' \subseteq Event
    BY <1>3, <2>1 DEF TypeOK, CommitUpdate
  <2> QED
    BY <1>2, <1>3, <2>2 DEF TypeOK, CommitUpdate
<1>4. ASSUME NEW r \in Requests, AbortUpdate(r)
      PROVE  TypeOK'
  BY <1>2, <1>4 DEF TypeOK, AbortUpdate
<1>5. CASE UNCHANGED vars
  BY <1>5 DEF TypeOK, vars, requestVars
<1> QED
  BY <1>1, <1>3, <1>4, <1>5 DEF Next

\* A request that loads the case holds its present status.
LEMMA LoadKeeps ==
  ASSUME Inv, NEW r \in Requests, NEW to \in CaseStatus, LoadCase(r, to)
  PROVE  TimelineIsTrue' /\ HeldIsReached' /\ HearingWasReached'
<1>1. Reached' = Reached
  BY DEF LoadCase, Reached
<1>2. TimelineIsTrue' /\ HearingWasReached'
  BY <1>1 DEF Inv, LoadCase, TimelineIsTrue, HearingWasReached
<1>3. ASSUME NEW q \in Requests, phase'[q] = "loaded"
      PROVE  seen'[q] \in Reached' /\ Accepted(seen'[q], target'[q])
  <2>1. CASE q = r
    BY <1>1, <2>1 DEF Inv, TypeOK, LoadCase, TimelineIsTrue
  <2>2. CASE q # r
    BY <1>1, <1>3, <2>2 DEF Inv, TypeOK, LoadCase, HeldIsReached
  <2> QED
    BY <2>1, <2>2
<1> QED
  BY <1>2, <1>3 DEF HeldIsReached

\* A request that ends, one way or the other, holds nothing any more.
LEMMA EndKeeps ==
  ASSUME Inv, NEW r \in Requests, EndRequest(r), Reached \subseteq Reached'
  PROVE  HeldIsReached'
<1>1. ASSUME NEW q \in Requests, phase'[q] = "loaded"
      PROVE  seen'[q] \in Reached' /\ Accepted(seen'[q], target'[q])
  <2>1. q # r
    BY <1>1 DEF Inv, TypeOK, EndRequest
  <2> QED
    BY <1>1, <2>1 DEF Inv, TypeOK, EndRequest, HeldIsReached
<1> QED
  BY <1>1 DEF HeldIsReached

\* A commit tells the timeline a move the table allows, out of a status the
\* case has had.
LEMMA CommitKeeps ==
  ASSUME Inv, NEW r \in Requests, CommitUpdate(r)
  PROVE  TimelineIsTrue' /\ HeldIsReached' /\ HearingWasReached'
<1> DEFINE event == [old |-> seen[r], new |-> target[r]]
<1>1. /\ seen[r] \in Reached
      /\ Accepted(seen[r], target[r])
      /\ target[r] \in CaseStatus
  BY DEF Inv, HeldIsReached, CommitUpdate, TypeOK
<1>2. CASE target[r] = seen[r]
  <2>1. /\ status' = status
        /\ timeline' = timeline
        /\ EndRequest(r)
    BY <1>2 DEF CommitUpdate
  <2>2. Reached' = Reached
    BY <2>1 DEF Reached
  <2>3. TimelineIsTrue' /\ HearingWasReached'
    BY <2>1, <2>2 DEF Inv, TimelineIsTrue, HearingWasReached
  <2> QED
    BY <2>1, <2>2, <2>3, EndKeeps
<1>3. CASE target[r] # seen[r]
  <2>1. /\ status' = target[r]
        /\ timeline' = timeline \cup {event}
        /\ EndRequest(r)
    BY <1>3 DEF CommitUpdate
  <2>2. Reached' = Reached \cup {target[r]}
    <3>1. event.new = target[r]
      OBVIOUS
    <3> HIDE DEF event
    <3>2. {e.new : e \in timeline \cup {event}}
            = {e.new : e \in timeline} \cup {event.new}
      OBVIOUS
    <3> QED
      BY <2>1, <3>1, <3>2 DEF Reached
  <2>3. IsValidTransition(seen[r], target[r])
    BY <1>1, <1>3 DEF Accepted
  <2>4. TimelineIsTrue'
    <3>1. \A e \in timeline' :
            IsValidTransition(e.old, e.new) /\ e.old \in Reached'
      BY <1>1, <2>1, <2>2, <2>3 DEF Inv, TimelineIsTrue
    <3> QED
      BY <2>1, <2>2, <3>1 DEF TimelineIsTrue
  <2>5. HearingWasReached'
    <3>1. ASSUME target[r] \notin BeforeHearing
          PROVE  "hearing_scheduled" \in Reached'
      <4>1. CASE seen[r] \in BeforeHearing
        BY <1>1, <2>2, <2>3, <3>1, <4>1, HearingIsTheWay
      <4>2. CASE seen[r] \notin BeforeHearing
        BY <1>1, <2>2, <4>2 DEF Inv, HearingWasReached
      <4> QED
        BY <4>1, <4>2
    <3> QED
      BY <2>2, <3>1 DEF Inv, HearingWasReached
  <2> QED
    BY <2>1, <2>2, <2>4, <2>5, EndKeeps
<1> QED
  BY <1>2, <1>3

\* A rollback leaves the case as it was.
LEMMA AbortKeeps ==
  ASSUME Inv, NEW r \in Requests, AbortUpdate(r)
  PROVE  TimelineIsTrue' /\ HeldIsReached' /\ HearingWasReached'
<1>1. Reached' = Reached
  BY DEF AbortUpdate, Reached
<1>2. TimelineIsTrue' /\ HearingWasReached'
  BY <1>1 DEF Inv, AbortUpdate, TimelineIsTrue, HearingWasReached
<1> QED
  BY <1>1, <1>2, EndKeeps DEF AbortUpdate

\* The invariant holds at first.
LEMMA InvInit ==
  ASSUME Init
  PROVE  Inv
<1>1. TypeOK
  BY DEF Init, TypeOK, CaseStatus
<1>2. Reached = {"lead"}
  BY DEF Init, Reached
<1> QED
  BY <1>1, <1>2 DEF Init, Inv, TimelineIsTrue, HeldIsReached,
                    HearingWasReached, BeforeHearing

\* No step breaks it.
LEMMA InvStep ==
  ASSUME Inv, [Next]_vars
  PROVE  Inv'
<1>1. TypeOK'
  BY TypeStep DEF Inv
<1>2. CASE UNCHANGED vars
  <2>1. Reached' = Reached
    BY <1>2 DEF vars, Reached
  <2> QED
    BY <1>1, <1>2, <2>1
    DEF Inv, vars, requestVars, TimelineIsTrue, HeldIsReached,
        HearingWasReached
<1>3. CASE Next
  <2>1. PICK r \in Requests :
          \/ \E to \in CaseStatus : LoadCase(r, to)
          \/ CommitUpdate(r)
          \/ AbortUpdate(r)
    BY <1>3 DEF Next
  <2>2. TimelineIsTrue' /\ HeldIsReached' /\ HearingWasReached'
    BY <2>1, LoadKeeps, CommitKeeps, AbortKeeps
  <2> QED
    BY <1>1, <2>2 DEF Inv
<1> QED
  BY <1>2, <1>3

\* The invariant holds in every state.
THEOREM Invariance == Spec => []Inv
BY InvInit, InvStep, PTL DEF Spec

-----------------------------------------------------------------------------
(* What follows from it                                                    *)

\* Every variable keeps its type.
THEOREM TypeCorrect == Spec => []TypeOK
<1>1. Inv => TypeOK
  BY DEF Inv
<1> QED
  BY <1>1, Invariance, PTL

\* However many requests race for a case, its timeline tells a true story:
\* each event is a move of the table out of a status the case has had.
THEOREM TimelineTellsTheTruth == Spec => []TimelineIsTrue
<1>1. Inv => TimelineIsTrue
  BY DEF Inv
<1> QED
  BY <1>1, Invariance, PTL

\* No number of stale requests gets a case past a hearing that was never
\* scheduled.
THEOREM NoDischargeWithoutHearing == Spec => []HearingComesFirst
<1>1. Inv => HearingComesFirst
  BY DEF Inv, HearingComesFirst, HearingWasReached, TimelineIsTrue
<1> QED
  BY <1>1, Invariance, PTL

-----------------------------------------------------------------------------
(* One request at a time                                                   *)

\* The status a request holds is not stale.
HeldIsFresh == \A r \in Requests : phase[r] = "loaded" => seen[r] = status

\* With one request nothing is committed between its load and its commit.
LEMMA FreshStep ==
  ASSUME NEW p, Requests = {p}, Inv, HeldIsFresh, [Next]_vars
  PROVE  HeldIsFresh'
<1>1. ASSUME NEW to \in CaseStatus, LoadCase(p, to)
      PROVE  HeldIsFresh'
  BY <1>1 DEF HeldIsFresh, LoadCase, Inv, TypeOK
<1>2. ASSUME EndRequest(p)
      PROVE  HeldIsFresh'
  BY <1>2 DEF HeldIsFresh, EndRequest, Inv, TypeOK
<1>3. CASE UNCHANGED vars
  BY <1>3 DEF HeldIsFresh, vars, requestVars
<1> QED
  BY <1>1, <1>2, <1>3 DEF Next, CommitUpdate, AbortUpdate

\* The two copies of the table are one.
LEMMA SameTable ==
  ASSUME NEW s, NEW t
  PROVE  Lifecycle!IsValidTransition(s, t) <=> IsValidTransition(s, t)
BY DEF Lifecycle!IsValidTransition, IsValidTransition, Lifecycle!Transitions,
       Transitions, Lifecycle!CaseStatus, CaseStatus

\* Every step of the one request is a move of the lifecycle, or none.
LEMMA LifecycleStep ==
  ASSUME NEW p, Requests = {p}, Inv, HeldIsFresh, [Next]_vars
  PROVE  [Lifecycle!Next]_status
<1>1. CASE CommitUpdate(p) /\ target[p] # seen[p]
  <2>1. /\ seen[p] = status
        /\ status' = target[p]
        /\ target[p] \in CaseStatus
    BY <1>1 DEF CommitUpdate, HeldIsFresh, Inv, TypeOK
  <2>2. IsValidTransition(status, target[p])
    BY <1>1, <2>1 DEF CommitUpdate, Inv, HeldIsReached, Accepted
  <2>3. Lifecycle!Move(target[p])
    BY <2>1, <2>2, SameTable DEF Lifecycle!Move
  <2>4. target[p] \in Lifecycle!CaseStatus
    BY <2>1 DEF CaseStatus, Lifecycle!CaseStatus
  <2> QED
    BY <2>3, <2>4 DEF Lifecycle!Next
<1>2. CASE CommitUpdate(p) /\ target[p] = seen[p]
  BY <1>2 DEF CommitUpdate
<1>3. CASE \E to \in CaseStatus : LoadCase(p, to)
  BY <1>3 DEF LoadCase
<1>4. CASE AbortUpdate(p)
  BY <1>4 DEF AbortUpdate
<1>5. CASE UNCHANGED vars
  BY <1>5 DEF vars
<1> QED
  BY <1>1, <1>2, <1>3, <1>4, <1>5 DEF Next

\* Served one request at a time, a case moves along the state machine only.
THEOREM OneRequestRefines ==
  ASSUME NEW p, Requests = {p}
  PROVE  Spec => ImplementsLifecycle
<1>1. Init => HeldIsFresh /\ Lifecycle!Init
  BY DEF Init, HeldIsFresh, Lifecycle!Init
<1>2. Inv /\ HeldIsFresh /\ [Next]_vars =>
        HeldIsFresh' /\ [Lifecycle!Next]_status
  BY FreshStep, LifecycleStep
<1> QED
  BY <1>1, <1>2, Invariance, PTL DEF Spec, ImplementsLifecycle, Lifecycle!Spec

-----------------------------------------------------------------------------
(* Sums: SumOf is a fold, and the fold a function chosen by its equation.  *)

\* Which creditor of s CHOOSE counts first.
Pick(s) == CHOOSE x \in s : TRUE

\* One step of the fold behind SumOf, by the function it is building.
SumStep(g, f, s) == IF s = {} THEN 0 ELSE f[Pick(s)] + g[s \ {Pick(s)}]

\* That function: a sum for every part of S.
IsSum(g, S, f) == g = [s \in SUBSET S |-> SumStep(g, f, s)]

\* What it gives for S itself.
Total(S, f) == (CHOOSE g : IsSum(g, S, f))[S]

\* A set of numbers that is not empty has a least one.
LEMMA LeastNumber ==
  ASSUME NEW T \in SUBSET Nat, T # {}
  PROVE  \E n \in T : \A m \in T : n <= m
<1>1. PICK n \in T : \A m \in T : ~ (<<m, n>> \in OpToRel(<, Nat))
  BY NatLessThanWellFounded, WFMin
<1>2. \A m \in T : ~ (m < n)
  BY <1>1 DEF OpToRel
<1> QED
  BY <1>2

\* Taking one element out of a finite set.
LEMMA Smaller ==
  ASSUME NEW S, IsFiniteSet(S), NEW s \in SUBSET S
  PROVE  /\ IsFiniteSet(s)
         /\ Cardinality(s) \in Nat
         /\ s # {} => /\ Pick(s) \in s
                      /\ s \ {Pick(s)} \in SUBSET S
                      /\ Cardinality(s \ {Pick(s)}) = Cardinality(s) - 1
                      /\ Cardinality(s \ {Pick(s)}) \in Nat
         /\ s = {} <=> Cardinality(s) = 0
<1>1. IsFiniteSet(s) /\ Cardinality(s) \in Nat
  BY FS_Subset, FS_CardinalityType
<1>2. ASSUME s # {}
      PROVE  /\ Pick(s) \in s
             /\ s \ {Pick(s)} \in SUBSET S
             /\ Cardinality(s \ {Pick(s)}) = Cardinality(s) - 1
             /\ Cardinality(s \ {Pick(s)}) \in Nat
  <2>1. Pick(s) \in s
    BY <1>2 DEF Pick
  <2>2. IsFiniteSet(s \ {Pick(s)})
        /\ Cardinality(s \ {Pick(s)}) = Cardinality(s) - 1
    BY <1>1, <2>1, FS_RemoveElement
  <2> QED
    BY <2>1, <2>2, FS_CardinalityType
<1> QED
  BY <1>1, <1>2, FS_EmptySet

\* Some function sums every part of a finite set.
LEMMA SumExists ==
  ASSUME NEW S, IsFiniteSet(S), NEW f, \A c \in S : f[c] \in Int
  PROVE  \E g : IsSum(g, S, f)
<1> DEFINE Good(n) == \E g \in [SUBSET S -> Int] :
                        \A s \in SUBSET S :
                          Cardinality(s) <= n => g[s] = SumStep(g, f, s)
<1>1. Good(0)
  <2> DEFINE zero == [s \in SUBSET S |-> 0]
  <2>1. ASSUME NEW s \in SUBSET S, Cardinality(s) <= 0
        PROVE  zero[s] = SumStep(zero, f, s)
    <3>1. Cardinality(s) \in Nat /\ (s = {} <=> Cardinality(s) = 0)
      BY Smaller
    <3>2. s = {}
      BY <2>1, <3>1
    <3> QED
      BY <3>2 DEF SumStep
  <2>2. zero \in [SUBSET S -> Int]
    OBVIOUS
  <2> HIDE DEF zero
  <2> QED
    BY <2>1, <2>2
<1>2. ASSUME NEW n \in Nat, Good(n) PROVE Good(n + 1)
  <2>1. PICK g \in [SUBSET S -> Int] :
          \A s \in SUBSET S : Cardinality(s) <= n => g[s] = SumStep(g, f, s)
    BY <1>2
  <2> DEFINE h == [s \in SUBSET S |->
                     IF Cardinality(s) <= n THEN g[s] ELSE SumStep(g, f, s)]
  <2>2. ASSUME NEW s \in SUBSET S PROVE SumStep(g, f, s) \in Int
    <3>1. ASSUME s # {} PROVE f[Pick(s)] \in Int /\ g[s \ {Pick(s)}] \in Int
      <4>1. Pick(s) \in S /\ s \ {Pick(s)} \in SUBSET S
        BY <3>1, Smaller
      <4> QED
        BY <4>1
    <3> QED
      BY <3>1 DEF SumStep
  <2>3. h \in [SUBSET S -> Int]
    BY <2>2
  <2>4. ASSUME NEW s \in SUBSET S, Cardinality(s) <= n + 1
        PROVE  h[s] = SumStep(h, f, s)
    <3>1. h[s] = SumStep(g, f, s)
      BY <2>1
    <3>2. s # {} => h[s \ {Pick(s)}] = g[s \ {Pick(s)}]
      <4>1. ASSUME s # {}
            PROVE  /\ s \ {Pick(s)} \in SUBSET S
                   /\ Cardinality(s \ {Pick(s)}) <= n
        BY <2>4, <4>1, Smaller
      <4> QED BY <4>1
    <3> HIDE DEF h
    <3> QED
      BY <3>1, <3>2 DEF SumStep
  <2> HIDE DEF h
  <2> QED
    BY <2>3, <2>4
<1>3. ASSUME NEW n \in Nat PROVE Good(n)
  <2> SUFFICES ASSUME ~Good(n) PROVE FALSE
    OBVIOUS
  <2> DEFINE Bad == {m \in Nat : ~Good(m)}
  <2>1. PICK m \in Bad : \A k \in Bad : m <= k
    <3>1. n \in Bad
      OBVIOUS
    <3> HIDE DEF Good
    <3> QED BY <3>1, LeastNumber
  <2>2. m \in Nat /\ ~Good(m)
    OBVIOUS
  <2> HIDE DEF Good
  <2>3. m # 0
    BY <1>1, <2>2
  <2>4. m - 1 \in Nat /\ m - 1 \notin Bad /\ (m - 1) + 1 = m
    BY <2>1, <2>2, <2>3
  <2>5. Good(m - 1)
    BY <2>4
  <2> QED
    BY <1>2, <2>2, <2>4, <2>5
<1>4. PICK g \in [SUBSET S -> Int] :
        \A s \in SUBSET S :
          Cardinality(s) <= Cardinality(S) => g[s] = SumStep(g, f, s)
  BY <1>3, FS_CardinalityType
<1>5. \A s \in SUBSET S : g[s] = SumStep(g, f, s)
  BY <1>4, FS_Subset, FS_CardinalityType
<1>6. g = [s \in SUBSET S |-> g[s]]
  BY <1>4
<1> QED
  BY <1>5, <1>6 DEF IsSum, SumStep

\* What such a function gives are numbers.
LEMMA TotalType ==
  ASSUME NEW S, IsFiniteSet(S), NEW f, \A c \in S : f[c] \in Int
  PROVE  Total(S, f) \in Int
<1> DEFINE g == CHOOSE g : IsSum(g, S, f)
<1>1. IsSum(g, S, f)
  BY SumExists
<1> HIDE DEF g
<1>2. ASSUME NEW s \in SUBSET S PROVE g[s] = SumStep(g, f, s)
  BY <1>1, <1>2 DEF IsSum, SumStep
<1> DEFINE Bad == {n \in Nat :
                     \E s \in SUBSET S : Cardinality(s) = n /\ g[s] \notin Int}
<1>3. Bad = {}
  <2> SUFFICES ASSUME Bad # {} PROVE FALSE
    OBVIOUS
  <2>1. PICK n \in Bad : \A m \in Bad : n <= m
    BY LeastNumber
  <2>2. PICK s \in SUBSET S : Cardinality(s) = n /\ g[s] \notin Int
    BY <2>1
  <2>3. CASE s = {}
    <3>1. g[s] = 0
      BY <1>2, <2>3 DEF SumStep
    <3> QED
      BY <2>2, <3>1
  <2>4. CASE s # {}
    <3>1. g[s] = f[Pick(s)] + g[s \ {Pick(s)}]
      BY <1>2, <2>4 DEF SumStep
    <3>2. Cardinality(s \ {Pick(s)}) \in Nat /\ Cardinality(s \ {Pick(s)}) < n
          /\ s \ {Pick(s)} \in SUBSET S /\ Pick(s) \in S
      BY <2>1, <2>2, <2>4, Smaller
    <3>3. g[s \ {Pick(s)}] \in Int
      BY <2>1, <3>2
    <3> QED
      BY <2>2, <3>1, <3>2, <3>3
  <2> QED BY <2>3, <2>4
<1>4. g[S] \in Int
  BY <1>3, FS_CardinalityType
<1> QED
  BY <1>4 DEF Total, g

\* SumOf is that total.
LEMMA SumIsTotal == ASSUME NEW S PROVE SumOf(S) = Total(S, owed)
BY DEF SumOf, MapThenSumSet, MapThenFoldSet, IsSum, SumStep, Pick,
       Total

\* The same after a step.
LEMMA SumIsTotalNext == ASSUME NEW S PROVE SumOf(S)' = Total(S, owed')
BY DEF SumOf, MapThenSumSet, MapThenFoldSet, IsSum, SumStep, Pick,
       Total

\* What a sum depends on: the amounts of the creditors it counts.
LEMMA TotalDepends ==
  ASSUME NEW S, NEW f, NEW h, \A c \in S : f[c] = h[c]
  PROVE  Total(S, f) = Total(S, h)
<1>1. ASSUME NEW g PROVE IsSum(g, S, f) <=> IsSum(g, S, h)
  <2>1. ASSUME NEW s \in SUBSET S, s # {} PROVE f[Pick(s)] = h[Pick(s)]
     BY <2>1 DEF Pick
  <2>2. [s \in SUBSET S |-> SumStep(g, f, s)]
          = [s \in SUBSET S |-> SumStep(g, h, s)]
    BY <2>1 DEF SumStep
  <2> QED BY <2>2 DEF IsSum
<1>2. (CHOOSE g : IsSum(g, S, f)) = (CHOOSE g : IsSum(g, S, h))
  BY <1>1
<1> QED BY <1>2 DEF Total

\* A sum of a part is the same number, whatever set it is a part of.
LEMMA PartTotal ==
  ASSUME NEW S, IsFiniteSet(S), NEW f, \A c \in S : f[c] \in Int,
         NEW g, IsSum(g, S, f), NEW s \in SUBSET S
  PROVE  g[s] = Total(s, f)
<1> DEFINE h == CHOOSE h : IsSum(h, s, f)
<1>1. IsFiniteSet(s) /\ \A c \in s : f[c] \in Int
  BY FS_Subset
<1>2. IsSum(h, s, f)
  BY <1>1, SumExists
<1> HIDE DEF h
<1>3. ASSUME NEW t \in SUBSET s
      PROVE  g[t] = SumStep(g, f, t) /\ h[t] = SumStep(h, f, t)
  <2>1. t \in SUBSET S
    OBVIOUS
  <2> QED BY <1>2, <2>1 DEF IsSum, SumStep
<1> DEFINE Bad == {n \in Nat : \E t \in SUBSET s : Cardinality(t) = n /\ g[t] # h[t]}
<1>4. Bad = {}
  <2> SUFFICES ASSUME Bad # {} PROVE FALSE
    OBVIOUS
  <2>1. PICK n \in Bad : \A m \in Bad : n <= m
    BY LeastNumber
  <2>2. PICK t \in SUBSET s : Cardinality(t) = n /\ g[t] # h[t]
    BY <2>1
  <2>3. t # {}
    BY <1>3, <2>2 DEF SumStep
  <2>4. /\ t \ {Pick(t)} \in SUBSET s
        /\ Cardinality(t \ {Pick(t)}) \in Nat /\ Cardinality(t \ {Pick(t)}) < n
    BY <1>1, <2>1, <2>2, <2>3, Smaller
  <2>5. g[t \ {Pick(t)}] = h[t \ {Pick(t)}]
    BY <2>1, <2>4
  <2> QED
    BY <1>3, <2>2, <2>5 DEF SumStep
<1>5. g[s] = h[s]
  BY <1>1, <1>4, FS_CardinalityType
<1> QED
  BY <1>5 DEF Total, h

\* The equation of sums, for a set and its first element.
LEMMA FirstTerm ==
  ASSUME NEW S, IsFiniteSet(S), NEW f, \A c \in S : f[c] \in Int
  PROVE  Total(S, f) = IF S = {} THEN 0
                       ELSE f[Pick(S)] + Total(S \ {Pick(S)}, f)
<1>1. PICK g : IsSum(g, S, f)
  BY SumExists
<1>2. g[S] = Total(S, f)
  BY <1>1, PartTotal
<1>3. g[S \ {Pick(S)}] = Total(S \ {Pick(S)}, f)
  <2>1. S \ {Pick(S)} \in SUBSET S
    OBVIOUS
  <2> QED BY <1>1, <2>1, PartTotal
<1>4. g[S] = SumStep(g, f, S)
  BY <1>1 DEF IsSum, SumStep
<1> QED
  BY <1>2, <1>3, <1>4 DEF SumStep

\* Every term counts once, in whatever order they are taken.
LEMMA AnyTerm ==
  ASSUME NEW S, IsFiniteSet(S), NEW f, \A c \in S : f[c] \in Int, NEW c \in S
  PROVE  Total(S, f) = f[c] + Total(S \ {c}, f)
<1> DEFINE Wrong(t) == \E d \in t : Total(t, f) # f[d] + Total(t \ {d}, f)
           Bad == {n \in Nat : \E t \in SUBSET S : Cardinality(t) = n /\ Wrong(t)}
<1>1. ASSUME NEW t \in SUBSET S
      PROVE  /\ IsFiniteSet(t) /\ Cardinality(t) \in Nat
             /\ \A d \in t : f[d] \in Int
             /\ Total(t, f) \in Int
             /\ t # {} => Pick(t) \in t /\ Total(t,
                  f) = f[Pick(t)] + Total(t \ {Pick(t)}, f)
  <2>1. IsFiniteSet(t) /\ Cardinality(t) \in Nat /\ \A d \in t : f[d] \in Int
    BY FS_Subset, FS_CardinalityType
  <2>2. Total(t, f) \in Int
    BY <2>1, TotalType
  <2>3. t # {} => Pick(t) \in t
    BY DEF Pick
  <2> QED
    BY <2>1, <2>2, <2>3, FirstTerm
<1>2. Bad = {}
  <2> SUFFICES ASSUME Bad # {} PROVE FALSE
    OBVIOUS
  <2>1. PICK n \in Bad : \A m \in Bad : n <= m
    <3> HIDE DEF Wrong
    <3> QED BY LeastNumber
  <2>2a. PICK t \in SUBSET S : Cardinality(t) = n /\ Wrong(t)
    BY <2>1
  <2>2. PICK d \in t : Cardinality(t) = n /\ Total(t, f) # f[d] + Total(t \ {d}, f)
    BY <2>2a
  <2> DEFINE e == Pick(t)
  <2>3. e \in t /\ Total(t, f) = f[e] + Total(t \ {e}, f)
    BY <1>1, <2>2
  <2>4. d # e
    BY <2>2, <2>3
  <2> HIDE DEF e
  <2>5. ASSUME NEW x \in t, NEW y \in t \ {x}
        PROVE  Total(t \ {x}, f) = f[y] + Total((t \ {x}) \ {y}, f)
    <3>1. t \ {x} \in SUBSET S
      OBVIOUS
    <3>2. Cardinality(t \ {x}) = n - 1
      BY <1>1, <2>2, FS_RemoveElement
    <3>3. Cardinality(t \ {x}) \in Nat
      BY <1>1, <3>1
    <3>4. Cardinality(t \ {x}) \notin Bad
      <4>1. n \in Nat
        BY <2>1
      <4> HIDE DEF Bad
      <4> QED BY <2>1, <3>2, <3>3, <4>1
    <3> QED BY <3>1, <3>3, <3>4
  <2>6. /\ Total(t \ {e}, f) = f[d] + Total((t \ {e}) \ {d}, f)
        /\ Total(t \ {d}, f) = f[e] + Total((t \ {d}) \ {e}, f)
    BY <2>3, <2>4, <2>5
  <2>7. (t \ {e}) \ {d} = (t \ {d}) \ {e}
    OBVIOUS
  <2>8. f[d] \in Int /\ f[e] \in Int /\ Total((t \ {d}) \ {e}, f) \in Int
    BY <1>1, <2>3
  <2> DEFINE rest == Total((t \ {d}) \ {e}, f)
  <2>9. Total((t \ {e}) \ {d}, f) = rest
    BY <2>7
  <2> HIDE DEF rest
  <2>10. Total(t, f) = f[e] + (f[d] + rest) /\ Total(t \ {d}, f) = f[e] + rest
    BY <2>3, <2>6, <2>9 DEF rest
  <2>11. f[d] \in Int /\ f[e] \in Int /\ rest \in Int
    BY <2>8 DEF rest
  <2> QED
    BY <2>2, <2>10, <2>11
<1>3. ~Wrong(S)
  BY <1>1, <1>2
<1> QED
  BY <1>3

-----------------------------------------------------------------------------
(* The creditors of a case                                                *)

\* What an idle request holds: no creditor; another holds one of its own.
AddsAreFresh ==
  /\ IsFiniteSet(creditors)
  /\ \A r \in Requests :
       /\ debtPhase[r] = "idle" => adds[r] = {}
       /\ debtPhase[r] # "idle" =>
            \E c \in Creditors : adds[r] = {c} /\ c \notin creditors
       /\ \A q \in Requests : q # r => adds[q] \cap adds[r] = {}

\* d is the sum of some creditors of the set.
IsOwed(d, set, amounts) ==
  \E S \in SUBSET set : S # {} /\ d = Total(S, amounts)

\* What is stored and what the requests are about to store are sums.
SumsAreOwed ==
  /\ totalDebt = opening \/ IsOwed(totalDebt, creditors, owed)
  /\ \A r \in Requests : debtPhase[r] = "summed" =>
       IsOwed(sum[r], creditors \cup adds[r], owed)

\* What a request knows that no commit has overlapped.
AloneKnows ==
  \A r \in Requests : alone[r] /\ debtPhase[r] # "idle" =>
    /\ seenDebt[r] = totalDebt
    /\ debtPhase[r] = "summed" => sum[r] = Total(creditors \cup adds[r], owed)

RegisterInv == RegisterTypeOK /\ AddsAreFresh /\ SumsAreOwed /\ AloneKnows

\* A set stays owed when creditors join and when no counted amount changes.
LEMMA StaysOwed ==
  ASSUME NEW d, NEW A, NEW B, NEW f, NEW h, IsOwed(d, A, f), A \subseteq B,
         \A c \in A : f[c] = h[c]
  PROVE  IsOwed(d, B, h)
<1>1. PICK S \in SUBSET A : S # {} /\ d = Total(S, f)
  BY DEF IsOwed
<1>2. Total(S, f) = Total(S, h)
  BY TotalDepends
<1> QED
  BY <1>1, <1>2 DEF IsOwed


\* The creditor a request brings is counted by nobody yet.
LEMMA LoadKeepsDebt ==
  ASSUME RegisterInv, NEW r \in Requests, NEW c \in Creditors,
         NEW amount \in Amounts, LoadForCreditor(r, c, amount)
  PROVE  RegisterInv'
<1>1. RegisterTypeOK'
  BY RegisterAssumption DEF RegisterInv, RegisterTypeOK, LoadForCreditor
<1>2. /\ creditors' = creditors
      /\ debtPhase' = [debtPhase EXCEPT ![r] = "loaded"]
      /\ adds' = [adds EXCEPT ![r] = {c}]
      /\ c \notin creditors /\ \A q \in Requests : c \notin adds[q]
  BY DEF LoadForCreditor
<1>3. AddsAreFresh'
  BY <1>2 DEF AddsAreFresh, RegisterInv, RegisterTypeOK
<1>4. \A x \in Creditors : x # c => owed'[x] = owed[x]
  BY DEF LoadForCreditor, RegisterInv, RegisterTypeOK
<1>5. \A x \in creditors : owed'[x] = owed[x]
  BY <1>2, <1>4 DEF RegisterInv, RegisterTypeOK
<1>6. ASSUME NEW q \in Requests, q # r
      PROVE  /\ debtPhase'[q] = debtPhase[q] /\ adds'[q] = adds[q]
             /\ sum'[q] = sum[q] /\ seenDebt'[q] = seenDebt[q]
             /\ alone'[q] = alone[q]
             /\ \A x \in adds[q] : owed'[x] = owed[x]
  BY <1>2, <1>4, <1>6 DEF LoadForCreditor, RegisterInv, RegisterTypeOK
<1>7. /\ totalDebt' = totalDebt /\ opening' = opening
      /\ debtPhase'[r] = "loaded" /\ seenDebt'[r] = totalDebt
  BY DEF LoadForCreditor, RegisterInv, RegisterTypeOK
<1>8. SumsAreOwed'
  <2>1. totalDebt' = opening' \/ IsOwed(totalDebt', creditors', owed')
    BY <1>2, <1>5, <1>7, StaysOwed DEF RegisterInv, SumsAreOwed
  <2>2. ASSUME NEW q \in Requests, debtPhase'[q] = "summed"
        PROVE  IsOwed(sum'[q], creditors' \cup adds'[q], owed')
    <3>1. q # r
      BY <1>7, <2>2
    <3>2. IsOwed(sum[q], creditors \cup adds[q], owed)
      BY <1>6, <2>2, <3>1 DEF RegisterInv, SumsAreOwed
    <3>3. \A x \in creditors \cup adds[q] : owed[x] = owed'[x]
      BY <1>5, <1>6, <3>1
    <3>4. IsOwed(sum[q], creditors \cup adds[q], owed')
      BY <3>2, <3>3, StaysOwed
    <3> QED BY <1>2, <1>6, <3>1, <3>4
  <2> QED BY <2>1, <2>2 DEF SumsAreOwed
<1>9. AloneKnows'
  <2>1. ASSUME NEW q \in Requests, alone'[q], debtPhase'[q] # "idle"
        PROVE  /\ seenDebt'[q] = totalDebt'
               /\ debtPhase'[q] = "summed" =>
                    sum'[q] = Total(creditors' \cup adds'[q], owed')
    <3>1. CASE q = r
      BY <1>7, <3>1
    <3>2. CASE q # r
      <4>1. \A x \in creditors \cup adds[q] : owed[x] = owed'[x]
        BY <1>5, <1>6, <3>2
      <4>2. Total(creditors \cup adds[q], owed)
              = Total(creditors \cup adds[q], owed')
        BY <4>1, TotalDepends
      <4> QED BY <1>2, <1>6, <1>7, <2>1, <3>2, <4>2 DEF RegisterInv, AloneKnows
    <3> QED BY <3>1, <3>2
  <2> QED BY <2>1 DEF AloneKnows
<1> QED BY <1>1, <1>3, <1>8, <1>9 DEF RegisterInv

\* What a request sums are creditors there are, and its own.
LEMMA SumKeepsDebt ==
  ASSUME RegisterInv, NEW r \in Requests, SumDebt(r)
  PROVE  RegisterInv'
<1> DEFINE S == creditors \cup adds[r]
<1>1. PICK c \in Creditors : adds[r] = {c} /\ c \notin creditors
  BY DEF SumDebt, RegisterInv, AddsAreFresh
<1>2. IsFiniteSet(S) /\ S # {} /\ \A x \in S : owed[x] \in Int
  <2>1. IsFiniteSet(S)
    BY <1>1, FS_AddElement DEF RegisterInv, AddsAreFresh
  <2>2. S \subseteq Creditors
    BY <1>1 DEF RegisterInv, RegisterTypeOK
  <2> QED BY <1>1, <2>1, <2>2 DEF RegisterInv, RegisterTypeOK
<1>3. VisibleSum(r) = Total(S, owed) /\ Total(S, owed) \in Int
  BY <1>2, TotalType, SumIsTotal DEF VisibleSum
<1> HIDE DEF S
<1>4. /\ sum' = [sum EXCEPT ![r] = Total(S, owed)]
      /\ debtPhase' = [debtPhase EXCEPT ![r] = "summed"]
      /\ debtPhase[r] = "loaded"
      /\ UNCHANGED <<creditors, owed, totalDebt, adds, seenDebt, opening, alone>>
  BY <1>3 DEF SumDebt
<1>5. RegisterTypeOK'
  BY <1>3, <1>4 DEF RegisterInv, RegisterTypeOK
<1>6. AddsAreFresh'
  BY <1>4 DEF RegisterInv, RegisterTypeOK, AddsAreFresh
<1>7. \A q \in Requests :
        /\ sum'[q] = IF q = r THEN Total(S, owed) ELSE sum[q]
        /\ debtPhase'[q] = IF q = r THEN "summed" ELSE debtPhase[q]
  BY <1>4 DEF RegisterInv, RegisterTypeOK
<1>8. IsOwed(Total(S, owed), S, owed)
  BY <1>2 DEF IsOwed
<1>9. SumsAreOwed'
  <2>1. \A q \in Requests : debtPhase'[q] = "summed" =>
          IsOwed(sum'[q], creditors \cup adds[q], owed)
    BY <1>7, <1>8 DEF RegisterInv, SumsAreOwed, S
  <2>2. \A q \in Requests : debtPhase'[q] = "summed" =>
          IsOwed(sum'[q], creditors' \cup adds'[q], owed')
    BY <1>4, <2>1
  <2>3. totalDebt' = opening' \/ IsOwed(totalDebt', creditors', owed')
    BY <1>4 DEF RegisterInv, SumsAreOwed
  <2> QED BY <2>2, <2>3 DEF SumsAreOwed
<1>10. AloneKnows'
  <2>1. ASSUME NEW q \in Requests, alone[q], debtPhase'[q] # "idle"
        PROVE  /\ seenDebt[q] = totalDebt
               /\ debtPhase'[q] = "summed" =>
                    sum'[q] = Total(creditors \cup adds[q], owed)
    BY <1>4, <1>7, <2>1 DEF RegisterInv, AloneKnows, S
  <2> QED BY <1>4, <2>1 DEF AloneKnows
<1> QED BY <1>5, <1>6, <1>9, <1>10 DEF RegisterInv

\* A request that ends holds no creditor; the others hold what they held.
LEMMA EndAddHolds ==
  ASSUME RegisterTypeOK, NEW r \in Requests, EndAdd(r)
  PROVE  /\ debtPhase'[r] = "idle" /\ adds'[r] = {}
         /\ \A q \in Requests : q # r =>
              /\ debtPhase'[q] = debtPhase[q] /\ adds'[q] = adds[q]
              /\ seenDebt'[q] = seenDebt[q] /\ sum'[q] = sum[q]
         /\ debtPhase' \in [Requests -> {"idle", "loaded", "summed"}]
         /\ adds' \in [Requests -> SUBSET Creditors]
         /\ seenDebt' \in [Requests -> Int]
         /\ sum' \in [Requests -> Int]
BY DEF RegisterTypeOK, EndAdd

\* A commit writes a sum that counts what is now stored, or nothing.
LEMMA CommitKeepsDebt ==
  ASSUME RegisterInv, NEW r \in Requests, CommitCreditor(r)
  PROVE  /\ RegisterInv'
         /\ alone[r] => totalDebt' = Total(creditors \cup adds[r], owed)
<1>1. PICK c \in Creditors : adds[r] = {c} /\ c \notin creditors
  BY DEF CommitCreditor, RegisterInv, AddsAreFresh
<1>2. /\ creditors' = creditors \cup {c}
      /\ owed' = owed /\ opening' = opening
      /\ alone' = [q \in Requests |-> q = r]
      /\ totalDebt' = totalDebt \/ totalDebt' = sum[r]
  BY <1>1 DEF CommitCreditor, DebtAfter
<1>3. /\ debtPhase'[r] = "idle" /\ adds'[r] = {}
      /\ \A q \in Requests : q # r =>
           /\ debtPhase'[q] = debtPhase[q] /\ adds'[q] = adds[q]
           /\ seenDebt'[q] = seenDebt[q] /\ sum'[q] = sum[q]
  BY EndAddHolds DEF CommitCreditor, RegisterInv
<1>4. RegisterTypeOK'
  <2>1. totalDebt' \in Int
    BY <1>2 DEF RegisterInv, RegisterTypeOK
  <2>2. /\ debtPhase' \in [Requests -> {"idle", "loaded", "summed"}]
        /\ adds' \in [Requests -> SUBSET Creditors]
        /\ seenDebt' \in [Requests -> Int]
        /\ sum' \in [Requests -> Int]
    BY EndAddHolds DEF CommitCreditor, RegisterInv
  <2> QED
    BY <1>2, <2>1, <2>2 DEF RegisterInv, RegisterTypeOK
<1>5. AddsAreFresh'
  <2>1. IsFiniteSet(creditors')
    BY <1>2, FS_AddElement DEF RegisterInv, AddsAreFresh
  <2>2. \A q \in Requests : q # r => c \notin adds[q]
    BY <1>1 DEF RegisterInv, AddsAreFresh
  <2> QED
    BY <1>2, <1>3, <2>1, <2>2 DEF RegisterInv, AddsAreFresh
<1>6. SumsAreOwed'
  <2>1. ASSUME NEW d, NEW A, IsOwed(d, A, owed), A \subseteq creditors'
        PROVE  IsOwed(d, creditors', owed')
    BY <1>2, <2>1, StaysOwed
  <2>2. totalDebt' = opening' \/ IsOwed(totalDebt', creditors', owed')
    <3>1. IsOwed(sum[r], creditors', owed)
      BY <1>1, <1>2 DEF CommitCreditor, RegisterInv, SumsAreOwed
    <3> QED
      BY <1>2, <2>1, <3>1 DEF RegisterInv, SumsAreOwed
  <2>3. ASSUME NEW q \in Requests, debtPhase'[q] = "summed"
        PROVE  IsOwed(sum'[q], creditors' \cup adds'[q], owed')
    <3>1. q # r
      BY <1>3, <2>3
    <3>2. IsOwed(sum[q], creditors \cup adds[q], owed)
      BY <1>3, <2>3, <3>1 DEF RegisterInv, SumsAreOwed
    <3>3. IsOwed(sum[q], creditors' \cup adds[q], owed)
      BY <1>2, <3>2, StaysOwed
    <3> QED
      BY <1>2, <1>3, <3>1, <3>3
  <2> QED
    BY <2>2, <2>3 DEF SumsAreOwed
<1>7. AloneKnows'
  BY <1>2, <1>3 DEF AloneKnows
<1>8. ASSUME alone[r] PROVE totalDebt' = Total(creditors \cup adds[r], owed)
  BY <1>8 DEF CommitCreditor, DebtAfter, RegisterInv, AloneKnows
<1> QED
  BY <1>4, <1>5, <1>6, <1>7, <1>8 DEF RegisterInv

\* A rollback takes away a creditor that no other request has counted.
LEMMA AbortKeepsDebt ==
  ASSUME RegisterInv, NEW r \in Requests, AbortCreditor(r)
  PROVE  RegisterInv'
<1>1. PICK c \in Creditors : adds[r] = {c} /\ c \notin creditors
  BY DEF AbortCreditor, RegisterInv, AddsAreFresh
<1>2. /\ UNCHANGED <<creditors, totalDebt, opening, alone>>
      /\ owed' = [x \in Creditors |-> IF x \in {c} THEN 0 ELSE owed[x]]
  BY <1>1 DEF AbortCreditor
<1>3. /\ debtPhase'[r] = "idle" /\ adds'[r] = {}
      /\ \A q \in Requests : q # r =>
           /\ debtPhase'[q] = debtPhase[q] /\ adds'[q] = adds[q]
           /\ seenDebt'[q] = seenDebt[q] /\ sum'[q] = sum[q]
  BY EndAddHolds DEF AbortCreditor, RegisterInv
<1>4. \A x \in Creditors : x # c => owed'[x] = owed[x]
  BY <1>2
<1>5. RegisterTypeOK'
  <2>1. owed' \in [Creditors -> Int]
    BY <1>2 DEF RegisterInv, RegisterTypeOK
  <2>2. /\ debtPhase' \in [Requests -> {"idle", "loaded", "summed"}]
        /\ adds' \in [Requests -> SUBSET Creditors]
        /\ seenDebt' \in [Requests -> Int]
        /\ sum' \in [Requests -> Int]
    BY EndAddHolds DEF AbortCreditor, RegisterInv
  <2> QED
    BY <1>2, <2>1, <2>2 DEF RegisterInv, RegisterTypeOK
<1>6. AddsAreFresh'
  BY <1>2, <1>3 DEF RegisterInv, AddsAreFresh
<1>7. ASSUME NEW q \in Requests, q # r
      PROVE  \A x \in creditors \cup adds[q] : owed[x] = owed'[x]
  <2>1. c \notin creditors \cup adds[q]
    BY <1>1, <1>7 DEF RegisterInv, AddsAreFresh
  <2>2. creditors \cup adds[q] \subseteq Creditors
    BY DEF RegisterInv, RegisterTypeOK
  <2> QED
    BY <1>4, <2>1, <2>2
<1>8. SumsAreOwed'
  <2>1. totalDebt' = opening' \/ IsOwed(totalDebt', creditors', owed')
    <3>1. \A x \in creditors : owed[x] = owed'[x]
      BY <1>1, <1>4 DEF RegisterInv, RegisterTypeOK
    <3> QED
      BY <1>2, <3>1, StaysOwed DEF RegisterInv, SumsAreOwed
  <2>2. ASSUME NEW q \in Requests, debtPhase'[q] = "summed"
        PROVE  IsOwed(sum'[q], creditors' \cup adds'[q], owed')
    <3>1. q # r
      BY <1>3, <2>2
    <3>2. IsOwed(sum[q], creditors \cup adds[q], owed)
      BY <1>3, <2>2, <3>1 DEF RegisterInv, SumsAreOwed
    <3>3. IsOwed(sum[q], creditors \cup adds[q], owed')
      BY <1>7, <3>1, <3>2, StaysOwed
    <3> QED
      BY <1>2, <1>3, <3>1, <3>3
  <2> QED
    BY <2>1, <2>2 DEF SumsAreOwed
<1>9. AloneKnows'
  <2>1. ASSUME NEW q \in Requests, alone'[q], debtPhase'[q] # "idle"
        PROVE  /\ seenDebt'[q] = totalDebt'
               /\ debtPhase'[q] = "summed" =>
                    sum'[q] = Total(creditors' \cup adds'[q], owed')
    <3>1. q # r
      BY <1>3, <2>1
    <3>2. Total(creditors \cup adds[q], owed)
            = Total(creditors \cup adds[q], owed')
      BY <1>7, <3>1, TotalDepends
    <3> QED
      BY <1>2, <1>3, <2>1, <3>1, <3>2 DEF RegisterInv, AloneKnows
  <2> QED
    BY <2>1 DEF AloneKnows
<1> QED
  BY <1>5, <1>6, <1>8, <1>9 DEF RegisterInv

\* The invariant holds at first.
LEMMA RegisterInvInit ==
  ASSUME RegisterInit
  PROVE  RegisterInv
<1>1. RegisterTypeOK
  BY RegisterAssumption DEF RegisterInit, RegisterTypeOK
<1> QED
  BY <1>1, FS_EmptySet
  DEF RegisterInit, RegisterInv, AddsAreFresh, SumsAreOwed, AloneKnows

\* No step breaks it.
LEMMA RegisterInvStep ==
  ASSUME RegisterInv, [RegisterNext]_registerVars
  PROVE  RegisterInv'
<1>1. CASE UNCHANGED registerVars
  BY <1>1
  DEF RegisterInv, RegisterTypeOK, AddsAreFresh, SumsAreOwed, AloneKnows,
      registerVars, addVars
<1> QED
  BY <1>1, LoadKeepsDebt, SumKeepsDebt, CommitKeepsDebt, AbortKeepsDebt
  DEF RegisterNext

\* The invariant holds in every state.
THEOREM RegisterInvariance == RegisterSpec => []RegisterInv
BY RegisterInvInit, RegisterInvStep, PTL DEF RegisterSpec

\* However many requests add creditors at once, the case's debt is what it
\* was opened with or the sum of creditors that are really stored.
THEOREM RegisterStaysSound == RegisterSpec => []RegisterIsSound
<1>1. RegisterInv => RegisterIsSound
  BY SumIsTotal
  DEF RegisterInv, SumsAreOwed, IsOwed, RegisterIsSound, DebtIsOwed
<1> QED
  BY <1>1, RegisterInvariance, PTL

\* The total after a step, in the terms of the step's own values.
LEMMA TotalAfter ==
  (totalDebt = SumOf(creditors))' <=> totalDebt' = Total(creditors', owed')
BY DEF SumOf, MapThenSumSet, MapThenFoldSet, IsSum, SumStep, Pick,
       Total

\* Only the commit of the request itself adds its creditor.
LEMMA RepairStep ==
  ASSUME RegisterInv, [RegisterNext]_registerVars, NEW r \in Requests,
         creditors' = creditors \cup adds[r], adds[r] # {}, alone[r]
  PROVE  (totalDebt = SumOf(creditors))'
<1>1. PICK c \in Creditors : adds[r] = {c} /\ c \notin creditors
  BY DEF RegisterInv, AddsAreFresh
<1>2. creditors' # creditors
  BY <1>1
<1>3. PICK q \in Requests : CommitCreditor(q)
  BY <1>2
  DEF RegisterNext, registerVars, LoadForCreditor, SumDebt, AbortCreditor
<1>4. q = r
  BY <1>1, <1>3 DEF CommitCreditor, RegisterInv, AddsAreFresh
<1>5. totalDebt' = Total(creditors', owed')
  BY <1>3, <1>4, CommitKeepsDebt DEF CommitCreditor
<1> QED
  BY <1>5, TotalAfter

\* A request that no other commit overlaps leaves the true total, whatever
\* was lost before.
THEOREM LoneRequestsRepair == RegisterSpec => LoneRequestRepairs
<1>1. RegisterInv /\ [RegisterNext]_registerVars =>
        [\A r \in Requests :
           creditors' = creditors \cup adds[r] /\ adds[r] # {} /\ alone[r]
             => (totalDebt = SumOf(creditors))']_registerVars
  BY RepairStep
<1> QED
  BY <1>1, RegisterInvariance, PTL DEF RegisterSpec, LoneRequestRepairs

-----------------------------------------------------------------------------
(* One creditor at a time                                                  *)

\* Nothing overlaps, and the total counts all creditors there are.
ExactInv ==
  /\ \A r \in Requests : alone[r]
  /\ creditors # {} => totalDebt = Total(creditors, owed)

\* A case without creditors has the total it was created with.
LEMMA NothingOwed ==
  ASSUME RegisterInv, creditors = {}
  PROVE  totalDebt = opening /\ Total(creditors, owed) = 0
<1>1. totalDebt = opening
  BY DEF RegisterInv, SumsAreOwed, IsOwed
<1>2. Total({}, owed) = 0
  BY FirstTerm, FS_EmptySet
<1> QED
  BY <1>1, <1>2

\* A step that stores nothing leaves the amounts of what is stored.
LEMMA StoredKeepsAmount ==
  ASSUME RegisterInv, [RegisterNext]_registerVars, creditors' = creditors
  PROVE  /\ totalDebt' = totalDebt
         /\ Total(creditors', owed') = Total(creditors, owed)
<1>1. ASSUME NEW r \in Requests, CommitCreditor(r) PROVE FALSE
  BY <1>1 DEF CommitCreditor, RegisterInv, AddsAreFresh
<1>2. totalDebt' = totalDebt
  BY <1>1
  DEF RegisterNext, LoadForCreditor, SumDebt, AbortCreditor, registerVars
<1>3. \A c \in creditors : owed[c] = owed'[c]
  <2> SUFFICES ASSUME NEW c \in creditors PROVE owed[c] = owed'[c]
    OBVIOUS
  <2>1. c \in Creditors /\ owed \in [Creditors -> Int]
    BY DEF RegisterInv, RegisterTypeOK
  <2>2. CASE UNCHANGED registerVars
    BY <2>2 DEF registerVars
  <2>3. ASSUME NEW r \in Requests, NEW d \in Creditors, NEW amount \in Amounts,
               LoadForCreditor(r, d, amount)
        PROVE  owed[c] = owed'[c]
    BY <2>1, <2>3 DEF LoadForCreditor
  <2>4. ASSUME NEW r \in Requests, SumDebt(r) PROVE owed[c] = owed'[c]
    BY <2>4 DEF SumDebt
  <2>5. ASSUME NEW r \in Requests, AbortCreditor(r) PROVE owed[c] = owed'[c]
    <3>1. c \notin adds[r]
      BY <2>5 DEF AbortCreditor, RegisterInv, AddsAreFresh
    <3> QED
      BY <2>1, <2>5, <3>1 DEF AbortCreditor
  <2> QED
    BY <1>1, <2>2, <2>3, <2>4, <2>5 DEF RegisterNext
<1> QED
  BY <1>2, <1>3, TotalDepends

\* The one request commits a total that counts its creditor and all others.
LEMMA ExactCommit ==
  ASSUME RegisterInv, [RegisterNext]_registerVars, creditors' # creditors,
         \A r \in Requests : alone[r]
  PROVE  \E c \in Creditors :
           /\ creditors' = creditors \cup {c} /\ c \notin creditors
           /\ totalDebt' = Total(creditors', owed')
           /\ totalDebt' = owed[c] + Total(creditors, owed)
<1>1. PICK r \in Requests : CommitCreditor(r)
  BY DEF RegisterNext, LoadForCreditor, SumDebt, AbortCreditor, registerVars
<1>2. PICK c \in Creditors : adds[r] = {c} /\ c \notin creditors
  BY <1>1 DEF CommitCreditor, RegisterInv, AddsAreFresh
<1>3. creditors' = creditors \cup {c} /\ owed' = owed
  BY <1>1, <1>2 DEF CommitCreditor
<1>4. totalDebt' = Total(creditors \cup {c}, owed)
  BY <1>1, <1>2, CommitKeepsDebt
<1>5. /\ IsFiniteSet(creditors \cup {c})
      /\ \A d \in creditors \cup {c} : owed[d] \in Int
  BY FS_AddElement DEF RegisterInv, AddsAreFresh, RegisterTypeOK
<1>6. Total(creditors \cup {c}, owed)
        = owed[c] + Total((creditors \cup {c}) \ {c}, owed)
  BY <1>5, AnyTerm
<1>7. (creditors \cup {c}) \ {c} = creditors
  BY <1>2
<1> QED
  BY <1>2, <1>3, <1>4, <1>6, <1>7

\* The invariant holds with one request at a time.
LEMMA ExactStep ==
  ASSUME NEW p, Requests = {p}
  PROVE  RegisterInv /\ ExactInv /\ [RegisterNext]_registerVars => ExactInv'
<1> SUFFICES ASSUME RegisterInv, ExactInv, [RegisterNext]_registerVars
             PROVE  ExactInv'
  OBVIOUS
<1>1. \A r \in Requests : alone'[r]
  <2>1. alone \in [Requests -> BOOLEAN] /\ alone[p] = TRUE
    BY DEF RegisterInv, RegisterTypeOK, ExactInv
  <2> QED
    BY <2>1
    DEF RegisterNext, LoadForCreditor, SumDebt, CommitCreditor, AbortCreditor,
        registerVars, addVars
<1>2. CASE creditors' = creditors
  BY <1>1, <1>2, StoredKeepsAmount DEF ExactInv
<1>3. CASE creditors' # creditors
  BY <1>1, <1>3, ExactCommit DEF ExactInv
<1> QED
  BY <1>2, <1>3

\* With one request at a time the total is the sum of all creditors, as soon as
\* there is one, or from the start in a case created without debts.
THEOREM OneRequestIsExact ==
  ASSUME NEW p, Requests = {p}
  PROVE  RegisterSpec => []TotalIsExact
<1>1. RegisterInit => ExactInv
  BY DEF RegisterInit, ExactInv
<1>2. RegisterInv /\ ExactInv => TotalIsExact
  BY NothingOwed, SumIsTotal DEF ExactInv, TotalIsExact
<1> QED
  BY <1>1, <1>2, ExactStep, RegisterInvariance, PTL DEF RegisterSpec

\* And every creditor then adds to the total what it is owed.
THEOREM OneRequestAddsUp ==
  ASSUME NEW p, Requests = {p}
  PROVE  RegisterSpec => DebtAddsUp
<1>1. RegisterInit => ExactInv
  BY DEF RegisterInit, ExactInv
<1>2. RegisterInv /\ ExactInv /\ [RegisterNext]_registerVars
        => [\A c \in creditors' \ creditors :
              creditors # {} \/ opening = 0
                => totalDebt' = totalDebt + owed[c]]_registerVars
  <2> SUFFICES ASSUME RegisterInv, ExactInv, [RegisterNext]_registerVars,
                      NEW c \in creditors' \ creditors,
                      creditors # {} \/ opening = 0
               PROVE  totalDebt' = totalDebt + owed[c]
    OBVIOUS
  <2>1. PICK d \in Creditors :
          /\ creditors' = creditors \cup {d}
          /\ totalDebt' = owed[d] + Total(creditors, owed)
    BY ExactCommit DEF ExactInv
  <2>2. d = c
    BY <2>1
  <2>3. totalDebt = Total(creditors, owed)
    BY NothingOwed DEF ExactInv
  <2>4. totalDebt \in Int /\ owed[d] \in Int
    BY DEF RegisterInv, RegisterTypeOK
  <2> QED
    BY <2>1, <2>2, <2>3, <2>4
<1> QED
  BY <1>1, <1>2, ExactStep, RegisterInvariance, PTL DEF RegisterSpec, DebtAddsUp

-----------------------------------------------------------------------------
(* What StaffAccess promises for any accounts, cases, tasks and requests.  *)

-----------------------------------------------------------------------------
(* Types.                                                                  *)

\* No request is the idle one.
LEMMA IdleIsNoRequest == Idle \notin Request
  BY DEF Idle, Request

\* A request that has begun keeps the types, if what it has loaded is one.
LEMMA BeginTypes ==
  ASSUME StaffTypeOK, NEW r \in Requests, NEW q \in Request, Begin(r, q)
  PROVE  StaffTypeOK'
  BY DEF StaffTypeOK, Begin

\* A step preserves the types.
LEMMA StaffTypeStep ==
  ASSUME StaffTypeOK, [StaffNext]_staffVars
  PROVE  StaffTypeOK'
<1>1. CASE UNCHANGED staffVars
  BY <1>1 DEF StaffTypeOK, staffVars
<1>2. ASSUME NEW r \in Requests, LoadSeed(r) PROVE StaffTypeOK'
  <2>1. [op |-> "create", user |-> Root, role |-> "admin"] \in Request
    BY StaffAssumption DEF Request, Roles, Directors
  <2>2. QED BY <1>2, <2>1, BeginTypes DEF LoadSeed
<1>3. ASSUME NEW r \in Requests, NEW admin \in Users, NEW u \in Users,
               NEW role \in Hired,
             LoadRegister(r, admin, u, role)
      PROVE  StaffTypeOK'
  <2>1. [op |-> "create", user |-> u, role |-> role] \in Request
    BY StaffAssumption DEF Request
  <2>2. QED BY <1>3, <2>1, BeginTypes DEF LoadRegister
<1>4. ASSUME NEW r \in Requests, NEW admin \in Users, NEW u \in Users,
               NEW active \in BOOLEAN,
             LoadUpdate(r, admin, u, active)
      PROVE  StaffTypeOK'
  <2>1. account[u].active \in BOOLEAN
    BY DEF StaffTypeOK, NoAccount
  <2>2. [op |-> "update", by |-> admin, user |-> u, seen |-> account[u].active,
         active |-> active] \in Request
    BY <2>1 DEF Request
  <2>3. QED BY <1>4, <2>2, BeginTypes DEF LoadUpdate
<1>5. ASSUME NEW r \in Requests, NEW u \in Users, NEW t \in Tasks,
               NEW goal \in TaskStatus,
             LoadTask(r, u, t, goal)
      PROVE  StaffTypeOK'
  <2>1. task[t].status \in TaskStatus
    BY DEF StaffTypeOK
  <2>2. [op |-> "task", task |-> t, seen |-> task[t].status,
          status |-> goal] \in Request
    BY <2>1 DEF Request
  <2>3. QED BY <1>5, <2>2, BeginTypes DEF LoadTask
<1>6. ASSUME NEW r \in Requests, CommitCreate(r) PROVE StaffTypeOK'
  <2>1. doing[r].user \in Users /\ doing[r].role \in Roles
    BY <1>6 DEF CommitCreate, StaffTypeOK, Request, Idle
  <2>2. account' \in [Users -> [role : Roles \cup {"none"}, active : BOOLEAN]]
    BY <1>6, <2>1 DEF CommitCreate, StaffTypeOK
  <2>3. QED BY <1>6, <2>2 DEF CommitCreate, StaffTypeOK, End
<1>7. ASSUME NEW r \in Requests, CommitAccount(r) PROVE StaffTypeOK'
  <2>1. /\ doing[r].user \in Users
        /\ doing[r].active \in BOOLEAN
    BY <1>7 DEF CommitAccount, StaffTypeOK, Request, Idle
  <2>2. account' \in [Users -> [role : Roles \cup {"none"}, active : BOOLEAN]]
    BY <1>7, <2>1 DEF CommitAccount, StaffTypeOK
  <2>3. QED BY <1>7, <2>2 DEF CommitAccount, StaffTypeOK, End
<1>8. ASSUME NEW r \in Requests, CommitTask(r) PROVE StaffTypeOK'
  <2>1. doing[r].task \in Tasks /\ doing[r].status \in TaskStatus
    BY <1>8 DEF CommitTask, StaffTypeOK, Request, Idle
  <2>2. task' \in [Tasks -> [status : TaskStatus, assignee : Users]]
    BY <1>8, <2>1 DEF CommitTask, StaffTypeOK
  <2>3. QED BY <1>8, <2>2 DEF CommitTask, StaffTypeOK, End
<1>9. ASSUME NEW r \in Requests, Abort(r) PROVE StaffTypeOK'
  BY <1>9 DEF Abort, StaffTypeOK, End
<1>10. ASSUME NEW by \in Users, NEW u \in Users, NEW c \in Cases,
              NEW column \in {"lawyer", "paralegal", "manager"}, AssignCase(by, c,
                column, u)
       PROVE  StaffTypeOK'
  BY <1>10 DEF AssignCase, StaffTypeOK
<1>11. ASSUME NEW u \in Users, NEW c \in Cases, LinkClient(c, u) PROVE StaffTypeOK'
  BY <1>11 DEF LinkClient, StaffTypeOK
<1>12. QED
  BY <1>1, <1>2, <1>3, <1>4, <1>5, <1>6, <1>7, <1>8, <1>9, <1>10, <1>11 DEF StaffNext

\* It starts with them.
LEMMA StaffInitTypes ==
  ASSUME StaffInit
  PROVE  StaffTypeOK
<1>1. account \in [Users -> [role : Roles \cup {"none"}, active : BOOLEAN]]
  <2>1. NoAccount \in [role : Roles \cup {"none"}, active : BOOLEAN]
    BY DEF NoAccount
  <2>2. QED BY <2>1 DEF StaffInit
<1>2. assigned \in [Cases -> [lawyer : Users \cup {Nobody},
        paralegal : Users \cup {Nobody},
                             manager : Users \cup {Nobody},
                               owner : Users \cup {Nobody}]]
  BY DEF StaffInit
<1>3. task \in [Tasks -> [status : TaskStatus, assignee : Users]]
  <2>1. [status : {"new"}, assignee : Users] \subseteq [status : TaskStatus,
          assignee : Users]
    BY DEF TaskStatus
  <2>2. QED BY <2>1 DEF StaffInit
<1>4. doing \in [Requests -> Request \cup {Idle}]
  BY DEF StaffInit
<1>5. QED BY <1>1, <1>2, <1>3, <1>4 DEF StaffInit, StaffTypeOK

\* Accounts, columns, tasks and requests keep their types.
THEOREM StaffTypeCorrect == StaffSpec => []StaffTypeOK
<1>1. StaffInit => StaffTypeOK
  BY StaffInitTypes
<1>2. StaffTypeOK /\ [StaffNext]_staffVars => StaffTypeOK'
  BY StaffTypeStep
<1>3. QED BY <1>1, <1>2, PTL DEF StaffSpec

-----------------------------------------------------------------------------
(* Who sees what.                                                          *)

\* For any accounts, roles and columns, the rows of a case are shown to exactly
\* those who are shown the case and may read the table, and the checklist's own
\* check serves all of them but the managers.
THEOREM PoliciesMatch == StaffSpec => []PoliciesMatchPermissions
<1>1. PoliciesMatchPermissions
  <2> SUFFICES ASSUME NEW u \in Users, NEW c \in Cases
               PROVE  /\ SeesDocuments(u, c) <=>
                           SeesCase(u, c) /\ Role(u) \in MayRead.documents
                      /\ SeesDeadlines(u, c) <=>
                           SeesCase(u, c) /\ Role(u) \in MayRead.deadlines
                      /\ SeesMessages(u, c) <=>
                           SeesCase(u, c) /\ Role(u) \in MayRead.messages
                      /\ SeesPayments(u, c) <=>
                           /\ SeesCase(u, c) \/ Role(u) = "client_manager"
                           /\ Role(u) \in MayRead.payments
                      /\ ServesChecklist(u, c) <=>
                           SeesDeadlines(u, c) /\ Role(u) # "client_manager"
    BY DEF PoliciesMatchPermissions
  <2> DEFINE role == Role(u)
  <2>1. /\ MayRead.documents = Directors \cup Desk \cup {"client"}
        /\ MayRead.deadlines = Directors \cup Desk \cup {"client"}
        /\ MayRead.messages = Directors \cup Desk \cup {"client"}
        /\ MayRead.payments = Directors \cup {"lawyer", "client_manager", "client"}
    BY DEF MayRead
  <2>2. SeesCase(u, c) => role \in Directors \cup Desk \cup {"client"}
    BY DEF SeesCase, Desk
  <2>3. SeesDocuments(u, c) <=> SeesCase(u, c)
    BY DEF SeesDocuments, Selected, OwnedBy, SeesCase, Directors
  <2>4. SeesDeadlines(u, c) <=> SeesCase(u, c)
    BY DEF SeesDeadlines, Selected, OwnedBy, AssignedTo, SeesCase, Directors, Desk
  <2>5. SeesMessages(u, c) <=> SeesCase(u, c)
    BY DEF SeesMessages, Selected, AssignedTo, SeesCase, Directors, Desk
  <2>6. SeesPayments(u, c) <=> /\ SeesCase(u, c) \/ role = "client_manager"
                               /\ role \in MayRead.payments
    BY <2>1 DEF SeesPayments, Selected, OwnedBy, SeesCase, Directors
  <2>7. ServesChecklist(u, c) <=> SeesDeadlines(u, c) /\ role # "client_manager"
    BY <2>4 DEF ServesChecklist, AdmitsToChecklist, SeesCase, Directors
  <2>8. QED BY <2>1, <2>2, <2>3, <2>4, <2>5, <2>6, <2>7
<1>2. QED BY <1>1, PTL

-----------------------------------------------------------------------------
(* An administrator remains.                                               *)

IsAdmin(u) == account[u].active /\ Role(u) = "admin"
Busy(r) == doing[r] # Idle

\* Requests that do not overlap are one at a time, an update is made by an
\* administrator, and the first account is an administrator's.
AdminInv ==
  ~crossed =>
    /\ \A q, r \in Requests : Busy(q) /\ Busy(r) => q = r
    /\ \A r \in Requests : doing[r].op = "update" => IsAdmin(doing[r].by)
    /\ \A r \in Requests :
         doing[r].op = "create" /\ (\A u \in Users : ~Exists(u)) =>
           doing[r].role = "admin"
    /\ ~resigned /\ (\E u \in Users : Exists(u)) => \E u \in Users : IsAdmin(u)

\* Who is admitted as an administrator is one.
LEMMA AdmittedIsAdmin ==
  ASSUME StaffTypeOK, NEW u \in Users, Admits(u, {"admin"})
  PROVE  IsAdmin(u) /\ Exists(u)
BY DEF StaffTypeOK, Admits, Role, IsAdmin, Exists, NoAccount

\* A request that begins overlaps another one or is the only one.
LEMMA BeginAdmin ==
  ASSUME StaffTypeOK, AdminInv, NEW r \in Requests, NEW q \in Request, Begin(r, q),
         q.op = "update" => IsAdmin(q.by),
         q.op = "create" /\ (\A u \in Users : ~Exists(u)) => q.role = "admin"
  PROVE  AdminInv'
<1> SUFFICES ASSUME ~crossed'
             PROVE  /\ \A p, s \in Requests : Busy(p)' /\ Busy(s)' => p = s
                    /\ \A s \in Requests : doing'[s].op = "update" =>
                         IsAdmin(doing'[s].by)
                    /\ \A s \in Requests :
                         doing'[s].op = "create" /\ (\A u \in Users : ~Exists(u)) =>
                           doing'[s].role = "admin"
                    /\ ~resigned /\ (\E u \in Users : Exists(u)) =>
                         \E u \in Users : IsAdmin(u)
  BY DEF AdminInv, Begin, Exists, IsAdmin, Role
<1>1. ~crossed /\ \A s \in Requests : doing[s] = Idle
  BY DEF Begin, StaffTypeOK
<1>2. doing' = [doing EXCEPT ![r] = q]
        /\ \A s \in Requests : doing'[s] = IF s = r THEN q ELSE Idle
  BY <1>1 DEF Begin, StaffTypeOK
<1>3. QED BY <1>1, <1>2 DEF AdminInv, Busy, Idle

\* A request that ends leaves nothing behind.
LEMMA EndAdmin ==
  ASSUME StaffTypeOK, AdminInv, NEW r \in Requests, End(r), ~crossed, doing[r] # Idle
  PROVE  /\ ~crossed'
         /\ \A s \in Requests : doing'[s] = Idle
BY DEF End, AdminInv, StaffTypeOK, Busy

\* A step preserves the invariant.
LEMMA AdminStep ==
  ASSUME StaffTypeOK, AdminInv, [StaffNext]_staffVars
  PROVE  AdminInv'
<1>1. CASE UNCHANGED staffVars
  BY <1>1 DEF AdminInv, staffVars, Busy, IsAdmin, Role, Exists
<1>2. ASSUME NEW r \in Requests, LoadSeed(r) PROVE AdminInv'
  <2>1. [op |-> "create", user |-> Root, role |-> "admin"] \in Request
    BY StaffAssumption DEF Request, Roles, Directors
  <2>2. QED BY <1>2, <2>1, BeginAdmin DEF LoadSeed
<1>3. ASSUME NEW r \in Requests, NEW admin \in Users, NEW u \in Users,
               NEW role \in Hired,
             LoadRegister(r, admin, u, role)
      PROVE  AdminInv'
  <2>1. [op |-> "create", user |-> u, role |-> role] \in Request
    BY StaffAssumption DEF Request
  <2>2. Exists(admin)
    BY <1>3, AdmittedIsAdmin DEF LoadRegister
  <2>3. QED BY <1>3, <2>1, <2>2, BeginAdmin DEF LoadRegister
<1>4. ASSUME NEW r \in Requests, NEW admin \in Users, NEW u \in Users,
               NEW active \in BOOLEAN,
             LoadUpdate(r, admin, u, active)
      PROVE  AdminInv'
  <2> DEFINE q == [op |-> "update", by |-> admin, user |-> u,
        seen |-> account[u].active,
                   active |-> active]
  <2>1. q \in Request
    BY DEF Request, StaffTypeOK
  <2>2. IsAdmin(admin)
    BY <1>4, AdmittedIsAdmin DEF LoadUpdate
  <2>3. Begin(r, q)
    BY <1>4 DEF LoadUpdate
  <2>4. q.op = "update" /\ q.by = admin
    OBVIOUS
  <2> HIDE DEF q
  <2>5. QED BY <2>1, <2>2, <2>3, <2>4, BeginAdmin
<1>5. ASSUME NEW r \in Requests, NEW u \in Users, NEW t \in Tasks,
               NEW goal \in TaskStatus,
             LoadTask(r, u, t, goal)
      PROVE  AdminInv'
  <2> DEFINE q == [op |-> "task", task |-> t, seen |-> task[t].status,
        status |-> goal]
  <2>1. q \in Request
    BY DEF Request, StaffTypeOK
  <2>2. Begin(r, q) /\ q.op = "task"
    BY <1>5 DEF LoadTask
  <2> HIDE DEF q
  <2>3. QED BY <2>1, <2>2, BeginAdmin
<1>6. ASSUME NEW r \in Requests, CommitCreate(r), ~crossed PROVE AdminInv'
  <2>1. /\ ~crossed'
        /\ \A s \in Requests : doing'[s] = Idle
    BY <1>6, EndAdmin DEF CommitCreate, Idle
  <2>2. doing[r].user \in Users
    BY <1>6 DEF CommitCreate, StaffTypeOK, Request, Idle
  <2>3. account' = [account EXCEPT ![doing[r].user] = [role |-> doing[r].role,
          active |-> TRUE]]
    BY <1>6 DEF CommitCreate
  <2>4. ~resigned' => \E u \in Users : IsAdmin(u)'
    <3>1. SUFFICES ASSUME ~resigned PROVE \E u \in Users : IsAdmin(u)'
      BY <1>6 DEF CommitCreate
    <3>2. CASE \A u \in Users : ~Exists(u)
      <4>1. doing[r].role = "admin"
        BY <1>6, <3>2 DEF AdminInv, CommitCreate
      <4>2. account'[doing[r].user] = [role |-> doing[r].role, active |-> TRUE]
        BY <2>2, <2>3 DEF StaffTypeOK
      <4>3. PICK u \in Users : u = doing[r].user
        BY <2>2
      <4>4. IsAdmin(u)'
        BY <4>1, <4>2, <4>3 DEF IsAdmin, Role
      <4>5. QED BY <4>4
    <3>3. CASE \E u \in Users : Exists(u)
      <4>1. PICK u \in Users : IsAdmin(u)
        BY <1>6, <3>1, <3>3 DEF AdminInv
      <4>2. u # doing[r].user
        BY <1>6, <4>1 DEF CommitCreate, IsAdmin, Role, Exists, NoAccount
      <4>3. IsAdmin(u)'
        BY <2>2, <2>3, <4>1, <4>2 DEF IsAdmin, Role, StaffTypeOK
      <4>4. QED BY <4>3
    <3>4. QED BY <3>2, <3>3
  <2>5. QED BY <2>1, <2>4 DEF AdminInv, Busy, Idle
<1>7. ASSUME NEW r \in Requests, CommitAccount(r), ~crossed PROVE AdminInv'
  <2> DEFINE q == doing[r]
  <2>1. /\ ~crossed'
        /\ \A s \in Requests : doing'[s] = Idle
    BY <1>7, EndAdmin DEF CommitAccount, Idle
  <2>2. q.user \in Users /\ q.by \in Users /\ q.active \in BOOLEAN
          /\ q.seen \in BOOLEAN
    BY <1>7 DEF CommitAccount, StaffTypeOK, Request, Idle
  <2>3. IsAdmin(q.by)
    BY <1>7 DEF CommitAccount, AdminInv
  <2>4. account' = account \/ account' = [account EXCEPT ![q.user].active = q.active]
    BY <1>7 DEF CommitAccount
  <2>5. PICK by \in Users : by = q.by
    BY <2>2
  <2>6. ~resigned' => IsAdmin(by)'
    <3>1. SUFFICES ASSUME ~(by = q.user /\ ~q.active) PROVE IsAdmin(by)'
      BY <1>7, <2>5 DEF CommitAccount
    <3>2. account[by].active /\ account[by].role = "admin"
      BY <2>3, <2>5 DEF IsAdmin, Role
    <3>3. CASE by = q.user
      <4>1. q.active = TRUE
        BY <2>2, <3>1, <3>3
      <4>2. account'[by] = account[by]
              \/ account'[by] = [account[by] EXCEPT !.active = TRUE]
        BY <2>2, <2>4, <3>3, <4>1 DEF StaffTypeOK
      <4>3. account[by] \in [role : Roles \cup {"none"}, active : BOOLEAN]
        BY DEF StaffTypeOK
      <4>4. QED BY <3>2, <4>2, <4>3 DEF IsAdmin, Role
    <3>4. CASE by # q.user
      BY <2>2, <2>4, <3>2, <3>4 DEF IsAdmin, Role, StaffTypeOK
    <3>5. QED BY <3>3, <3>4
  <2>7. QED BY <2>1, <2>6 DEF AdminInv, Busy, Idle
<1>8. ASSUME NEW r \in Requests, CommitTask(r) \/ Abort(r), ~crossed PROVE AdminInv'
  <2>1. /\ ~crossed'
        /\ \A s \in Requests : doing'[s] = Idle
    BY <1>8, EndAdmin DEF CommitTask, Abort, Idle
  <2>2. UNCHANGED <<account, resigned>>
    BY <1>8 DEF CommitTask, Abort
  <2>3. ~resigned /\ (\E u \in Users : Exists(u)) => \E u \in Users : IsAdmin(u)
    BY <1>8 DEF AdminInv
  <2>4. QED BY <2>1, <2>2, <2>3 DEF AdminInv, Busy, Idle, IsAdmin, Role, Exists
<1>9. ASSUME NEW by \in Users, NEW u \in Users, NEW c \in Cases,
             NEW column \in {"lawyer", "paralegal", "manager"}, AssignCase(by, c,
               column, u)
      PROVE  AdminInv'
  BY <1>9 DEF AssignCase, AdminInv, Busy, IsAdmin, Role, Exists
<1>10. ASSUME NEW u \in Users, NEW c \in Cases, LinkClient(c, u) PROVE AdminInv'
  BY <1>10 DEF LinkClient, AdminInv, Busy, IsAdmin, Role, Exists
<1>11. ASSUME NEW r \in Requests, crossed, CommitCreate(r) \/ CommitAccount(r)
                \/ CommitTask(r) \/ Abort(r)
       PROVE  AdminInv'
  BY <1>11 DEF AdminInv, CommitCreate, CommitAccount, CommitTask, Abort, End
<1>12. QED
  BY <1>1, <1>2, <1>3, <1>4, <1>5, <1>6, <1>7, <1>8, <1>9, <1>10, <1>11 DEF StaffNext

\* For any number of accounts and requests, an active administrator remains
\* unless requests overlapped or one deactivated itself.
THEOREM AdministratorsRemain == StaffSpec => []AdminRemains
<1>1. StaffInit => StaffTypeOK /\ AdminInv
  <2> SUFFICES ASSUME StaffInit PROVE StaffTypeOK /\ AdminInv
    OBVIOUS
  <2>1. \A u \in Users : ~Exists(u)
    BY DEF StaffInit, Exists
  <2>2. \A r \in Requests : ~Busy(r) /\ doing[r].op = "idle"
    BY DEF StaffInit, Busy, Idle
  <2>3. QED BY <2>1, <2>2, StaffInitTypes DEF AdminInv
<1>2. StaffTypeOK /\ AdminInv /\ [StaffNext]_staffVars => StaffTypeOK' /\ AdminInv'
  BY StaffTypeStep, AdminStep
<1>3. AdminInv => AdminRemains
  BY DEF AdminInv, AdminRemains, IsAdmin, Role
<1>4. QED BY <1>1, <1>2, <1>3, PTL DEF StaffSpec

-----------------------------------------------------------------------------
(* Tasks.                                                                  *)

\* What a request wants to make of a task is allowed by the status it saw,
\* and no task that was seen under way or done is new again.
TaskInv ==
  \A r \in Requests : doing[r].op = "task" =>
    /\ doing[r].status \in Allowed(doing[r].seen)
    /\ task[doing[r].task].status = "new" => doing[r].seen = "new"

\* A request that begins has seen the present status.
LEMMA TaskBegins ==
  ASSUME StaffTypeOK, TaskInv, NEW r \in Requests, NEW q \in Request, Begin(r, q),
         q.op = "task" => /\ q.status \in Allowed(q.seen)
                          /\ task[q.task].status = "new" => q.seen = "new"
  PROVE  TaskInv'
BY DEF StaffTypeOK, TaskInv, Begin

\* A step preserves the invariant and moves tasks along the table.
LEMMA TaskStep ==
  ASSUME StaffTypeOK, TaskInv, [StaffNext]_staffVars
  PROVE  /\ TaskInv'
         /\ \A t \in Tasks : task'[t].status # task[t].status =>
              <<task[t].status, task'[t].status>> \in
                {<<"new", "in_progress">>, <<"in_progress", "done">>, <<"done",
                  "in_progress">>}
<1>1. CASE UNCHANGED staffVars
  BY <1>1 DEF TaskInv, staffVars
<1>2. ASSUME NEW r \in Requests, LoadSeed(r) PROVE TaskInv'
  <2>1. [op |-> "create", user |-> Root, role |-> "admin"] \in Request
    BY StaffAssumption DEF Request, Roles, Directors
  <2>2. QED BY <1>2, <2>1, TaskBegins DEF LoadSeed
<1>3. ASSUME NEW r \in Requests, NEW admin \in Users, NEW u \in Users,
               NEW role \in Hired,
             LoadRegister(r, admin, u, role)
      PROVE  TaskInv'
  <2>1. [op |-> "create", user |-> u, role |-> role] \in Request
    BY StaffAssumption DEF Request
  <2>2. QED BY <1>3, <2>1, TaskBegins DEF LoadRegister
<1>4. ASSUME NEW r \in Requests, NEW admin \in Users, NEW u \in Users,
               NEW active \in BOOLEAN,
             LoadUpdate(r, admin, u, active)
      PROVE  TaskInv'
  <2> DEFINE q == [op |-> "update", by |-> admin, user |-> u,
        seen |-> account[u].active,
                   active |-> active]
  <2>1. q \in Request
    BY DEF Request, StaffTypeOK
  <2>2. Begin(r, q) /\ q.op = "update"
    BY <1>4 DEF LoadUpdate
  <2> HIDE DEF q
  <2>3. QED BY <2>1, <2>2, TaskBegins
<1>5. ASSUME NEW r \in Requests, NEW u \in Users, NEW t \in Tasks,
               NEW goal \in TaskStatus,
             LoadTask(r, u, t, goal)
      PROVE  TaskInv'
  <2> DEFINE q == [op |-> "task", task |-> t, seen |-> task[t].status,
        status |-> goal]
  <2>1. q \in Request
    BY DEF Request, StaffTypeOK
  <2>2. /\ Begin(r, q) /\ q.status \in Allowed(q.seen)
        /\ q.task = t /\ q.seen = task[t].status
    BY <1>5 DEF LoadTask
  <2> HIDE DEF q
  <2>3. QED BY <2>1, <2>2, TaskBegins
<1>6. ASSUME NEW r \in Requests, CommitTask(r)
      PROVE  /\ TaskInv'
             /\ \A t \in Tasks : task'[t].status # task[t].status =>
                  <<task[t].status, task'[t].status>> \in
                    {<<"new", "in_progress">>, <<"in_progress", "done">>,
                     <<"done", "in_progress">>}
  <2> DEFINE q == doing[r]
  <2>1. q.op = "task" /\ q.task \in Tasks /\ q.status \in TaskStatus
          /\ q.seen \in TaskStatus
    BY <1>6 DEF CommitTask, StaffTypeOK, Request, Idle
  <2>2. q.status \in Allowed(q.seen) /\ (task[q.task].status = "new" =>
          q.seen = "new")
    BY <1>6, <2>1 DEF TaskInv
  <2>3. q.status \in {"in_progress", "done"} /\ (q.status = "done" =>
          q.seen = "in_progress")
    BY <2>1, <2>2 DEF Allowed, TaskStatus
  <2>4. \A t \in Tasks :
          task'[t].status = IF t = q.task
            /\ q.status # q.seen THEN q.status ELSE task[t].status
    BY <1>6, <2>1 DEF CommitTask, StaffTypeOK
  <2>5. \A t \in Tasks : task[t].status \in TaskStatus
    BY DEF StaffTypeOK
  <2>6. \A s \in Requests : doing'[s] = IF s = r THEN Idle ELSE doing[s]
    BY <1>6 DEF CommitTask, End, StaffTypeOK
  <2>7. \A s \in Requests : doing[s].op = "task" => doing[s].task \in Tasks
    BY DEF StaffTypeOK, Request, Idle
  <2> HIDE DEF q
  <2>8. TaskInv'
    <3> SUFFICES ASSUME NEW s \in Requests, doing'[s].op = "task"
                 PROVE  /\ doing'[s].status \in Allowed(doing'[s].seen)
                        /\ task'[doing'[s].task].status = "new" =>
                             doing'[s].seen = "new"
      BY DEF TaskInv, Allowed
    <3>1. s # r /\ doing'[s] = doing[s]
      BY <2>6 DEF Idle
    <3>2. task'[doing[s].task].status = "new" => task[doing[s].task].status = "new"
      BY <2>3, <2>4, <2>7, <3>1
    <3>3. QED BY <3>1, <3>2 DEF TaskInv
  <2>9. QED BY <2>2, <2>3, <2>4, <2>5, <2>8 DEF TaskStatus
<1>7. ASSUME NEW r \in Requests, CommitCreate(r) \/ CommitAccount(r) \/ Abort(r)
      PROVE  TaskInv' /\ task' = task
  <2>1. task' = task
          /\ \A s \in Requests : doing'[s] = IF s = r THEN Idle ELSE doing[s]
    BY <1>7 DEF CommitCreate, CommitAccount, Abort, End, StaffTypeOK
  <2>2. QED BY <2>1 DEF TaskInv, Idle
<1>8. ASSUME NEW by \in Users, NEW u \in Users, NEW c \in Cases,
             NEW column \in {"lawyer", "paralegal", "manager"}, AssignCase(by, c,
               column, u)
      PROVE  TaskInv' /\ task' = task
  BY <1>8 DEF AssignCase, TaskInv
<1>9. ASSUME NEW u \in Users, NEW c \in Cases, LinkClient(c, u)
      PROVE  TaskInv' /\ task' = task
  BY <1>9 DEF LinkClient, TaskInv
<1>10. ASSUME NEW r \in Requests, NEW q, Begin(r, q) PROVE task' = task
  BY <1>10 DEF Begin
<1>11. QED
  BY <1>1, <1>2, <1>3, <1>4, <1>5, <1>6, <1>7, <1>8, <1>9, <1>10
     DEF StaffNext, LoadSeed, LoadRegister, LoadUpdate, LoadTask, staffVars

\* For any number of overlapping requests tasks move along the table.
THEOREM TasksKeepTheirOrder == StaffSpec => TasksMoveInOrder
<1>1. StaffInit => StaffTypeOK /\ TaskInv
  <2> SUFFICES ASSUME StaffInit PROVE StaffTypeOK /\ TaskInv
    OBVIOUS
  <2>1. \A r \in Requests : doing[r].op = "idle"
    BY DEF StaffInit, Idle
  <2>2. QED BY <2>1, StaffInitTypes DEF TaskInv
<1>2. StaffTypeOK /\ TaskInv /\ [StaffNext]_staffVars => StaffTypeOK' /\ TaskInv'
  BY StaffTypeStep, TaskStep
<1>3. StaffTypeOK /\ TaskInv /\ [StaffNext]_staffVars =>
        [\A t \in Tasks : task'[t].status # task[t].status =>
           <<task[t].status, task'[t].status>> \in
             {<<"new", "in_progress">>, <<"in_progress", "done">>, <<"done",
               "in_progress">>}]_staffVars
  BY TaskStep
<1>4. QED BY <1>1, <1>2, <1>3, PTL DEF StaffSpec, TasksMoveInOrder
=============================================================================
