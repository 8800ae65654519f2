--------------------------- MODULE Qualification ---------------------------
(* The estimate a person is given (ai-core/main.py, /qualify, and          *)
(* ai-core/agents/qualification.py): requests for one and the same input,  *)
(* the estimates kept for it in Redis, the chain of language models, and   *)
(* the rules that stand in for them.  The calls of models block the        *)
(* service, so requests overtake each other only while Redis is asked.     *)
(* Requests for different inputs have different keys and share nothing.    *)
EXTENDS Sessions, Integers, Sequences, FiniteSets

CONSTANTS
  Inputs,        \* what people say of their debts, in thousands of roubles
  Models,        \* the models in the order they are asked
  Careful,       \* those around which every exception is caught
  Judgements,    \* what a model may say
  NoAnswer

\* The risk may be any text; "unclear" is one that is none of the three asked
\* for.
Judgement ==
  [eligible : BOOLEAN, risk : {"low", "medium", "high", "unclear"}, sure : BOOLEAN,
   review : BOOLEAN, gap : {"none", "costs", "months"}]

ASSUME QualifyAssumption ==
  /\ Inputs \subseteq
       [debt : Int, creditors : Int, enforced : BOOLEAN, property : BOOLEAN,
        transactions : BOOLEAN]
  /\ Judgements \subseteq Judgement

VARIABLES
  input,         \* what all the requests ask about
  configured,    \* models with a key
  calm,          \* models send what was asked for or fail, and Redis works
  cached,        \* the estimate in Redis
  asking         \* per request what it has found out

qualifyVars == <<input, configured, calm, cached, asking>>

NotAsking   == [state |-> "idle"]
Failed == [state |-> "failed"]
Finished  == {"idle", "failed", "served"}

QualifyInit ==
  /\ input \in Inputs
  /\ configured \in {{}, {Models[i] : i \in DOMAIN Models}}
  /\ calm \in BOOLEAN
  /\ cached = NoAnswer
  /\ asking = [r \in Requests |-> NotAsking]

-----------------------------------------------------------------------------
(* The rules.                                                              *)

\* Mutant: everybody passes.
ScreensNobody(i) == i.debt >= 0
\* Below 25 000 nobody can be discharged.  (The flags raised here only go into
\* texts.)
PreScreened(i) == i.debt >= 25

Points(condition, n) == IF condition THEN n ELSE 0

DebtPoints(i) == Points(i.debt >= 500, 15) + Points(i.debt >= 1000, 5)

RiskPoints(j) ==
  CASE j.risk = "low" -> 15 [] j.risk = "medium" -> 5 [] j.risk = "high" -> -10 [] OTHER -> 0

Clamped(n) == IF n < 0 THEN 0 ELSE IF n > 100 THEN 100 ELSE n

\* calculate_score of someone who is eligible.
Score(i, j) ==
  Clamped(40 + DebtPoints(i) + Points(j.sure, 10) + RiskPoints(j)
    + Points(i.enforced, 10) + Points(~i.property, 5)
    - Points(i.transactions, 15) - Points(i.creditors > 10, 5))

Tier(score) ==
  IF score >= 70 THEN "hot" ELSE IF score >= 40 THEN "warm"
  ELSE IF score >= 20 THEN "cold" ELSE "disqualified"

\* The first contact is due in so many hours; 0 for never.
Hours(tier) == CASE tier = "hot" -> 1 [] tier = "warm" -> 4 [] tier = "cold" -> 24 [] OTHER -> 0

Answer(by, j, score, tier) ==
  [by |-> by, eligible |-> j.eligible, review |-> j.review, gap |-> j.gap,
   score |-> score, tier |-> tier, hours |-> Hours(tier)]

Rated(by, j) ==
  IF ~j.eligible THEN Answer(by, j, 0, "disqualified")
  ELSE Answer(by, j, Score(input, j), Tier(Score(input, j)))

\* Without a model: refused, unrated, or taken for a case of medium risk.
Refusal == [eligible |-> FALSE, risk |-> "low", sure |-> TRUE, review |-> FALSE, gap |-> "none"]
Fallback == [eligible |-> TRUE, risk |-> "medium", sure |-> FALSE, review |-> TRUE, gap |-> "none"]

-----------------------------------------------------------------------------
(* Requests.                                                               *)

\* The keys of a judgement must be there, but its numbers may be null: then
\* no response can be made of it.
Delivered(a) == IF a.gap = "none" THEN [state |-> "served", answer |-> a] ELSE Failed

Lookup(r) ==
  /\ asking[r].state \in Finished
  /\ asking' = [asking EXCEPT ![r] =
       IF cached # NoAnswer THEN Delivered(cached) ELSE [state |-> "missed"]]
  /\ UNCHANGED <<input, configured, calm, cached>>

Found(r, a) ==
  /\ asking' = [asking EXCEPT ![r] = [state |-> "found", answer |-> a]]
  /\ UNCHANGED <<input, configured, calm, cached>>

FailRequest(r) ==
  /\ asking' = [asking EXCEPT ![r] = Failed]
  /\ UNCHANGED <<input, configured, calm, cached>>

RefuseSmall(r) ==
  /\ asking[r].state = "missed" /\ ~PreScreened(input)
  /\ Found(r, Rated("rules", Refusal))

\* Not rated by the rules, but "cold".
Unconfigured(r) ==
  /\ asking[r].state = "missed" /\ PreScreened(input) /\ configured = {}
  /\ Found(r, Answer("rules", Fallback, 0, "cold"))

\* "odd" is an answer nobody expected: no choices, no text, no object.
Outcomes == {"answer", "down", "garbled"} \cup (IF calm THEN {} ELSE {"odd"})

\* Mutant: an answer that cannot be parsed ends the request.
OnlyOutages(m, outcome) == outcome = "down" \/ (outcome # "answer" /\ m \in Careful)
FallsThrough(m, outcome) ==
  outcome \in {"down", "garbled"} \/ (outcome = "odd" /\ m \in Careful)

\* The first model whose call does not lead on to the next one, if any.
Ends(outcome) ==
  {i \in DOMAIN Models :
     /\ Models[i] \in configured
     /\ ~FallsThrough(Models[i], outcome[Models[i]])
     /\ \A k \in 1 .. i - 1 : Models[k] \in configured => FallsThrough(Models[k], outcome[Models[k]])}

\* The costs of someone eligible are formatted for the lawyer's card.
Briefed(r, j) ==
  IF j.eligible /\ j.gap = "costs" THEN FailRequest(r) ELSE Found(r, Rated("model", j))

AskModels(r) ==
  /\ asking[r].state = "missed" /\ PreScreened(input) /\ configured # {}
  /\ \E outcome \in [configured -> Outcomes] :
       \/ Ends(outcome) = {} /\ Found(r, Rated("rules", Fallback))
       \/ \E i \in Ends(outcome) :
            \/ outcome[Models[i]] # "answer" /\ FailRequest(r)
            \/ /\ outcome[Models[i]] = "answer"
               /\ \E j \in Judgements : (calm => j.gap = "none") /\ Briefed(r, j)

\* Whatever was found is kept for a day: the rules' estimate too, and one no
\* response can be made of.
Store(r) ==
  /\ asking[r].state = "found"
  /\ cached' = asking[r].answer
  /\ asking' = [asking EXCEPT ![r] = Delivered(asking[r].answer)]
  /\ UNCHANGED <<input, configured, calm>>

\* The day is over, or Redis has been restarted.
Expire ==
  /\ cached # NoAnswer
  /\ cached' = NoAnswer
  /\ UNCHANGED <<input, configured, calm, asking>>

RedisFails(r) == ~calm /\ asking[r].state \in {"idle", "found"} /\ FailRequest(r)

QualifyNext ==
  \/ \E r \in Requests :
       Lookup(r) \/ RefuseSmall(r) \/ Unconfigured(r) \/ AskModels(r) \/ Store(r) \/ RedisFails(r)
  \/ Expire

QualifySpec == QualifyInit /\ [][QualifyNext]_qualifyVars

-----------------------------------------------------------------------------
Answers ==
  {asking[r].answer : r \in {q \in Requests : asking[q].state = "served"}}
    \cup ({cached} \ {NoAnswer})

\* Whichever models are out of order or answer what cannot be parsed, nobody
\* is left without an estimate (the promise of QualificationAgent's docstring).
OutageIsAnswered == calm => \A r \in Requests : asking[r].state # "failed"

\* Whatever a model says and however old the estimate: a debt that is too small
\* is refused, and someone is only called eligible by a model or with a lawyer
\* to look at it.
SmallDebtsAreRefused ==
  \A a \in Answers :
    /\ a.eligible => input.debt >= 25
    /\ a.eligible => a.by = "model" \/ a.review

Ranks == [hot |-> 3, warm |-> 2, cold |-> 1, disqualified |-> 0]
Risks == [low |-> 2, medium |-> 1, high |-> 0]
NotBetter(i, k) ==
  /\ i.debt <= k.debt /\ i.creditors >= k.creditors
  /\ i.enforced => k.enforced
  /\ k.property => i.property
  /\ k.transactions => i.transactions

\* Nobody is called later for having more debts, a finished enforcement, no
\* property, no sales of it, fewer creditors, less risk or a surer judgement;
\* and all 100 points can be had but are never exceeded.
ScoreIsFair ==
  (cached = NoAnswer /\ \A r \in Requests : asking[r] = NotAsking) =>
    /\ \A k \in Inputs : NotBetter(input, k) =>
         \A j \in Judgements : Score(input, j) <= Score(k, j)
    /\ \A j, l \in Judgements :
         {j.risk, l.risk} \subseteq DOMAIN Risks /\ Risks[j.risk] <= Risks[l.risk]
           /\ (j.sure => l.sure) =>
           /\ Score(input, j) <= Score(input, l)
           /\ Ranks[Tier(Score(input, j))] <= Ranks[Tier(Score(input, l))]
    /\ \A j \in Judgements :
         (Score(input, j) = 100) =
           (/\ input.debt >= 1000 /\ input.creditors <= 10 /\ input.enforced
            /\ ~input.property /\ ~input.transactions /\ j.risk = "low" /\ j.sure)

\* Nobody is promised a discharge that is impossible, and nobody is called
\* later than who is worse placed.
EstimatesAreFair == SmallDebtsAreRefused /\ ScoreIsFair
=============================================================================
