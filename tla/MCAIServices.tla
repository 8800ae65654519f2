---------------------------- MODULE MCAIServices ----------------------------
(* The router of language models: a primary that fails as it likes and is  *)
(* retried, one that has no key, and a reliable fallback behind it; the    *)
(* provider without a key is the only one of embeddings.  Beside it the    *)
(* qualification of leads, which asks models of its own.  "which" says     *)
(* what runs; the other is in its initial state.                           *)
EXTENDS LLMRouter, Qualification, TLC

CONSTANT Writer   \* a caller that only completes texts

Texts == {"complete", "classify"}

VARIABLE which

MCKind == "claude" :> "claude" @@ "deepseek" :> "deepseek" @@ "openai" :> "openai"
MCChain == "legal" :> <<"claude", "openai", "deepseek">>

MCInputs ==
  [debt : {24, 25, 500, 1000}, creditors : {10, 11}, enforced : BOOLEAN,
   property : BOOLEAN, transactions : BOOLEAN]
Judged(eligible, risk, sure, gap) ==
  [eligible |-> eligible, risk |-> risk, sure |-> sure, review |-> FALSE, gap |-> gap]
MCJudgements ==
  {Judged(TRUE, "low", TRUE, "none"), Judged(TRUE, "high", FALSE, "none"),
   Judged(TRUE, "medium", TRUE, "costs"), Judged(FALSE, "low", TRUE, "months"),
   Judged(TRUE, "unclear", FALSE, "none")}
MCModels == <<"anthropic", "openai", "gigachat">>

MCInit ==
  /\ which \in {"two", "one", "qualify"}
  /\ Init /\ QualifyInit
  /\ which # "qualify" => calm /\ configured = {} /\ input = CHOOSE i \in MCInputs : TRUE

Calling(c, ops) == call'[c].state # "idle" => call'[c].op \in ops

\* Two callers that overlap, of whom one completes texts only; or one that also
\* asks for embeddings.
TwoNext == Next /\ Calling(Writer, {"complete"}) /\ \A c \in Calls : Calling(c, Texts)
OneNext == Next /\ Calling(Writer, {})

MCNext ==
  /\ UNCHANGED which
  /\ \/ which = "two" /\ TwoNext /\ UNCHANGED qualifyVars
     \/ which = "one" /\ OneNext /\ UNCHANGED qualifyVars
     \/ which = "qualify" /\ QualifyNext /\ UNCHANGED vars

\* The fairness of LLMRouter, where it runs.
MCFairness == WF_vars(which # "qualify" /\ Tick)

MCSpec == MCInit /\ [][MCNext]_<<vars, which, qualifyVars>> /\ MCFairness
=============================================================================
