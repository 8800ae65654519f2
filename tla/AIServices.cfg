\* Two callers, three providers, records of three ages; two overlapping requests
\* for one estimate.
SPECIFICATION MCSpec
CONSTANTS
  Operations = {"complete", "classify", "embed"}
  Calls = {c1, c2}
  Writer = c2
  Tasks = {"legal"}
  Providers = {"claude", "deepseek", "openai"}
  Kind <- MCKind
  Chain <- MCChain
  RetryTasks = {"legal"}
  Embedder = "openai"
  Unusable = {"openai"}
  Reliable = {"deepseek"}
  MaxRetries = 2
  MinCalls = 2
  Window = 2
  HistoryLimit = 2
  Requests = {r1, r2}
  Inputs <- MCInputs
  Models <- MCModels
  Careful = {"anthropic", "gigachat"}
  Judgements <- MCJudgements
  NoAnswer = NoAnswer
INVARIANTS
  EstimatesAreFair
  ReliableAnswers
  OutageIsAnswered
PROPERTIES
  NobodyIsSkippedForEver
