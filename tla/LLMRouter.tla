----------------------------- MODULE LLMRouter -----------------------------
(* ai-core/llm/router.py: calls that share one router, the chain of        *)
(* providers each call works through, the retries of its first provider,   *)
(* and the health monitor that all calls write and read.                   *)
EXTENDS Integers, Sequences, FiniteSets, LLMProviders

CONSTANTS
  Operations,     \* the operations in use
  Calls,          \* callers of the router, each with one call at a time
  Tasks,          \* task types of llm_config.yaml
  Providers,      \* configured providers
  Kind,           \* the adapter of each provider
  Chain,          \* for each task its primary and its fallbacks, in order
  RetryTasks,     \* tasks with the policy "retry_then_alert"
  Embedder,       \* the provider of embeddings
  Unusable,       \* providers that are disabled or have no key
  Reliable,       \* providers that answer every request
  MaxRetries, MinCalls, Window, HistoryLimit

ASSUME RouterAssumption ==
  /\ Operations \subseteq {"complete", "classify", "extract", "embed"}
  /\ Kind \in [Providers -> Kinds]
  /\ Chain \in [Tasks -> Seq(Providers)]
  /\ RetryTasks \subseteq Tasks
  /\ Embedder \in Providers
  /\ Unusable \subseteq Providers /\ Reliable \subseteq Providers
  /\ MaxRetries \in Nat \ {0} /\ MinCalls \in Nat \ {0}
  /\ Window \in Nat \ {0} /\ HistoryLimit \in Nat \ {0}

VARIABLES
  history,   \* per provider its recorded calls, oldest first, with their age
  call,      \* per caller its call, or what became of the last one
  vain       \* some answer could not be returned (a history variable)

vars == <<history, call, vain>>

Busy == {"choosing", "requested", "sleeping"}
Ended == {"idle", "failed"}
Record == [age : 0 .. Window, ok : BOOLEAN]

\* A caller without a call, or whose call has returned.
Idle == [state |-> "idle"]
Started(s, op, t) == [state |-> s, op |-> op, task |-> t, at |-> 1, attempt |-> 0,
                      wrong |-> FALSE]
Call == [state : Busy \cup {"failed"}, op : Operations, task : Tasks,
         at : Nat \ {0}, attempt : 0 .. MaxRetries, wrong : BOOLEAN]

TypeOK ==
  /\ history \in [Providers -> Seq(Record)]
  /\ call \in [Calls -> Call \cup {Idle}]
  /\ vain \in BOOLEAN

Init ==
  /\ history = [p \in Providers |-> << >>]
  /\ call = [c \in Calls |-> Idle]
  /\ vain = FALSE

-----------------------------------------------------------------------------
(* The health monitor.                                                     *)

\* Mutant: calls count however old they are.
WholeRing(h) == 1 .. Len(h)

Recent(h) == {i \in 1 .. Len(h) : h[i].age < Window}

Failures(h) == {i \in Recent(h) : ~h[i].ok}

\* At most 30 % of the recent calls failed, or too few are known.
Healthy(p) ==
  \/ Cardinality(Recent(history[p])) < MinCalls
  \/ 10 * Cardinality(Failures(history[p])) <= 3 * Cardinality(Recent(history[p]))

\* The ring keeps the last records.
Kept(h) == IF Len(h) > HistoryLimit THEN Tail(h) ELSE h
Recorded(h, ok) == Kept(Append(h, [age |-> 0, ok |-> ok]))

\* Time passes.  An age of Window stands for every greater one.
Older(r) == [age |-> IF r.age < Window THEN r.age + 1 ELSE Window, ok |-> r.ok]

Tick ==
  /\ history' = [p \in Providers |-> [i \in 1 .. Len(history[p]) |-> Older(history[p][i])]]
  /\ UNCHANGED <<call, vain>>

-----------------------------------------------------------------------------
(* One call.                                                               *)

ChainOf(k) == IF k.op = "embed" THEN <<Embedder>> ELSE Chain[k.task]

\* Mutant: the walk ends before the last fallback.
ForgetsLast(k) == {i \in k.at .. Len(ChainOf(k)) - 1 : Healthy(ChainOf(k)[i])}

Choosable(k) == {i \in k.at .. Len(ChainOf(k)) : Healthy(ChainOf(k)[i])}

\* Position i holds the first provider of the rest of the chain to be asked.
IsNext(k, i) == i \in Choosable(k) /\ \A j \in Choosable(k) : i <= j

Asked(k) == ChainOf(k)[k.at]

\* A caller enters complete(), classify(), extract() or embed().
Begin(c, op, t) ==
  /\ call[c].state \in Ended
  /\ call' = [call EXCEPT ![c] = Started("choosing", op, t)]
  /\ UNCHANGED <<history, vain>>

\* The next provider that is healthy, if there is one, gets the request.
Choose(c) ==
  /\ call[c].state = "choosing"
  /\ \E i \in Choosable(call[c]) :
       /\ IsNext(call[c], i) /\ ChainOf(call[c])[i] \notin Unusable
       /\ call' = [call EXCEPT ![c].state = "requested", ![c].attempt = 1, ![c].at = i]
  /\ UNCHANGED <<history, vain>>

\* It cannot be created: that counts as its failure.
Refuse(c) ==
  /\ call[c].state = "choosing"
  /\ \E i \in Choosable(call[c]) :
       LET p == ChainOf(call[c])[i] IN
       /\ IsNext(call[c], i) /\ p \in Unusable
       /\ call' = [call EXCEPT ![c].at = i + 1]
       /\ history' = [history EXCEPT ![p] = Recorded(@, FALSE)]
  /\ UNCHANGED vain

\* No provider of the chain is left.
GiveUp(c) ==
  /\ call[c].state = "choosing" /\ Choosable(call[c]) = {}
  /\ call' = [call EXCEPT ![c] = Started("failed", @.op, @.task)]
  /\ UNCHANGED <<history, vain>>

\* The answer of a completion is returned.
Return(c) ==
  /\ call[c].state = "requested" /\ call[c].op = "complete"
  /\ call' = [call EXCEPT ![c] = Idle]
  /\ history' = [history EXCEPT ![Asked(call[c])] = Recorded(@, TRUE)]
  /\ UNCHANGED vain

\* The answers of the other operations have no tokens_input, which is read
\* after the success has been recorded: the call has failed after all.
ReturnInVain(c) ==
  /\ call[c].state = "requested" /\ call[c].op # "complete"
  /\ call' = [call EXCEPT ![c].state = "choosing", ![c].at = @ + 1,
                          ![c].attempt = 0]
  /\ history' = [history EXCEPT
       ![Asked(call[c])] = Recorded(Recorded(@, TRUE), FALSE)]
  /\ vain' = TRUE

Transient == {"rate", "timeout", "unavailable"}

\* The primary's failure is worth another attempt, and there is one left.
\* (A retry_after that is a text cannot be compared with the delay.)
Retried(k, e) ==
  /\ k.op = "complete" /\ k.task \in RetryTasks /\ k.at = 1
  /\ e \in Transient
  /\ k.attempt < MaxRetries

Retry(c, f) ==
  /\ call[c].state = "requested" /\ Asked(call[c]) \notin Reliable
  /\ \E e \in Raised(Kind[Asked(call[c])], call[c].op, f) : Retried(call[c], e)
  /\ call' = [call EXCEPT ![c].state = "sleeping",
                          ![c].wrong = f \in WrongRequest,
                          ![c].attempt = @ + 1]
  /\ UNCHANGED <<history, vain>>

Wake(c) ==
  /\ call[c].state = "sleeping"
  /\ call' = [call EXCEPT ![c].state = "requested", ![c].wrong = FALSE]
  /\ UNCHANGED <<history, vain>>

\* The provider has failed for this call.
Fail(c, f) ==
  /\ call[c].state = "requested" /\ Asked(call[c]) \notin Reliable
  /\ \E e \in Raised(Kind[Asked(call[c])], call[c].op, f) : ~Retried(call[c], e)
  /\ call' = [call EXCEPT ![c].state = "choosing", ![c].at = @ + 1,
                          ![c].attempt = 0]
  /\ history' = [history EXCEPT ![Asked(call[c])] = Recorded(@, FALSE)]
  /\ UNCHANGED vain

Proceed(c) ==
  \/ Choose(c) \/ Refuse(c) \/ GiveUp(c) \/ Wake(c)
  \/ Return(c) \/ ReturnInVain(c)
  \/ \E f \in Faults : Retry(c, f) \/ Fail(c, f)

Next ==
  \/ Tick
  \/ \E c \in Calls : Proceed(c)
  \/ \E c \in Calls, op \in Operations, t \in Tasks : Begin(c, op, t)

Spec == Init /\ [][Next]_vars

\* The clock runs.  Calls need not be made, nor go on.
Fairness == WF_vars(Tick)
FairSpec == Spec /\ Fairness

-----------------------------------------------------------------------------
\* As long as no answer was lost inside the router, a provider that answers
\* every request is never taken for unhealthy, whatever the others do.
ReliableIsHealthy == ~vain => \A p \in Reliable \ Unusable : Healthy(p)

\* A completion fails only if no provider of its chain was reliable: retries,
\* skipped and failing providers before it never keep a call from reaching it.
ReliableAnswers ==
  ~vain => \A c \in Calls :
    call[c].state = "failed" /\ call[c].op = "complete" =>
      \A i \in 1 .. Len(Chain[call[c].task]) :
        Chain[call[c].task][i] \notin Reliable \ Unusable

\* The adapters and the retry loop agree: no request that was itself wrong
\* waits to be sent again.  (GigaChat takes every 400 for an outage.)
WrongRequestIsNotRepeated ==
  \A c \in Calls : call[c].state = "sleeping" /\ Kind[Asked(call[c])] # "gigachat"
    => ~call[c].wrong

\* A provider that is skipped gets no call that could show its recovery: it
\* is tried again because its failures grow old.
NobodyIsSkippedForEver == \A p \in Providers : []<>Healthy(p)
=============================================================================
