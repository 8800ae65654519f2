------------------------------ MODULE AIProofs ------------------------------
(* Proofs about LLMRouter, Qualification and TelegramBot.  What has to be  *)
(* strengthened first is "a reliable provider is healthy": it is so        *)
(* because its ring holds no failure at all, and a call stands before      *)
(* every reliable provider of its chain.                                   *)
EXTENDS LLMRouter, Qualification, TelegramBot, FiniteSetTheorems,
        SequenceTheorems, TLAPS

Good == Reliable \ Unusable

\* A caller that was handed a provider stands inside its chain.
InChain == \A c \in Calls :
  call[c].state \in {"requested", "sleeping"} =>
    call[c].at \in 1 .. Len(ChainOf(call[c]))

\* The ring of a reliable provider holds no failure.
Spotless == ~vain => \A p \in Good : \A i \in 1 .. Len(history[p]) : history[p][i].ok

\* A completion has not passed a reliable provider of its chain.
NotPassed == ~vain => \A c \in Calls :
  call[c] # Idle /\ call[c].op = "complete" =>
    \A i \in 1 .. Len(Chain[call[c].task]) :
      Chain[call[c].task][i] \in Good => call[c].state # "failed" /\ call[c].at <= i

Inv == TypeOK /\ InChain /\ Spotless /\ NotPassed

\* A chain is a sequence of providers, whatever the operation.
LEMMA ChainType ==
  ASSUME NEW k \in Call PROVE ChainOf(k) \in Seq(Providers)
<1>1. Embedder \in Providers
        /\ Chain \in [Tasks -> Seq(Providers)] BY RouterAssumption
<1>2. k.task \in Tasks BY DEF Call
<1>3. <<Embedder>> \in Seq(Providers) BY <1>1
<1> QED BY <1>1, <1>2, <1>3 DEF ChainOf

\* The provider asked is a provider.
LEMMA AskedType ==
  ASSUME NEW k \in Call, NEW i \in 1 .. Len(ChainOf(k))
  PROVE  ChainOf(k)[i] \in Providers
<1>1. ChainOf(k) \in Seq(Providers) BY ChainType
<1> QED BY <1>1

\* A recorded ring is a ring; its entries are old ones or the new one.
LEMMA RecordedType ==
  ASSUME NEW h \in Seq(Record), NEW ok \in BOOLEAN
  PROVE  Recorded(h, ok) \in Seq(Record)
<1> DEFINE g == Append(h, [age |-> 0, ok |-> ok])
<1>1. [age |-> 0, ok |-> ok] \in Record BY RouterAssumption DEF Record
<1>2. g \in Seq(Record) /\ g # << >> BY <1>1
<1>3. Tail(g) \in Seq(Record) BY <1>2
<1> QED BY <1>2, <1>3 DEF Recorded, Kept

\* Recording a success leaves a ring without failures without failures.
LEMMA RecordedSpotless ==
  ASSUME NEW h \in Seq(Record), \A i \in 1 .. Len(h) : h[i].ok
  PROVE  \A i \in 1 .. Len(Recorded(h, TRUE)) : Recorded(h, TRUE)[i].ok
<1> DEFINE r == [age |-> 0, ok |-> TRUE]
           g == Append(h, r)
<1>1. r \in Record BY RouterAssumption DEF Record
<1>2. g \in Seq(Record) /\ Len(g) = Len(h) + 1 BY <1>1
<1>3. \A i \in 1 .. Len(g) : g[i].ok
  <2> TAKE i \in 1 .. Len(g)
  <2>1. CASE i = Len(h) + 1 BY <2>1, <1>1
  <2>2. CASE i # Len(h) + 1
    <3>1. i \in 1 .. Len(h) BY <2>2, <1>2
    <3>2. g[i] = h[i] BY <3>1, <1>1
    <3> QED BY <3>1, <3>2
  <2> QED BY <2>1, <2>2
<1> HIDE DEF g
<1>4. \A i \in 1 .. Len(Tail(g)) : Tail(g)[i].ok
  <2>1. Len(g) # 0 BY <1>2
  <2>2. Len(Tail(g)) = Len(g) - 1 BY <1>2, <2>1
  <2> TAKE i \in 1 .. Len(Tail(g))
  <2>3. i + 1 \in 1 .. Len(g) BY <2>2, <1>2
  <2>4. Tail(g)[i] = g[i + 1] BY <1>2, <2>1, <2>2
  <2> QED BY <2>3, <2>4, <1>3
<1> QED BY <1>3, <1>4 DEF Recorded, Kept, g

\* A provider without failures on record is healthy.
LEMMA SpotlessHealthy ==
  ASSUME NEW p \in Providers, TypeOK, \A i \in 1 .. Len(history[p]) : history[p][i].ok
  PROVE  Healthy(p)
<1>1. history[p] \in Seq(Record) BY DEF TypeOK
<1>2. Failures(history[p]) = {} BY <1>1 DEF Failures, Recent
<1>3. Cardinality({}) = 0 BY FS_EmptySet
<1>4. Recent(history[p]) \subseteq 1 .. Len(history[p]) BY DEF Recent
<1>5. IsFiniteSet(1 .. Len(history[p]))
  <2>1. Len(history[p]) \in Int /\ 1 \in Int BY <1>1
  <2> HIDE <1>1
  <2> QED BY <2>1, FS_Interval
<1>6. IsFiniteSet(Recent(history[p])) BY <1>4, <1>5, FS_Subset
<1>7. Cardinality(Recent(history[p])) \in Nat BY <1>6, FS_CardinalityType
<1> QED BY <1>2, <1>3, <1>7 DEF Healthy


-----------------------------------------------------------------------------
\* Every variable keeps its type.
LEMMA TypeInit == Init => TypeOK /\ InChain
<1> SUFFICES ASSUME Init PROVE TypeOK /\ InChain OBVIOUS
<1>1. << >> \in Seq(Record) OBVIOUS
<1> QED BY <1>1 DEF Init, TypeOK, InChain, Idle

\* The caller of a step is a call under way, and no idle one.
LEMMA BusyCall ==
  ASSUME TypeOK, NEW c \in Calls, call[c].state # "idle"
  PROVE  call[c] \in Call
BY DEF TypeOK, Idle

\* A step that replaces one call, by a well-typed one, keeps the calls' type.
LEMMA OneCall ==
  ASSUME TypeOK, InChain, NEW c \in Calls, NEW k \in Call \cup {Idle},
         call' = [call EXCEPT ![c] = k],
         k.state \in {"requested", "sleeping"} => k.at \in 1 .. Len(ChainOf(k)),
         history' \in [Providers -> Seq(Record)], vain' \in BOOLEAN
  PROVE  TypeOK' /\ InChain'
<1>1. call' \in [Calls -> Call \cup {Idle}] BY DEF TypeOK
<1>2. \A d \in Calls : call'[d] = IF d = c THEN k ELSE call[d] BY DEF TypeOK
<1>3. InChain' BY <1>2 DEF InChain, ChainOf
<1> QED BY <1>1, <1>3 DEF TypeOK

\* Each step of a call replaces that call by a well-typed one.
LEMMA TypeProceed ==
  ASSUME TypeOK, InChain, NEW c \in Calls, Proceed(c) PROVE TypeOK' /\ InChain'
<1> DEFINE k == call[c]
           m == call'[c]
<1>0. MaxRetries \in Nat \ {0} BY RouterAssumption
<1>a. 0 \in 0 .. MaxRetries /\ 1 \in 0 .. MaxRetries BY <1>0
<1>b. ASSUME NEW j \in Call, NEW s \in Busy, NEW i \in Nat \ {0},
             NEW a \in 0 .. MaxRetries, NEW w \in BOOLEAN
      PROVE  /\ [j EXCEPT !.state = s, !.attempt = a, !.at = i] \in Call
             /\ [j EXCEPT !.state = s, !.at = i, !.attempt = a] \in Call
             /\ [j EXCEPT !.state = s, !.wrong = w, !.attempt = a] \in Call
  BY DEF Call
<1>1. CASE Choose(c)
  <2>1. k \in Call BY <1>1, BusyCall DEF Choose
  <2>2. PICK i \in Choosable(k) :
          call' = [call EXCEPT ![c].state = "requested", ![c].attempt = 1,
            ![c].at = i]
    BY <1>1 DEF Choose
  <2>3. i \in k.at .. Len(ChainOf(k)) /\ i \in 1 .. Len(ChainOf(k)) /\ i \in Nat \ {0}
    <3>1. k.at \in Nat \ {0} BY <2>1 DEF Call
    <3>2. ChainOf(k) \in Seq(Providers) BY <2>1, ChainType
    <3> QED BY <2>2, <3>1, <3>2 DEF Choosable
  <2> DEFINE n == [k EXCEPT !.state = "requested", !.attempt = 1, !.at = i]
  <2>4. n \in Call BY <2>1, <2>3, <1>a, <1>b DEF Busy
  <2>5. n.at \in 1 .. Len(ChainOf(n)) BY <2>1, <2>3 DEF ChainOf, Call
  <2>6. call' = [call EXCEPT ![c] = n] BY <2>2 DEF TypeOK
  <2> HIDE DEF n
  <2> QED BY <2>4, <2>5, <2>6, <1>1, OneCall DEF Choose, TypeOK
<1>2. CASE Refuse(c)
  <2>1. k \in Call BY <1>2, BusyCall DEF Refuse
  <2>2. PICK i \in Choosable(k) :
          /\ call' = [call EXCEPT ![c].at = i + 1]
          /\ history' = [history EXCEPT ![ChainOf(k)[i]] = Recorded(@, FALSE)]
    BY <1>2 DEF Refuse
  <2>3. i \in 1 .. Len(ChainOf(k)) /\ i \in Nat
    <3>1. k.at \in Nat \ {0} BY <2>1 DEF Call
    <3>2. ChainOf(k) \in Seq(Providers) BY <2>1, ChainType
    <3> QED BY <2>2, <3>1, <3>2 DEF Choosable
  <2> DEFINE n == [k EXCEPT !.at = i + 1]
  <2>4. n \in Call BY <2>1, <2>3 DEF Call
  <2>5. n.state = "choosing" BY <2>1, <1>2 DEF Refuse, Call
  <2>6. call' = [call EXCEPT ![c] = n] BY <2>2 DEF TypeOK
  <2>7. history' \in [Providers -> Seq(Record)]
    <3>1. ChainOf(k)[i] \in Providers BY <2>1, <2>3, AskedType
    <3>2. Recorded(history[ChainOf(k)[i]], FALSE) \in Seq(Record)
      BY <3>1, RecordedType DEF TypeOK
    <3> QED BY <2>2, <3>1, <3>2 DEF TypeOK
  <2> HIDE DEF n
  <2> QED BY <2>4, <2>5, <2>6, <2>7, <1>2, OneCall DEF Refuse, TypeOK
<1>3. CASE GiveUp(c)
  <2>1. k \in Call BY <1>3, BusyCall DEF GiveUp
  <2> DEFINE n == Started("failed", k.op, k.task)
  <2>2. n \in Call /\ n.state = "failed" BY <2>1, <1>0 DEF Call, Started
  <2>3. call' = [call EXCEPT ![c] = n] BY <1>3 DEF GiveUp
  <2> HIDE DEF n
  <2> QED BY <2>2, <2>3, <1>3, OneCall DEF GiveUp, TypeOK
<1>4. CASE Wake(c)
  <2>1. k \in Call /\ k.state = "sleeping" BY <1>4, BusyCall DEF Wake
  <2> DEFINE n == [k EXCEPT !.state = "requested", !.wrong = FALSE]
  <2>2. n \in Call BY <2>1 DEF Call, Busy
  <2>3. n.at \in 1 .. Len(ChainOf(n)) BY <2>1 DEF ChainOf, Call, InChain
  <2>4. call' = [call EXCEPT ![c] = n] BY <1>4 DEF Wake, TypeOK
  <2> HIDE DEF n
  <2> QED BY <2>2, <2>3, <2>4, <1>4, OneCall DEF Wake, TypeOK
<1>5. ASSUME k.state = "requested", NEW ok \in BOOLEAN
      PROVE  /\ k \in Call /\ k.at \in 1 .. Len(ChainOf(k))
             /\ Asked(k) \in Providers
             /\ Recorded(history[Asked(k)], ok) \in Seq(Record)
  <2>1. k \in Call BY <1>5, BusyCall
  <2>2. k.at \in 1 .. Len(ChainOf(k)) BY <1>5 DEF InChain
  <2>3. Asked(k) \in Providers BY <2>1, <2>2, AskedType DEF Asked
  <2> QED BY <2>1, <2>2, <2>3, RecordedType DEF TypeOK
<1>6. CASE Return(c)
  <2>1. k.state = "requested" BY <1>6 DEF Return
  <2>2. history' = [history EXCEPT ![Asked(k)] = Recorded(history[Asked(k)], TRUE)]
    BY <1>6 DEF Return
  <2>3. history' \in [Providers -> Seq(Record)]
    <3>1. Recorded(history[Asked(k)], TRUE) \in Seq(Record) BY <1>5, <2>1
    <3> QED BY <2>2, <3>1 DEF TypeOK
  <2>4. call' = [call EXCEPT ![c] = Idle] BY <1>6 DEF Return
  <2>5. Idle \in Call \cup {Idle} /\ Idle.state = "idle" BY DEF Idle
  <2> QED BY <2>3, <2>4, <2>5, <1>6, OneCall DEF Return, TypeOK
<1>7. CASE ReturnInVain(c)
  <2>1. k.state = "requested" BY <1>7 DEF ReturnInVain
  <2>2. k \in Call /\ k.at \in Nat \ {0} BY <2>1, BusyCall DEF Call
  <2> DEFINE n == [k EXCEPT !.state = "choosing", !.at = k.at + 1, !.attempt = 0]
  <2>a. k.at + 1 \in Nat \ {0} BY <2>2
  <2>b. n \in Call BY <2>2, <2>a, <1>a, <1>b DEF Busy
  <2>3. n \in Call /\ n.state = "choosing" BY <2>2, <2>b DEF Call
  <2>4. call' = [call EXCEPT ![c] = n] BY <1>7 DEF ReturnInVain, TypeOK
  <2>5. Recorded(Recorded(history[Asked(k)], TRUE), FALSE) \in Seq(Record)
    BY <1>5, <2>1, RecordedType
  <2>6. history' \in [Providers -> Seq(Record)] /\ vain' \in BOOLEAN
    BY <1>7, <2>5 DEF ReturnInVain, TypeOK
  <2> HIDE DEF n
  <2> QED BY <2>3, <2>4, <2>6, OneCall
<1>8. ASSUME NEW f \in Faults, Retry(c, f) PROVE TypeOK' /\ InChain'
  <2>1. k.state = "requested" /\ k.attempt < MaxRetries BY <1>8 DEF Retry, Retried
  <2>2. k \in Call /\ k.attempt + 1 \in 0 .. MaxRetries BY <2>1, <1>0,
          BusyCall DEF Call
  <2> DEFINE w == f \in WrongRequest
             a == k.attempt + 1
             n == [k EXCEPT !.state = "sleeping", !.wrong = w, !.attempt = a]
  <2>a. w \in BOOLEAN OBVIOUS
  <2>c. "sleeping" \in Busy BY DEF Busy
  <2>3. n \in Call
    <3>1. k \in Call /\ a \in 0 .. MaxRetries BY <2>2
    <3> HIDE DEF w, a, k
    <3> QED BY <3>1, <2>a, <2>c DEF Call
  <2>4. n.at \in 1 .. Len(ChainOf(n)) BY <2>1, <2>2, <1>5 DEF ChainOf, Call
  <2>5. call' = [call EXCEPT ![c] = n] BY <1>8 DEF Retry, TypeOK
  <2> HIDE DEF n
  <2> QED BY <2>3, <2>4, <2>5, <1>8, OneCall DEF Retry, TypeOK
<1>9. ASSUME NEW f \in Faults, Fail(c, f) PROVE TypeOK' /\ InChain'
  <2>1. k.state = "requested" BY <1>9 DEF Fail
  <2>2. k \in Call /\ k.at \in Nat \ {0} BY <2>1, BusyCall DEF Call
  <2> DEFINE n == [k EXCEPT !.state = "choosing", !.at = k.at + 1, !.attempt = 0]
  <2>a. k.at + 1 \in Nat \ {0} BY <2>2
  <2>b. n \in Call BY <2>2, <2>a, <1>a, <1>b DEF Busy
  <2>3. n \in Call /\ n.state = "choosing" BY <2>2, <2>b DEF Call
  <2>4. call' = [call EXCEPT ![c] = n] BY <1>9 DEF Fail, TypeOK
  <2>5. Recorded(history[Asked(k)], FALSE) \in Seq(Record) BY <1>5, <2>1
  <2>6. history' \in [Providers -> Seq(Record)]
    BY <1>9, <2>5 DEF Fail, TypeOK
  <2> HIDE DEF n
  <2> QED BY <2>3, <2>4, <2>6, <1>9, OneCall DEF Fail, TypeOK
<1> QED BY <1>1, <1>2, <1>3, <1>4, <1>6, <1>7, <1>8, <1>9 DEF Proceed

\* Growing older changes neither the length of a ring nor its outcomes.
LEMMA TickRings ==
  ASSUME TypeOK, Tick
  PROVE  /\ history' \in [Providers -> Seq(Record)]
         /\ \A p \in Providers :
              /\ Len(history'[p]) = Len(history[p])
              /\ \A i \in 1 .. Len(history[p]) : history'[p][i].ok = history[p][i].ok
<1> SUFFICES ASSUME NEW p \in Providers
             PROVE  /\ history'[p] \in Seq(Record)
                    /\ Len(history'[p]) = Len(history[p])
                    /\ \A i \in 1 .. Len(history[p]) :
                         history'[p][i].ok = history[p][i].ok
  <2>1. history' = [p \in Providers |-> history'[p]] BY DEF Tick
  <2> QED BY <2>1
<1> DEFINE h == history[p]
<1>1. h \in Seq(Record) BY DEF TypeOK
<1>2. history'[p] = [i \in 1 .. Len(h) |-> Older(h[i])] BY DEF Tick
<1>3. \A r \in Record : Older(r) \in Record /\ Older(r).ok = r.ok
  <2>1. Window \in Nat \ {0} BY RouterAssumption
  <2> QED BY <2>1 DEF Older, Record
<1>4. \A i \in 1 .. Len(h) : h[i] \in Record BY <1>1
<1> HIDE DEF h
<1>5. history'[p] \in Seq(Record) /\ Len(history'[p]) = Len(h)
  <2>1. Len(h) \in Nat BY <1>1
  <2>2. \A i \in 1 .. Len(h) : Older(h[i]) \in Record BY <1>3, <1>4
  <2>3. history'[p] \in Seq(Record) BY <1>2, <2>1, <2>2, IsASeq
  <2>4. DOMAIN history'[p] = 1 .. Len(h) BY <1>2
  <2>5. DOMAIN history'[p] = 1 .. Len(history'[p]) /\ Len(history'[p]) \in Nat
    BY <2>3, LenProperties
  <2> QED BY <2>1, <2>3, <2>4, <2>5
<1>6. \A i \in 1 .. Len(h) : history'[p][i].ok = h[i].ok BY <1>2, <1>3, <1>4
<1> QED BY <1>5, <1>6 DEF h

\* The types are inductive.
LEMMA TypeNext == TypeOK /\ InChain /\ [Next]_vars => TypeOK' /\ InChain'
<1> SUFFICES ASSUME TypeOK, InChain, [Next]_vars PROVE TypeOK' /\ InChain' OBVIOUS
<1>1. CASE Tick
  <2>1. history' \in [Providers -> Seq(Record)] BY <1>1, TickRings
  <2> QED BY <1>1, <2>1 DEF Tick, TypeOK, InChain, ChainOf
<1>2. ASSUME NEW c \in Calls, Proceed(c) PROVE TypeOK' /\ InChain'
  BY <1>2, TypeProceed
<1>3. ASSUME NEW c \in Calls, NEW op \in Operations, NEW t \in Tasks, Begin(c, op, t)
      PROVE  TypeOK' /\ InChain'
  <2> DEFINE n == Started("choosing", op, t)
  <2>1. 0 \in 0 .. MaxRetries BY RouterAssumption
  <2>2. n \in Call /\ n.state = "choosing" BY <2>1 DEF Started, Call, Busy
  <2>3. call' = [call EXCEPT ![c] = n] BY <1>3 DEF Begin
  <2> HIDE DEF n
  <2> QED BY <1>3, <2>2, <2>3, OneCall DEF Begin, TypeOK
<1>4. CASE UNCHANGED vars BY <1>4 DEF vars, TypeOK, InChain, ChainOf
<1> QED BY <1>1, <1>2, <1>3, <1>4 DEF Next

\* Rings and calls keep their types, for any chains, providers and callers.
THEOREM TypeCorrect == Spec => []TypeOK
<1>1. Init => TypeOK /\ InChain BY TypeInit
<1>2. TypeOK /\ InChain /\ [Next]_vars => (TypeOK /\ InChain)' BY TypeNext
<1> QED BY <1>1, <1>2, PTL DEF Spec

-----------------------------------------------------------------------------
\* No answer that was lost is ever forgotten.
LEMMA VainStays == vain \in BOOLEAN /\ [Next]_vars /\ ~vain' => ~vain
BY DEF Next, vars, Tick, Begin, Proceed, Choose, Refuse, GiveUp, Wake, Return,
       ReturnInVain, Retry, Fail

\* While no answer is lost, a reliable provider gets no failure on record:
\* what is recorded as failed is never its call, nor the failure to create it.
LEMMA SpotlessNext ==
  TypeOK /\ InChain /\ Spotless /\ [Next]_vars => Spotless'
<1> SUFFICES ASSUME TypeOK, InChain, Spotless, [Next]_vars, ~vain', NEW p \in Good
             PROVE  \A i \in 1 .. Len(history'[p]) : history'[p][i].ok
  BY DEF Spotless
<1>1. p \in Providers /\ p \in Reliable /\ p \notin Unusable
  BY RouterAssumption DEF Good
<1>2. ~vain BY VainStays DEF TypeOK
<1>3. \A i \in 1 .. Len(history[p]) : history[p][i].ok BY <1>2 DEF Spotless
<1>4. CASE Tick BY <1>4, <1>1, <1>3, TickRings
<1>5. ASSUME NEW c \in Calls, Proceed(c)
      PROVE  \A i \in 1 .. Len(history'[p]) : history'[p][i].ok
  <2>1. CASE Choose(c) \/ GiveUp(c) \/ Wake(c) \/ \E f \in Faults : Retry(c, f)
    BY <2>1, <1>3 DEF Choose, GiveUp, Wake, Retry
  <2>2. CASE Refuse(c)
    <3>1. PICK i \in Choosable(call[c]) :
            /\ ChainOf(call[c])[i] \in Unusable
            /\ history' = [history EXCEPT ![ChainOf(call[c])[i]] = Recorded(@, FALSE)]
      BY <2>2 DEF Refuse
    <3>2. history'[p] = history[p] BY <3>1, <1>1 DEF TypeOK
    <3> QED BY <3>2, <1>3
  <2>3. CASE Return(c)
    <3>1. history' = [history EXCEPT
            ![Asked(call[c])] = Recorded(history[Asked(call[c])], TRUE)]
      BY <2>3 DEF Return
    <3>2. history'[p] = history[p] \/ history'[p] = Recorded(history[p], TRUE)
      BY <3>1, <1>1 DEF TypeOK
    <3>3. history[p] \in Seq(Record) BY <1>1 DEF TypeOK
    <3> QED BY <3>2, <3>3, <1>3, RecordedSpotless
  <2>4. CASE ReturnInVain(c) BY <2>4 DEF ReturnInVain
  <2>5. ASSUME NEW f \in Faults, Fail(c, f)
        PROVE  \A i \in 1 .. Len(history'[p]) : history'[p][i].ok
    <3>1. Asked(call[c]) # p BY <2>5, <1>1 DEF Fail
    <3>2. history'[p] = history[p] BY <2>5, <3>1, <1>1 DEF Fail, TypeOK
    <3> QED BY <3>2, <1>3
  <2> QED BY <1>5, <2>1, <2>2, <2>3, <2>4, <2>5 DEF Proceed
<1>6. ASSUME NEW c \in Calls, NEW op \in Operations, NEW t \in Tasks, Begin(c, op, t)
      PROVE  \A i \in 1 .. Len(history'[p]) : history'[p][i].ok
  BY <1>6, <1>3 DEF Begin
<1>7. CASE UNCHANGED vars BY <1>7, <1>3 DEF vars
<1> QED BY <1>4, <1>5, <1>6, <1>7 DEF Next

\* A reliable provider that a completion has not passed can be chosen.
LEMMA GoodIsChoosable ==
  ASSUME TypeOK, Spotless, ~vain, NEW k \in Call, k.op = "complete",
         NEW i \in 1 .. Len(Chain[k.task]), Chain[k.task][i] \in Good, k.at <= i
  PROVE  i \in Choosable(k)
<1>1. ChainOf(k) = Chain[k.task] BY DEF ChainOf
<1>2. ChainOf(k)[i] \in Providers BY <1>1, AskedType
<1>3. Healthy(ChainOf(k)[i]) BY <1>1, <1>2, SpotlessHealthy DEF Spotless
<1>4. ChainOf(k) \in Seq(Providers) BY ChainType
<1>5. i \in k.at .. Len(ChainOf(k)) BY <1>1, <1>4 DEF Call
<1> QED BY <1>1, <1>3, <1>5 DEF Choosable

\* A completion never passes a reliable provider: every step forward starts at
\* a provider that failed, could not be created, or was not healthy.
LEMMA NotPassedNext ==
  TypeOK /\ InChain /\ Spotless /\ NotPassed /\ [Next]_vars => NotPassed'
<1> SUFFICES ASSUME TypeOK, InChain, Spotless, NotPassed, [Next]_vars, ~vain',
                    NEW c \in Calls, call'[c] # Idle, call'[c].op = "complete",
                    NEW i \in 1 .. Len(Chain[call'[c].task]),
                    Chain[call'[c].task][i] \in Good
             PROVE  call'[c].state # "failed" /\ call'[c].at <= i
  BY DEF NotPassed
<1> DEFINE k == call[c]
           Kept1 == call'[c].op = k.op /\ call'[c].task = k.task
<1>1. ~vain BY VainStays DEF TypeOK
<1>2. ASSUME k # Idle, Kept1
      PROVE  /\ k \in Call /\ k.op = "complete" /\ k.at \in Nat
             /\ i \in 1 .. Len(Chain[k.task]) /\ Chain[k.task][i] \in Good
             /\ k.state # "failed" /\ k.at <= i
             /\ i \in Choosable(k) /\ i \in Nat
  <2>1. k \in Call BY <1>2 DEF TypeOK
  <2>2. k.op = "complete" /\ i \in 1 .. Len(Chain[k.task])
          /\ Chain[k.task][i] \in Good
    BY <1>2
  <2>3. k.state # "failed" /\ k.at <= i BY <1>1, <1>2, <2>2 DEF NotPassed
  <2>4. i \in Choosable(k) BY <1>1, <2>1, <2>2, <2>3, GoodIsChoosable
  <2> QED BY <2>1, <2>2, <2>3, <2>4 DEF Call
<1>3. CASE call'[c] = call[c] BY <1>3, <1>2
<1>4. CASE Tick BY <1>4, <1>3 DEF Tick
<1>5. CASE UNCHANGED vars BY <1>5, <1>3 DEF vars
<1>6. ASSUME NEW d \in Calls, NEW op \in Operations, NEW t \in Tasks, Begin(d, op, t)
      PROVE  call'[c].state # "failed" /\ call'[c].at <= i
  <2>1. CASE d = c
    <3>1. call'[c] = Started("choosing", op, t) BY <1>6, <2>1 DEF Begin, TypeOK
    <3> QED BY <3>1 DEF Started
  <2>2. CASE d # c BY <1>6, <2>2, <1>3 DEF Begin, TypeOK
  <2> QED BY <2>1, <2>2
<1>7. ASSUME NEW d \in Calls, d # c, Proceed(d)
      PROVE  call'[c].state # "failed" /\ call'[c].at <= i
  <2>1. call'[c] = call[c]
    BY <1>7 DEF TypeOK, Proceed, Choose, Refuse, GiveUp, Wake, Return, ReturnInVain,
                Retry, Fail
  <2> QED BY <2>1, <1>3
<1>8. ASSUME Proceed(c) PROVE call'[c].state # "failed" /\ call'[c].at <= i
  <2>1. CASE Choose(c)
    <3>1. PICK m \in Choosable(k) :
            /\ IsNext(k, m)
            /\ call' = [call EXCEPT ![c].state = "requested", ![c].attempt = 1,
                 ![c].at = m]
      BY <2>1 DEF Choose
    <3>2. k # Idle /\ k \in Call BY <2>1 DEF Choose, Idle, TypeOK
    <3>3. Kept1 /\ call'[c].at = m /\ call'[c].state = "requested"
      BY <3>1, <3>2 DEF TypeOK, Call
    <3>4. m <= i BY <1>2, <3>1, <3>2, <3>3 DEF IsNext
    <3> QED BY <3>3, <3>4
  <2>2. CASE Refuse(c)
    <3>1. PICK m \in Choosable(k) :
            /\ IsNext(k, m) /\ ChainOf(k)[m] \in Unusable
            /\ call' = [call EXCEPT ![c].at = m + 1]
      BY <2>2 DEF Refuse
    <3>2. k # Idle /\ k \in Call BY <2>2 DEF Refuse, Idle, TypeOK
    <3>3. Kept1 /\ call'[c].at = m + 1 /\ call'[c].state = "choosing"
      BY <3>1, <3>2, <2>2 DEF TypeOK, Call, Refuse
    <3>4. m <= i BY <1>2, <3>1, <3>2, <3>3 DEF IsNext
    <3>5. m # i BY <1>2, <3>1, <3>2, <3>3 DEF ChainOf, Good
    <3>6. m \in Int
      <4>1. ChainOf(k) \in Seq(Providers) BY <3>2, ChainType
      <4>2. Choosable(k) \subseteq k.at .. Len(ChainOf(k)) BY DEF Choosable
      <4>3. k.at \in Int /\ Len(ChainOf(k)) \in Int BY <3>2, <4>1 DEF Call
      <4> QED BY <3>1, <4>2, <4>3
    <3>7. i \in Int BY <1>2, <3>2, <3>3
    <3> QED BY <3>3, <3>4, <3>5, <3>6, <3>7
  <2>3. CASE GiveUp(c)
    <3>1. k # Idle /\ Choosable(k) = {} BY <2>3 DEF GiveUp, Idle
    <3>2. call'[c] = Started("failed", k.op, k.task) BY <2>3 DEF GiveUp, TypeOK
    <3>3. Kept1 BY <3>2 DEF Started
    <3> QED BY <1>2, <3>1, <3>3
  <2>4. CASE Wake(c)
    <3>1. k # Idle /\ k \in Call BY <2>4 DEF Wake, Idle, TypeOK
    <3>2. Kept1 /\ call'[c].at = k.at /\ call'[c].state = "requested"
      BY <2>4, <3>1 DEF Wake, TypeOK, Call
    <3> QED BY <1>2, <3>1, <3>2
  <2>5. CASE Return(c) BY <2>5 DEF Return, TypeOK
  <2>6. CASE ReturnInVain(c) BY <2>6 DEF ReturnInVain
  <2>7. ASSUME NEW f \in Faults, Retry(c, f)
        PROVE  call'[c].state # "failed" /\ call'[c].at <= i
    <3>1. k # Idle /\ k \in Call BY <2>7 DEF Retry, Idle, TypeOK
    <3>2. Kept1 /\ call'[c].at = k.at /\ call'[c].state = "sleeping"
      BY <2>7, <3>1 DEF Retry, TypeOK, Call
    <3> QED BY <1>2, <3>1, <3>2
  <2>8. ASSUME NEW f \in Faults, Fail(c, f)
        PROVE  call'[c].state # "failed" /\ call'[c].at <= i
    <3>1. k # Idle /\ k \in Call BY <2>8 DEF Fail, Idle, TypeOK
    <3>2. Kept1 /\ call'[c].at = k.at + 1 /\ call'[c].state = "choosing"
      BY <2>8, <3>1 DEF Fail, TypeOK, Call
    <3>3. k.at # i BY <1>2, <2>8, <3>1, <3>2 DEF Fail, Asked, ChainOf, Good
    <3>4. k.at \in Nat /\ k.at <= i /\ i \in Nat BY <1>2, <3>1, <3>2
    <3> QED BY <3>2, <3>3, <3>4
  <2> QED BY <1>8, <2>1, <2>2, <2>3, <2>4, <2>5, <2>6, <2>7, <2>8 DEF Proceed
<1> QED BY <1>4, <1>5, <1>6, <1>7, <1>8 DEF Next

\* The invariant of the whole router.
LEMMA Invariance == Spec => []Inv
<1>1. Init => Inv
  <2> SUFFICES ASSUME Init PROVE Inv OBVIOUS
  <2>1. TypeOK /\ InChain BY TypeInit
  <2>2. \A p \in Providers : Len(history[p]) = 0 BY DEF Init
  <2>3. Spotless BY <2>2, RouterAssumption DEF Spotless, Good
  <2>4. NotPassed BY DEF Init, NotPassed
  <2> QED BY <2>1, <2>3, <2>4 DEF Inv
<1>2. Inv /\ [Next]_vars => Inv'
  BY TypeNext, SpotlessNext, NotPassedNext DEF Inv
<1> QED BY <1>1, <1>2, PTL DEF Spec

\* However many calls fail on however many providers, one that answers every
\* request stays healthy (HealthMonitor.is_healthy), until classify(),
\* extract() or embed() has thrown an answer away.
THEOREM ReliableStaysHealthy == Spec => []ReliableIsHealthy
<1>1. Inv => ReliableIsHealthy
  <2> SUFFICES ASSUME Inv, ~vain, NEW p \in Reliable \ Unusable PROVE Healthy(p)
    BY DEF ReliableIsHealthy
  <2>1. p \in Providers /\ p \in Good BY RouterAssumption DEF Good
  <2> QED BY <2>1, SpotlessHealthy DEF Inv, Spotless
<1> QED BY <1>1, Invariance, PTL

\* For any chain and any failures before it, a reliable provider of the chain
\* keeps a completion from failing (LLMRouter.complete).
THEOREM FallbackReachesReliable == Spec => []ReliableAnswers
<1>1. Inv => ReliableAnswers
  <2> SUFFICES ASSUME Inv, ~vain, NEW c \in Calls, call[c].state = "failed",
                      call[c].op = "complete", NEW i \in 1 .. Len(Chain[call[c].task])
               PROVE  Chain[call[c].task][i] \notin Reliable \ Unusable
    BY DEF ReliableAnswers
  <2>1. call[c] # Idle BY DEF Idle
  <2> QED BY <2>1 DEF Inv, NotPassed, Good
<1> QED BY <1>1, Invariance, PTL

\* For every adapter but GigaChat's the errors of a wrong request are not ones
\* the retry loop repeats.
LEMMA WrongIsNotTransient ==
  ASSUME NEW p \in Providers, Kind[p] # "gigachat", NEW f \in WrongRequest,
         NEW e \in Raised(Kind[p], "complete", f)
  PROVE  e \notin Transient
<1>1. Kind[p] \in Kinds BY RouterAssumption
<1>2. f \in {"unauthorized", "badRequest", "tooLong"} BY DEF WrongRequest
<1>3. CASE Kind[p] \in {"claude", "openai", "deepseek"}
  <2>1. e \in Claude(f) BY <1>2, <1>3 DEF Raised, Completion, OpenAI, DeepSeek
  <2> QED BY <2>1, <1>2 DEF Claude, Transient
<1>4. CASE Kind[p] = "gemini" BY <1>2, <1>4 DEF Raised, Completion, Gemini, Transient
<1>5. CASE Kind[p] = "yandexgpt" BY <1>2, <1>5 DEF Raised, Completion, YandexGPT,
             Transient
<1> QED BY <1>1, <1>3, <1>4, <1>5 DEF Kinds

\* Whatever adapter is first in a chain, but GigaChat's, a request that was
\* itself wrong is not sent again (providers/*.py, LLMRouter._retry_with_backoff).
THEOREM WrongRequestsEnd == Spec => []WrongRequestIsNotRepeated
<1>1. Init => WrongRequestIsNotRepeated BY DEF Init, Idle, WrongRequestIsNotRepeated
<1>2. Inv /\ WrongRequestIsNotRepeated /\ [Next]_vars => WrongRequestIsNotRepeated'
  <2> SUFFICES ASSUME Inv, WrongRequestIsNotRepeated, [Next]_vars, NEW c \in Calls,
                      call'[c].state = "sleeping", Kind[Asked(call'[c])] # "gigachat"
               PROVE  ~call'[c].wrong
    BY DEF WrongRequestIsNotRepeated, Asked, ChainOf
  <2>1. CASE call'[c] = call[c] BY <2>1 DEF WrongRequestIsNotRepeated
  <2>2. CASE Tick \/ UNCHANGED vars BY <2>1, <2>2 DEF Tick, vars
  <2>3. ASSUME NEW d \in Calls, NEW op \in Operations, NEW t \in Tasks, Begin(d,
                 op, t)
        PROVE  ~call'[c].wrong
    <3>1. d # c => call'[c] = call[c] BY <2>3 DEF Begin, Inv, TypeOK
    <3>2. d = c => call'[c].state = "choosing" BY <2>3 DEF Begin, Started, Inv, TypeOK
    <3> QED BY <2>1, <3>1, <3>2
  <2>4. ASSUME NEW d \in Calls, d # c, Proceed(d) PROVE ~call'[c].wrong
    <3>1. call'[c] = call[c]
      BY <2>4 DEF Inv, TypeOK, Proceed, Choose, Refuse, GiveUp, Wake, Return,
                  ReturnInVain, Retry, Fail
    <3> QED BY <3>1, <2>1
  <2>5. ASSUME NEW f \in Faults, Retry(c, f) PROVE ~call'[c].wrong
    <3>1. call[c] \in Call BY <2>5, BusyCall DEF Retry, Inv
    <3>2. /\ call'[c].wrong = (f \in WrongRequest)
          /\ call'[c].at = call[c].at /\ call'[c].op = call[c].op
          /\ call'[c].task = call[c].task
      BY <2>5, <3>1 DEF Retry, Inv, TypeOK, Call
    <3>3. Asked(call'[c]) = Asked(call[c]) BY <3>2 DEF Asked, ChainOf
    <3>4. Asked(call[c]) \in Providers
      BY <2>5, <3>1, AskedType DEF Asked, Inv, InChain, Retry
    <3>5. PICK e \in Raised(Kind[Asked(call[c])], "complete", f) : e \in Transient
      BY <2>5 DEF Retry, Retried
    <3> QED BY <3>2, <3>3, <3>4, <3>5, WrongIsNotTransient
  <2>6. ASSUME Proceed(c), ~\E f \in Faults : Retry(c, f) PROVE ~call'[c].wrong
    <3>1. call'[c].state # "sleeping"
      <4>1. CASE Wake(c) \/ Choose(c)
        <5>1. call[c] \in Call BY <4>1, BusyCall DEF Wake, Choose, Inv
        <5> QED BY <4>1, <5>1 DEF Wake, Choose, Inv, TypeOK, Call
      <4>2. CASE Refuse(c)
        <5>1. call[c] \in Call BY <4>2, BusyCall DEF Refuse, Inv
        <5> QED BY <4>2, <5>1 DEF Refuse, Inv, TypeOK, Call
      <4>3. CASE GiveUp(c) BY <4>3 DEF GiveUp, Started, Inv, TypeOK
      <4>4. CASE Return(c) BY <4>4 DEF Return, Idle, Inv, TypeOK
      <4>5. CASE ReturnInVain(c)
        <5>1. call[c] \in Call BY <4>5, BusyCall DEF ReturnInVain, Inv
        <5> QED BY <4>5, <5>1 DEF ReturnInVain, Inv, TypeOK, Call
      <4>6. ASSUME NEW f \in Faults, Fail(c, f) PROVE call'[c].state # "sleeping"
        <5>1. call[c] \in Call BY <4>6, BusyCall DEF Fail, Inv
        <5> QED BY <4>6, <5>1 DEF Fail, Inv, TypeOK, Call
      <4> QED BY <2>6, <4>1, <4>2, <4>3, <4>4, <4>5, <4>6 DEF Proceed
    <3> QED BY <3>1
  <2> QED BY <2>2, <2>3, <2>4, <2>5, <2>6 DEF Next
<1> QED BY <1>1, <1>2, Invariance, PTL DEF Spec

-----------------------------------------------------------------------------
(* The estimates of Qualification.  What is kept in Redis and what a       *)
(* request has found are estimates of one kind, fair to "input": that is   *)
(* why it does no harm that they overtake each other and outlive a day.    *)

\* An estimate: its score is one of 0 to 100, and its tier is that of its score
\* unless no model could be asked.
Estimate ==
  [by : {"rules", "model"}, eligible : BOOLEAN, review : BOOLEAN, gap : {"none",
    "costs", "months"},
   score : 0 .. 100, tier : {"hot", "warm", "cold", "disqualified"}, hours : Nat]

\* What may be said of the input, and to whom a response can be given.
FairEstimate(a) ==
  /\ a \in Estimate
  /\ a.eligible => input.debt >= 25
  /\ a.eligible => a.by = "model" \/ a.review
  /\ calm => a.gap = "none"

FairState(q) ==
  \/ q.state \in {"idle", "missed"}
  \/ q.state = "failed" /\ ~calm
  \/ q.state \in {"found", "served"} /\ FairEstimate(q.answer)

QualifyInv ==
  /\ input \in Inputs /\ DOMAIN asking = Requests
  /\ \A r \in Requests : FairState(asking[r])
  /\ cached # NoAnswer => FairEstimate(cached)

\* A score is clamped between 0 and 100, its points being whole numbers.
LEMMA ScoreType ==
  ASSUME NEW i \in Inputs, NEW j
  PROVE  Score(i, j) \in 0 .. 100
<1>1. i.debt \in Int /\ i.creditors \in Int BY QualifyAssumption
<1>2. RiskPoints(j) \in {15, 5, -10, 0} BY DEF RiskPoints
<1> DEFINE n == 40 + DebtPoints(i) + Points(j.sure, 10) + RiskPoints(j)
    + Points(i.enforced, 10) + Points(~i.property, 5)
    - Points(i.transactions, 15) - Points(i.creditors > 10, 5)
<1>3. n \in Int BY <1>1, <1>2 DEF DebtPoints, Points
<1>4. Score(i, j) = Clamped(n) BY DEF Score
<1> HIDE DEF n
<1> QED BY <1>3, <1>4 DEF Clamped

\* Says(a, by, j): estimate a is by the given author and repeats judgement j.
Says(a, by, j) ==
  /\ a \in Estimate
  /\ a.by = by /\ a.gap = j.gap
  /\ a.eligible <=> j.eligible
  /\ a.review <=> j.review

\* An answer is an estimate that repeats the judgement.
LEMMA AnswerType ==
  ASSUME NEW by \in {"rules", "model"}, NEW j \in Judgement,
         NEW s \in 0 .. 100, NEW t \in {"hot", "warm", "cold", "disqualified"}
  PROVE  Says(Answer(by, j, s, t), by, j)
<1>1. Hours(t) \in Nat BY DEF Hours
<1> QED BY <1>1 DEF Answer, Estimate, Says, Judgement

\* So is what is made of a judgement by the rules of the score.
LEMMA RatedType ==
  ASSUME NEW by \in {"rules", "model"}, input \in Inputs, NEW j \in Judgement
  PROVE  Says(Rated(by, j), by, j)
<1>1. CASE ~j.eligible
  <2>1. Rated(by, j) = Answer(by, j, 0, "disqualified") BY <1>1 DEF Rated
  <2> QED BY <2>1, AnswerType
<1>2. CASE j.eligible
  <2>1. Score(input, j) \in 0 .. 100 BY ScoreType
  <2>2. Tier(Score(input, j)) \in {"hot", "warm", "cold", "disqualified"} BY DEF Tier
  <2>3. Rated(by, j) = Answer(by, j, Score(input, j), Tier(Score(input, j)))
    BY <1>2 DEF Rated
  <2> QED BY <2>1, <2>2, <2>3, AnswerType
<1> QED BY <1>1, <1>2

\* What is answered without a model is fair.
LEMMA RulesAreFair ==
  ASSUME input \in Inputs
  PROVE  /\ FairEstimate(Rated("rules", Refusal))
         /\ PreScreened(input) =>
              /\ FairEstimate(Rated("rules", Fallback))
              /\ FairEstimate(Answer("rules", Fallback, 0, "cold"))
<1>1. Refusal \in Judgement /\ ~Refusal.eligible /\ Refusal.gap = "none"
  <2>1. Refusal \in Judgement BY DEF Refusal, Judgement
  <2>2. Refusal.eligible = FALSE /\ Refusal.gap = "none" BY DEF Refusal
  <2> QED BY <2>1, <2>2
<1>2. Fallback \in Judgement /\ Fallback.review /\ Fallback.gap = "none"
  <2>1. Fallback \in Judgement BY DEF Fallback, Judgement
  <2>2. Fallback.review = TRUE /\ Fallback.gap = "none" BY DEF Fallback
  <2> QED BY <2>1, <2>2
<1>3. ASSUME NEW a, Says(a, "rules", Refusal) PROVE FairEstimate(a)
  <2>1. a \in Estimate /\ ~a.eligible /\ a.gap = "none" BY <1>1, <1>3 DEF Says
  <2> QED BY <2>1 DEF FairEstimate
<1>4. ASSUME NEW a, PreScreened(input), Says(a, "rules", Fallback)
      PROVE  FairEstimate(a)
  <2>1. a \in Estimate /\ a.review /\ a.gap = "none" BY <1>2, <1>4 DEF Says
  <2>2. input.debt >= 25 BY <1>4 DEF PreScreened
  <2> QED BY <2>1, <2>2 DEF FairEstimate
<1>5. Says(Rated("rules", Refusal), "rules", Refusal) BY <1>1, RatedType
<1>6. Says(Rated("rules", Fallback), "rules", Fallback) BY <1>2, RatedType
<1>7. Says(Answer("rules", Fallback, 0, "cold"), "rules", Fallback) BY <1>2,
        AnswerType
<1> QED BY <1>3, <1>4, <1>5, <1>6, <1>7

\* While models send what was asked for or fail, the first call that does not
\* lead on to another model brings an answer.
LEMMA CalmEndsAnswer ==
  ASSUME calm, NEW outcome \in [configured -> Outcomes], NEW i \in Ends(outcome)
  PROVE  outcome[Models[i]] = "answer"
BY DEF Ends, Outcomes, FallsThrough

\* A request that changes to a fair state, nothing else being written, leaves
\* everything fair.
LEMMA FairChange ==
  ASSUME QualifyInv, NEW r \in Requests, NEW q, FairState(q),
         asking' = [asking EXCEPT ![r] = q],
         UNCHANGED <<input, calm>>,
         cached' = cached \/ (cached' # NoAnswer => FairEstimate(cached'))
  PROVE  QualifyInv'
<1>1. /\ input' \in Inputs /\ DOMAIN asking' = Requests
      /\ \A k \in Requests : asking'[k] = asking[k] \/ asking'[k] = q
  BY DEF QualifyInv
<1>2. ASSUME NEW k \in Requests PROVE FairState(asking[k])'
  BY <1>1 DEF QualifyInv, FairState, FairEstimate
<1>3. cached' # NoAnswer => FairEstimate(cached)'
  BY DEF QualifyInv, FairEstimate
<1> QED BY <1>1, <1>2, <1>3 DEF QualifyInv

\* What Redis or a request has found is delivered, or the request fails when
\* no response can be made of it, which calm rules out.
LEMMA DeliveredIsFair ==
  ASSUME NEW a, FairEstimate(a) PROVE FairState(Delivered(a))
BY DEF Delivered, FairState, FairEstimate, Failed

\* Every step keeps the estimates fair.
LEMMA QualifyStep ==
  ASSUME QualifyInv, [QualifyNext]_qualifyVars PROVE QualifyInv'
<1> USE DEF qualifyVars
<1>0. input \in Inputs BY DEF QualifyInv
<1>1. ASSUME NEW r \in Requests, NEW a, Found(r, a), FairEstimate(a) PROVE QualifyInv'
  <2>1. FairState([state |-> "found", answer |-> a]) BY <1>1 DEF FairState
  <2> QED BY <1>1, <2>1, FairChange DEF Found
<1>2. ASSUME NEW r \in Requests, FailRequest(r), ~calm PROVE QualifyInv'
  <2>1. FairState(Failed) BY <1>2 DEF FairState, Failed
  <2> QED BY <1>2, <2>1, FairChange DEF FailRequest
<1>3. ASSUME NEW r \in Requests, Lookup(r) PROVE QualifyInv'
  <2>1. CASE cached # NoAnswer
    <3>1. FairState(Delivered(cached)) BY <2>1, DeliveredIsFair DEF QualifyInv
    <3> QED BY <1>3, <2>1, <3>1, FairChange DEF Lookup
  <2>2. CASE cached = NoAnswer
    <3>1. FairState([state |-> "missed"]) BY DEF FairState
    <3> QED BY <1>3, <2>2, <3>1, FairChange DEF Lookup
  <2> QED BY <2>1, <2>2
<1>4. ASSUME NEW r \in Requests, RefuseSmall(r) PROVE QualifyInv'
  BY <1>0, <1>1, <1>4, RulesAreFair DEF RefuseSmall
<1>5. ASSUME NEW r \in Requests, Unconfigured(r) PROVE QualifyInv'
  BY <1>0, <1>1, <1>5, RulesAreFair DEF Unconfigured
<1>6. ASSUME NEW r \in Requests, AskModels(r) PROVE QualifyInv'
  <2>1. PICK outcome \in [configured -> Outcomes] :
       \/ Ends(outcome) = {} /\ Found(r, Rated("rules", Fallback))
       \/ \E i \in Ends(outcome) :
            \/ outcome[Models[i]] # "answer" /\ FailRequest(r)
            \/ /\ outcome[Models[i]] = "answer"
               /\ \E j \in Judgements : (calm => j.gap = "none") /\ Briefed(r, j)
    BY <1>6 DEF AskModels
  <2>2. PreScreened(input) BY <1>6 DEF AskModels
  <2>3. CASE Found(r, Rated("rules", Fallback)) BY <1>0, <1>1, <2>2, <2>3,
               RulesAreFair
  <2>4. CASE \E i \in Ends(outcome) : outcome[Models[i]] # "answer" /\ FailRequest(r)
    <3>1. ~calm BY <2>4, CalmEndsAnswer
    <3> QED BY <1>2, <2>4, <3>1
  <2>5. ASSUME NEW j \in Judgements, calm => j.gap = "none", Briefed(r, j)
        PROVE  QualifyInv'
    <3>1. CASE j.eligible /\ j.gap = "costs"
      <4>1. ~calm BY <2>5, <3>1
      <4> QED BY <1>2, <2>5, <3>1, <4>1 DEF Briefed
    <3>2. CASE ~(j.eligible /\ j.gap = "costs")
      <4>1. Says(Rated("model", j), "model", j) BY <1>0, RatedType, QualifyAssumption
      <4>2. FairEstimate(Rated("model", j))
        BY <2>2, <2>5, <4>1 DEF FairEstimate, PreScreened, Says
      <4>3. Found(r, Rated("model", j)) BY <2>5, <3>2 DEF Briefed
      <4> QED BY <1>1, <4>2, <4>3
    <3> QED BY <3>1, <3>2
  <2> QED BY <2>1, <2>3, <2>4, <2>5
<1>7. ASSUME NEW r \in Requests, Store(r) PROVE QualifyInv'
  <2>1. FairEstimate(asking[r].answer) BY <1>7 DEF Store, QualifyInv, FairState
  <2>2. FairState(Delivered(asking[r].answer)) BY <2>1, DeliveredIsFair
  <2>3. FairEstimate(cached') BY <1>7, <2>1 DEF Store
  <2> QED BY <1>7, <2>2, <2>3, FairChange DEF Store
<1>8. ASSUME Expire PROVE QualifyInv'
  BY <1>8 DEF Expire, QualifyInv, FairState, FairEstimate
<1>9. ASSUME NEW r \in Requests, RedisFails(r) PROVE QualifyInv'
  BY <1>2, <1>9 DEF RedisFails
<1>10. CASE UNCHANGED qualifyVars
  BY <1>10 DEF QualifyInv, FairState, FairEstimate
<1> QED BY <1>3, <1>4, <1>5, <1>6, <1>7, <1>8, <1>9, <1>10 DEF QualifyNext

\* Whatever models answer and requests overtake each other, what is found, kept
\* and delivered are estimates that may be given to this person.
THEOREM QualifyInvariance == QualifySpec => []QualifyInv
<1>1. QualifyInit => QualifyInv
  BY DEF QualifyInit, QualifyInv, FairState, NotAsking
<1>2. QualifyInv /\ [QualifyNext]_qualifyVars => QualifyInv' BY QualifyStep
<1> QED BY <1>1, <1>2, PTL DEF QualifySpec

\* As long as models send what was asked for or fail and Redis works, no request
\* for an estimate fails, whichever models are out of order.
THEOREM OutagesAreAnswered == QualifySpec => []OutageIsAnswered
<1>1. QualifyInv => OutageIsAnswered BY DEF QualifyInv, FairState, OutageIsAnswered
<1> QED BY <1>1, QualifyInvariance, PTL

-----------------------------------------------------------------------------
(* The scores.                                                             *)

\* The sum of points that is clamped to be the score.
RawScore(i, j) ==
  40 + DebtPoints(i) + Points(j.sure, 10) + RiskPoints(j)
    + Points(i.enforced, 10) + Points(~i.property, 5)
    - Points(i.transactions, 15) - Points(i.creditors > 10, 5)

\* Points are whole numbers, and clamping keeps their order.
LEMMA RawScoreType ==
  ASSUME NEW i \in Inputs, NEW j
  PROVE  RawScore(i, j) \in Int /\ Score(i, j) = Clamped(RawScore(i, j))
<1>1. i.debt \in Int /\ i.creditors \in Int BY QualifyAssumption
<1>2. RiskPoints(j) \in {15, 5, -10, 0} BY DEF RiskPoints
<1> QED BY <1>1, <1>2 DEF DebtPoints, Points, RawScore, Score

\* Clamping a score to 0 .. 100 keeps the order of scores.
LEMMA ClampedMonotone ==
  ASSUME NEW m \in Int, NEW n \in Int, m <= n PROVE Clamped(m) <= Clamped(n)
BY DEF Clamped

\* Nobody scores less for being better placed.
LEMMA BetterPlaced ==
  ASSUME NEW i \in Inputs, NEW k \in Inputs, NEW j \in Judgements, NotBetter(i, k)
  PROVE  Score(i, j) <= Score(k, j)
<1>1. /\ i.debt \in Int /\ i.creditors \in Int /\ k.debt \in Int
           /\ k.creditors \in Int
      /\ i.enforced \in BOOLEAN /\ i.property \in BOOLEAN
           /\ i.transactions \in BOOLEAN
      /\ k.enforced \in BOOLEAN /\ k.property \in BOOLEAN
           /\ k.transactions \in BOOLEAN
  BY QualifyAssumption DEF Judgement
<1>2. RiskPoints(j) \in {15, 5, -10, 0} /\ Points(j.sure, 10) \in {0, 10}
  BY DEF RiskPoints, Points
<1>3. DebtPoints(i) <= DebtPoints(k) /\ DebtPoints(i) \in Int /\ DebtPoints(k) \in Int
  BY <1>1 DEF NotBetter, DebtPoints, Points
<1>4. /\ Points(i.enforced, 10) <= Points(k.enforced, 10)
      /\ Points(~i.property, 5) <= Points(~k.property, 5)
      /\ Points(i.transactions, 15) >= Points(k.transactions, 15)
      /\ Points(i.creditors > 10, 5) >= Points(k.creditors > 10, 5)
  BY <1>1 DEF NotBetter, Points
<1>5. ASSUME NEW p \in Inputs
      PROVE  /\ Points(p.enforced, 10) \in Int /\ Points(~p.property, 5) \in Int
             /\ Points(p.transactions, 15) \in Int /\ Points(p.creditors > 10,
                  5) \in Int
  BY DEF Points
<1>6. RawScore(i, j) <= RawScore(k, j) BY <1>2, <1>3, <1>4, <1>5 DEF RawScore
<1> QED BY <1>6, RawScoreType, ClampedMonotone

\* Nobody scores less for less risk or a surer judgement.
LEMMA BetterJudged ==
  ASSUME NEW i \in Inputs, NEW j \in Judgements, NEW l \in Judgements,
         {j.risk, l.risk} \subseteq DOMAIN Risks, Risks[j.risk] <= Risks[l.risk],
         j.sure => l.sure
  PROVE  Score(i, j) <= Score(i, l)
<1>1. RiskPoints(j) <= RiskPoints(l) /\ RiskPoints(j) \in Int /\ RiskPoints(l) \in Int
  BY DEF Risks, RiskPoints
<1>2. Points(j.sure, 10) <= Points(l.sure, 10) /\ Points(j.sure, 10) \in Int
      /\ Points(l.sure, 10) \in Int
  BY DEF Points
<1>3. i.debt \in Int /\ i.creditors \in Int BY QualifyAssumption
<1>4. RawScore(i, j) <= RawScore(i, l) BY <1>1, <1>2, <1>3 DEF RawScore, Points,
        DebtPoints
<1> QED BY <1>4, RawScoreType, ClampedMonotone

\* Nobody with more points is called later.
LEMMA TierMonotone ==
  ASSUME NEW m \in Int, NEW n \in Int, m <= n PROVE Ranks[Tier(m)] <= Ranks[Tier(n)]
BY DEF Ranks, Tier

\* 100 points are exactly those of whom everything speaks for.
LEMMA FullScore ==
  ASSUME NEW i \in Inputs, NEW j \in Judgements
  PROVE  (Score(i, j) = 100) =
           (/\ i.debt >= 1000 /\ i.creditors <= 10 /\ i.enforced
            /\ ~i.property /\ ~i.transactions /\ j.risk = "low" /\ j.sure)
<1>1. /\ i.debt \in Int /\ i.creditors \in Int
      /\ i.enforced \in BOOLEAN /\ i.property \in BOOLEAN
           /\ i.transactions \in BOOLEAN
      /\ j.sure \in BOOLEAN
  BY QualifyAssumption DEF Judgement
<1>2. /\ RiskPoints(j) \in {15, 5, -10, 0}
      /\ RiskPoints(j) = 15 <=> j.risk = "low"
  BY DEF RiskPoints
<1>3. DebtPoints(i) \in {0, 15, 20} /\ (DebtPoints(i) = 20 <=> i.debt >= 1000)
  BY <1>1 DEF DebtPoints, Points
<1>4. Score(i, j) = 100 <=> RawScore(i, j) >= 100 BY RawScoreType DEF Clamped
<1>5. RawScore(i, j) >= 100 <=>
           (/\ i.debt >= 1000 /\ i.creditors <= 10 /\ i.enforced
            /\ ~i.property /\ ~i.transactions /\ j.risk = "low" /\ j.sure)
  BY <1>1, <1>2, <1>3 DEF RawScore, Points
<1> QED BY <1>4, <1>5

\* The score is fair for every input and all judgements.
LEMMA ScoresAreFair ==
  ASSUME input \in Inputs PROVE ScoreIsFair
<1>1. ASSUME NEW k \in Inputs, NotBetter(input, k), NEW j \in Judgements
      PROVE  Score(input, j) <= Score(k, j)
  BY <1>1, BetterPlaced
<1>2. ASSUME NEW j \in Judgements, NEW l \in Judgements,
             {j.risk, l.risk} \subseteq DOMAIN Risks, Risks[j.risk] <= Risks[l.risk],
             j.sure => l.sure
      PROVE  /\ Score(input, j) <= Score(input, l)
             /\ Ranks[Tier(Score(input, j))] <= Ranks[Tier(Score(input, l))]
  <2>1. Score(input, j) <= Score(input, l) BY <1>2, BetterJudged
  <2>2. Score(input, j) \in Int /\ Score(input, l) \in Int BY ScoreType
  <2> QED BY <2>1, <2>2, TierMonotone
<1>3. ASSUME NEW j \in Judgements
      PROVE  (Score(input, j) = 100) =
           (/\ input.debt >= 1000 /\ input.creditors <= 10 /\ input.enforced
            /\ ~input.property /\ ~input.transactions /\ j.risk = "low" /\ j.sure)
  BY FullScore
<1> QED BY <1>1, <1>2, <1>3 DEF ScoreIsFair

\* Nobody is promised a discharge that is impossible, and nobody is called later
\* than who is worse placed, for every debt, any number of requests and whatever
\* the models say.
THEOREM EstimatesStayFair == QualifySpec => []EstimatesAreFair
<1>1. QualifyInv => EstimatesAreFair
  <2> SUFFICES ASSUME QualifyInv PROVE EstimatesAreFair OBVIOUS
  <2>1. ScoreIsFair BY ScoresAreFair DEF QualifyInv
  <2>2. ASSUME NEW a \in Answers PROVE FairEstimate(a)
    BY DEF Answers, QualifyInv, FairState
  <2>3. SmallDebtsAreRefused BY <2>2 DEF SmallDebtsAreRefused, FairEstimate
  <2> QED BY <2>1, <2>3 DEF EstimatesAreFair
<1> QED BY <1>1, QualifyInvariance, PTL

-----------------------------------------------------------------------------
(* The bot.  Telegram's offset lies behind the loop's, and what lies       *)
(* between them is repeated by a restart; the messages of a dialogue are   *)
(* those texts of the chat that follow the button.                         *)

Update == [chat : Chats, kind : UpdateKinds]

Session == [state : {"idle", "qualifying", "client"}, messages : Seq(Nat)]

\* How far the loop is, and how often it has been there.
LoopInv ==
  /\ updates \in Seq(Update)
  /\ confirmed \in Nat /\ offset \in Nat /\ fetched \in Nat /\ restarts \in Nat
  /\ confirmed <= offset /\ offset <= fetched /\ fetched <= Len(updates)
  /\ Len(updates) <= MaxUpdates
  /\ handled \in [1 .. MaxUpdates -> Nat]
  /\ \A u \in 1 .. MaxUpdates : u <= offset => handled[u] > 0
  /\ \A u \in 1 .. MaxUpdates :
       handled[u] <= IF u <= offset THEN restarts + 1 ELSE restarts

\* The texts of chat c among the first n updates us since the button was last
\* pressed.
TextsSince(us, n, c) ==
  {u \in 1 .. n : us[u].chat = c /\ us[u].kind = "text" /\
     \A v \in u .. n : us[v].chat = c => us[v].kind # "start_qualification"}

\* m is what is sent to the model for chat c.
Dialogue(m, us, n, c) ==
  /\ m \in Seq(1 .. n) /\ m # << >>
  /\ \A i, k \in 1 .. Len(m) : i < k => m[i] < m[k]
  /\ {m[i] : i \in 2 .. Len(m)} = TextsSince(us, n, c)
  /\ us[m[1]].kind = "start_qualification"

BotInv ==
  /\ LoopInv
  /\ session \in [Chats -> Session \cup {NoSession}]
  /\ \A c \in Chats : session[c] # NoSession /\ session[c].state = "qualifying" =>
       Dialogue(session[c].messages, updates, offset, c)

\* Whatever is handled, the loop has gone on by one.
LEMMA HandledTurns ==
  ASSUME Handle PROVE \E raised \in BOOLEAN : offset < fetched /\ Turns(raised)
<1> USE DEF Is, Text
<1>1. PICK raised \in BOOLEAN :
    \/ HandleStart(raised) \/ AskQuestion(raised) \/ CheckStatus(raised)
    \/ OnlyAnswer(raised) \/ StartQualification(raised) \/ Continue(raised)
  BY DEF Handle
<1>2. CASE HandleStart(raised) BY <1>2 DEF HandleStart
<1>3. CASE AskQuestion(raised) BY <1>3 DEF AskQuestion
<1>4. CASE CheckStatus(raised) BY <1>4 DEF CheckStatus
<1>5. CASE OnlyAnswer(raised) BY <1>5 DEF OnlyAnswer
<1>6. CASE StartQualification(raised)
  BY <1>6 DEF StartQualification, ProcessQualification, GoesOn, Qualified
<1>7. CASE Continue(raised)
  BY <1>7 DEF Continue, ProcessQualification, GoesOn, Qualified
<1> QED BY <1>1, <1>2, <1>3, <1>4, <1>5, <1>6, <1>7

\* The loop, its offsets and its counts.
LEMMA LoopStep ==
  ASSUME LoopInv, [BotNext]_botVars PROVE LoopInv'
<1> USE BotAssumption DEF LoopInv
<1>1. ASSUME NEW c \in Chats, NEW k \in UpdateKinds, Send(c, k) PROVE LoopInv'
  <2>1. [chat |-> c, kind |-> k] \in Update BY DEF Update
  <2>2. updates' \in Seq(Update) /\ Len(updates') = Len(updates) + 1 BY <1>1,
          <2>1 DEF Send
  <2> QED BY <1>1, <2>2 DEF Send
<1>2. ASSUME Poll PROVE LoopInv' BY <1>2 DEF Poll, ConfirmedBy
<1>3. ASSUME Restart PROVE LoopInv' BY <1>3 DEF Restart
<1>4. ASSUME Handle PROVE LoopInv'
  <2>1. PICK raised \in BOOLEAN : offset < fetched /\ Turns(raised) BY <1>4,
          HandledTurns
  <2>2. /\ offset' = offset + 1 /\ fetched' \in {offset', fetched}
        /\ handled' = [handled EXCEPT ![offset + 1] = @ + 1]
        /\ UNCHANGED <<updates, confirmed, restarts>>
    BY <2>1 DEF Turns, Advanced
  <2>3. offset + 1 \in 1 .. MaxUpdates BY <2>1
  <2>4. /\ handled' \in [1 .. MaxUpdates -> Nat]
        /\ handled'[offset + 1] = handled[offset + 1] + 1
        /\ \A u \in 1 .. MaxUpdates : u # offset + 1 => handled'[u] = handled[u]
    BY <2>2, <2>3
  <2>5. ASSUME NEW u \in 1 .. MaxUpdates
        PROVE  /\ u <= offset' => handled'[u] > 0
               /\ handled'[u] <= IF u <= offset' THEN restarts' + 1 ELSE restarts'
    <3>1. CASE u = offset + 1 BY <2>2, <2>3, <2>4, <3>1
    <3>2. CASE u # offset + 1 BY <2>2, <2>4, <3>2
    <3> QED BY <3>1, <3>2
  <2>6. confirmed' <= offset' /\ offset' <= fetched' /\ fetched' <= Len(updates')
    BY <2>1, <2>2
  <2> QED BY <2>2, <2>4, <2>5, <2>6
<1>5. CASE UNCHANGED botVars BY <1>5 DEF botVars
<1> QED BY <1>1, <1>2, <1>3, <1>4, <1>5 DEF BotNext

\* What the next update does to the texts of chat c.
LEMMA NextText ==
  ASSUME NEW us, NEW n \in Nat, NEW c
  PROVE  LET u == us[n + 1] IN
         /\ u.chat # c \/ u.kind \notin {"text", "start_qualification"} =>
              TextsSince(us, n + 1, c) = TextsSince(us, n, c)
         /\ u.chat = c /\ u.kind = "text" =>
              TextsSince(us, n + 1, c) = TextsSince(us, n, c) \cup {n + 1}
         /\ u.chat = c /\ u.kind = "start_qualification" =>
              TextsSince(us, n + 1, c) = {}
<1> DEFINE u == us[n + 1]
           Quiet(v) == us[v].chat = c => us[v].kind # "start_qualification"
<1>1. TextsSince(us, n + 1, c) \subseteq TextsSince(us, n, c) \cup {n + 1}
  BY DEF TextsSince
<1>2. n + 1 \in TextsSince(us, n + 1, c) <=> u.chat = c /\ u.kind = "text"
  BY DEF TextsSince
<1>3. ~Quiet(n + 1) => TextsSince(us, n + 1, c) = {}
  BY DEF TextsSince
<1>4. Quiet(n + 1) => TextsSince(us, n, c) \subseteq TextsSince(us, n + 1, c)
  <2> SUFFICES ASSUME Quiet(n + 1), NEW w \in TextsSince(us, n, c)
               PROVE  w \in TextsSince(us, n + 1, c)
    OBVIOUS
  <2>1. w \in 1 .. n /\ us[w].chat = c /\ us[w].kind = "text"
    BY DEF TextsSince
  <2>2. \A v \in w .. n : Quiet(v) BY DEF TextsSince
  <2>3. \A v \in w .. (n + 1) : Quiet(v)
    <3> TAKE v \in w .. (n + 1)
    <3>1. v \in w .. n \/ v = n + 1 BY <2>1
    <3> QED BY <3>1, <2>2
  <2> QED BY <2>1, <2>3 DEF TextsSince
<1>5. n + 1 \notin TextsSince(us, n, c) BY DEF TextsSince
<1> QED BY <1>1, <1>2, <1>3, <1>4, <1>5

\* A dialogue goes on with every text.
LEMMA DialogueGoesOn ==
  ASSUME NEW us, NEW n \in Nat, NEW c, NEW m, Dialogue(m, us, n, c),
         us[n + 1].chat = c, us[n + 1].kind = "text"
  PROVE  Dialogue(Append(m, n + 1), us, n + 1, c)
<1> DEFINE w == Append(m, n + 1)
<1>1. /\ m \in Seq(1 .. n) /\ Len(m) \in Nat \ {0}
      /\ \A i \in 1 .. Len(m) : m[i] \in 1 .. n
  BY DEF Dialogue
<1>2. m \in Seq(1 .. n + 1) BY <1>1, SeqDef DEF Dialogue
<1>3. /\ w \in Seq(1 .. n + 1) /\ w # << >> /\ Len(w) = Len(m) + 1
      /\ w[Len(m) + 1] = n + 1 /\ \A i \in 1 .. Len(m) : w[i] = m[i]
  BY <1>1, <1>2
<1> HIDE DEF w
<1>4. ASSUME NEW i \in 1 .. Len(w), NEW k \in 1 .. Len(w), i < k PROVE w[i] < w[k]
  <2>1. i \in 1 .. Len(m) BY <1>1, <1>3, <1>4
  <2>2. CASE k \in 1 .. Len(m) BY <1>3, <1>4, <2>1, <2>2 DEF Dialogue
  <2>3. CASE k = Len(m) + 1
    <3>1. m[i] \in 1 .. n /\ w[i] = m[i] BY <1>1, <1>3, <2>1
    <3>2. w[k] = n + 1 BY <1>3, <2>3
    <3> QED BY <3>1, <3>2
  <2> QED BY <1>1, <1>3, <2>2, <2>3
<1>5. {w[i] : i \in 2 .. Len(w)} = {m[i] : i \in 2 .. Len(m)} \cup {n + 1}
  <2>1. \A i \in 2 .. Len(w) : i \in 2 .. Len(m) \/ i = Len(m) + 1 BY <1>1, <1>3
  <2>2. \A i \in 2 .. Len(m) : i \in 2 .. Len(w) /\ i \in 1 .. Len(m) BY <1>1, <1>3
  <2>3. Len(m) + 1 \in 2 .. Len(w) BY <1>1, <1>3
  <2> QED BY <1>3, <2>1, <2>2, <2>3
<1>6. TextsSince(us, n + 1, c) = TextsSince(us, n, c) \cup {n + 1} BY NextText
<1>7. w[1] = m[1] BY <1>1, <1>3
<1>8. Dialogue(w, us, n + 1, c) BY <1>3, <1>4, <1>5, <1>6, <1>7 DEF Dialogue
<1> QED BY <1>8 DEF w

\* It begins with the button, and nothing but texts and the button concern it.
LEMMA DialogueBegins ==
  ASSUME NEW us, NEW n \in Nat, NEW c,
         us[n + 1].chat = c, us[n + 1].kind = "start_qualification"
  PROVE  Dialogue(Append(<< >>, n + 1), us, n + 1, c)
<1>1. Append(<< >>, n + 1) = <<n + 1>> OBVIOUS
<1>2. <<n + 1>> \in Seq(1 .. n + 1) /\ Len(<<n + 1>>) = 1 /\ <<n + 1>>[1] = n + 1
  OBVIOUS
<1>3. TextsSince(us, n + 1, c) = {} BY NextText
<1>4. {<<n + 1>>[i] : i \in 2 .. 1} = {} OBVIOUS
<1>5. \A i, k \in 1 .. 1 : ~(i < k) OBVIOUS
<1> QED BY <1>1, <1>2, <1>3, <1>4, <1>5 DEF Dialogue

\* An update that is no answer of chat c leaves its dialogue as it is.
LEMMA DialogueRests ==
  ASSUME NEW us, NEW n \in Nat, NEW c, NEW m, Dialogue(m, us, n, c),
         us[n + 1].chat # c \/ us[n + 1].kind \notin {"text", "start_qualification"}
  PROVE  Dialogue(m, us, n + 1, c)
<1>1. TextsSince(us, n + 1, c) = TextsSince(us, n, c) BY NextText
<1>2. m \in Seq(1 .. n) BY DEF Dialogue
<1>3. m \in Seq(1 .. n + 1) BY <1>2, SeqDef
<1> QED BY <1>1, <1>3 DEF Dialogue

\* A dialogue depends only on the updates it was made from.
LEMMA DialogueStays ==
  ASSUME NEW us, NEW n \in Nat, NEW c, NEW m, Dialogue(m, us, n, c),
         NEW vs, \A u \in 1 .. n : vs[u] = us[u]
  PROVE  Dialogue(m, vs, n, c)
<1>1. TextsSince(vs, n, c) = TextsSince(us, n, c) BY DEF TextsSince
<1>2. m[1] \in 1 .. n
  <2>1. m \in Seq(1 .. n) /\ 1 \in 1 .. Len(m) BY DEF Dialogue
  <2> QED BY <2>1
<1> QED BY <1>1, <1>2 DEF Dialogue

\* The current update is one of a chat.
LEMMA CurrentType ==
  ASSUME LoopInv, offset < fetched
  PROVE  Current \in Update /\ Chat \in Chats /\ offset + 1 \in Nat /\ offset \in Nat
<1>1. offset + 1 \in 1 .. Len(updates) BY DEF LoopInv
<1>2. Current \in Update BY <1>1 DEF LoopInv, Current
<1> QED BY <1>2 DEF Chat, Update, LoopInv

\* An update of one chat turns its session into s and lets the others be.
LEMMA SessionBecomes ==
  ASSUME BotInv, LoopInv', offset < fetched, NEW raised, Turns(raised),
         NEW s \in Session, Becomes(s),
         s.state = "qualifying" => Dialogue(s.messages, updates, offset + 1, Chat)
  PROVE  BotInv'
<1>1. Chat \in Chats /\ offset \in Nat BY CurrentType DEF BotInv
<1>2. /\ session' \in [Chats -> Session \cup {NoSession}]
      /\ session'[Chat] = s
      /\ \A c \in Chats : c # Chat => session'[c] = session[c]
  BY <1>1 DEF BotInv, Becomes
<1>3. offset' = offset + 1 /\ updates' = updates BY DEF Turns, Advanced
<1>4. ASSUME NEW c \in Chats, session'[c] # NoSession,
               session'[c].state = "qualifying"
      PROVE  Dialogue(session'[c].messages, updates', offset', c)
  <2>1. CASE c = Chat BY <1>2, <1>3, <1>4, <2>1
  <2>2. CASE c # Chat
    <3>1. session'[c] = session[c] BY <1>2, <2>2
    <3>2. Dialogue(session[c].messages, updates, offset, c) BY <1>4, <3>1 DEF BotInv
    <3>3. updates[offset + 1].chat # c BY <2>2 DEF Chat, Current
    <3> QED BY <1>1, <1>3, <3>1, <3>2, <3>3, DialogueRests
  <2> QED BY <2>1, <2>2
<1> QED BY <1>2, <1>4 DEF BotInv

\* An update that is only answered says nothing to a dialogue.
LEMMA SessionsRest ==
  ASSUME BotInv, LoopInv', offset < fetched, NEW raised, Turns(raised),
         UNCHANGED session,
         \/ Current.kind \notin {"text", "start_qualification"}
         \/ session[Chat].state # "qualifying"
  PROVE  BotInv'
<1>1. Chat \in Chats /\ offset \in Nat BY CurrentType DEF BotInv
<1>2. offset' = offset + 1 /\ updates' = updates BY DEF Turns, Advanced
<1>3. ASSUME NEW c \in Chats, session[c] # NoSession, session[c].state = "qualifying"
      PROVE  Dialogue(session[c].messages, updates, offset + 1, c)
  <2>1. Dialogue(session[c].messages, updates, offset, c) BY <1>3 DEF BotInv
  <2>2. \/ updates[offset + 1].chat # c
        \/ updates[offset + 1].kind \notin {"text", "start_qualification"}
    BY <1>3 DEF Chat, Current
  <2> QED BY <1>1, <2>1, <2>2, DialogueRests
<1> QED BY <1>2, <1>3 DEF BotInv

\* The session a chat has, or would be given, is a session.
LEMMA PresentType ==
  ASSUME BotInv, NEW c \in Chats PROVE Present(c) \in Session
<1>1. NewSession("idle") \in Session BY DEF NewSession, Session
<1> QED BY <1>1 DEF Present, BotInv

\* What is said is put at the end.
LEMMA SaidType ==
  ASSUME NEW s \in Session, offset \in Nat
  PROVE  /\ Said(s) \in Session /\ Said(s).state = s.state
         /\ Said(s).messages = Append(s.messages, offset + 1)
<1>1. s.messages \in Seq(Nat) BY DEF Session
<1>2. Append(s.messages, offset + 1) \in Seq(Nat) BY <1>1
<1> QED BY <1>2 DEF Said, Session

\* A dialogue that has taken the current update in goes on or is over.
LEMMA Processed ==
  ASSUME BotInv, LoopInv', offset < fetched, NEW s \in Session, NEW raised,
         ProcessQualification(s, raised),
         Dialogue(Append(s.messages, offset + 1), updates, offset + 1, Chat)
  PROVE  BotInv'
<1>1. offset \in Nat BY DEF BotInv, LoopInv
<1>2. Said(s) \in Session /\ Said(s).messages = Append(s.messages, offset + 1)
  BY <1>1, SaidType
<1>3. CASE GoesOn(s, raised) BY <1>2, <1>3, SessionBecomes DEF GoesOn
<1>4. CASE Qualified(s, raised)
  <2> DEFINE t == [Said(s) EXCEPT !.state = "idle"]
  <2>1. t \in Session /\ t.state = "idle" BY <1>2 DEF Session
  <2>2. Becomes(t) /\ Turns(raised) BY <1>4 DEF Qualified
  <2> HIDE DEF t
  <2> QED BY <2>1, <2>2, SessionBecomes
<1> QED BY <1>3, <1>4 DEF ProcessQualification

\* Every step keeps the dialogues complete.
LEMMA BotStep ==
  ASSUME BotInv, [BotNext]_botVars PROVE BotInv'
<1>1. LoopInv' BY LoopStep DEF BotInv
<1>2. /\ session \in [Chats -> Session \cup {NoSession}]
      /\ offset \in Nat /\ Len(updates) \in Nat /\ offset <= Len(updates)
      /\ updates \in Seq(Update)
  BY DEF BotInv, LoopInv
<1>3. ASSUME NEW c \in Chats, NEW k \in UpdateKinds, Send(c, k) PROVE BotInv'
  <2>1. [chat |-> c, kind |-> k] \in Update BY DEF Update
  <2>2. \A u \in 1 .. offset : updates'[u] = updates[u] BY <1>2, <1>3, <2>1 DEF Send
  <2>3. session' = session /\ offset' = offset BY <1>3 DEF Send
  <2>4. ASSUME NEW d \in Chats, session[d] # NoSession,
                 session[d].state = "qualifying"
        PROVE  Dialogue(session[d].messages, updates', offset, d)
    <3>1. Dialogue(session[d].messages, updates, offset, d) BY <2>4 DEF BotInv
    <3> QED BY <1>2, <2>2, <3>1, DialogueStays
  <2> QED BY <1>1, <1>2, <2>3, <2>4 DEF BotInv
<1>4. ASSUME Poll PROVE BotInv' BY <1>1, <1>4 DEF Poll, BotInv
<1>5. ASSUME Restart PROVE BotInv'
  <2>1. session' = [c \in Chats |-> NoSession] BY <1>5 DEF Restart
  <2> QED BY <1>1, <2>1 DEF BotInv
<1>6. ASSUME Handle PROVE BotInv'
  <2>1. PICK raised \in BOOLEAN :
      \/ HandleStart(raised) \/ AskQuestion(raised) \/ CheckStatus(raised)
      \/ OnlyAnswer(raised) \/ StartQualification(raised) \/ Continue(raised)
    BY <1>6 DEF Handle
  <2>2. offset < fetched BY <1>6, HandledTurns
  <2>3. Chat \in Chats BY <2>2, CurrentType DEF BotInv
  <2>4. Present(Chat) \in Session BY <2>3, PresentType
  <2>5. CASE HandleStart(raised)
    <3>1. NewSession("idle") \in Session /\ NewSession("idle").state = "idle"
      BY DEF NewSession, Session
    <3>2. Becomes(NewSession("idle")) /\ Turns(raised) BY <2>5 DEF HandleStart
    <3> QED BY <1>1, <2>2, <3>1, <3>2, SessionBecomes
  <2>6. ASSUME NEW t \in {"idle", "client"},
               Becomes([Present(Chat) EXCEPT !.state = t]), Turns(raised)
        PROVE  BotInv'
    <3> DEFINE s == [Present(Chat) EXCEPT !.state = t]
    <3>1. s \in Session /\ s.state = t BY <2>4 DEF Session
    <3>2. Becomes(s) BY <2>6
    <3> HIDE DEF s
    <3> QED BY <1>1, <2>2, <2>6, <3>1, <3>2, SessionBecomes
  <2>7. CASE AskQuestion(raised) BY <2>6, <2>7 DEF AskQuestion
  <2>8. CASE CheckStatus(raised)
    <3>1. CASE UNCHANGED session
      <4>1. Current.kind = "check_status" /\ Turns(raised)
        BY <2>8 DEF CheckStatus, Is
      <4> QED BY <1>1, <2>2, <3>1, <4>1, SessionsRest
    <3>2. CASE Becomes([Present(Chat) EXCEPT !.state = "client"])
      BY <2>6, <2>8, <3>2 DEF CheckStatus
    <3> QED BY <2>8, <3>1, <3>2 DEF CheckStatus
  <2>9. CASE OnlyAnswer(raised)
    <3>1. Turns(raised) /\ UNCHANGED session BY <2>9 DEF OnlyAnswer
    <3>2. Current.kind = "lawyer" \/ session[Chat].state \in {"client", "idle"}
      BY <2>9 DEF OnlyAnswer, Is
    <3> QED BY <1>1, <2>2, <3>1, <3>2, SessionsRest
  <2>10. CASE StartQualification(raised)
    <3> DEFINE s == Qualifying(Present(Chat))
    <3>1. s \in Session /\ s.messages = << >> BY DEF Qualifying, Session
    <3>2. ProcessQualification(s, raised) BY <2>10 DEF StartQualification
    <3>3. /\ updates[offset + 1].chat = Chat
          /\ updates[offset + 1].kind = "start_qualification"
      BY <2>10 DEF StartQualification, Is, Current, Chat
    <3>4. Dialogue(Append(<< >>, offset + 1), updates, offset + 1, Chat)
      BY <1>2, <3>3, DialogueBegins
    <3> HIDE DEF s
    <3> QED BY <1>1, <2>2, <3>1, <3>2, <3>4, Processed
  <2>11. CASE Continue(raised)
    <3>1. /\ session[Chat] # NoSession /\ session[Chat].state = "qualifying"
          /\ ProcessQualification(session[Chat], raised)
      BY <2>11 DEF Continue, Text
    <3>2. session[Chat] \in Session BY <1>2, <2>3, <3>1
    <3>3. updates[offset + 1].chat = Chat /\ updates[offset + 1].kind = "text"
      BY <2>11 DEF Continue, Text, Is, Current, Chat
    <3>4. Dialogue(session[Chat].messages, updates, offset, Chat)
      BY <2>3, <3>1 DEF BotInv
    <3>5. Dialogue(Append(session[Chat].messages, offset + 1), updates, offset + 1,
            Chat)
      BY <1>2, <3>3, <3>4, DialogueGoesOn
    <3> QED BY <1>1, <2>2, <3>1, <3>2, <3>5, Processed
  <2> QED BY <2>1, <2>5, <2>7, <2>8, <2>9, <2>10, <2>11
<1>7. CASE UNCHANGED botVars
  <2>1. UNCHANGED <<session, updates, offset>> BY <1>7 DEF botVars
  <2> QED BY <1>1, <2>1 DEF BotInv
<1> QED BY <1>3, <1>4, <1>5, <1>6, <1>7 DEF BotNext

\* The loop keeps its place and the dialogues stay complete.
THEOREM BotInvariance == BotSpec => []BotInv
<1>1. BotInit => BotInv
  <2> SUFFICES ASSUME BotInit PROVE BotInv OBVIOUS
  <2>1. updates = << >> /\ updates \in Seq(Update) /\ Len(updates) = 0 BY DEF BotInit
  <2>2. LoopInv BY <2>1, BotAssumption DEF BotInit, LoopInv
  <2> QED BY <2>2 DEF BotInit, BotInv
<1>2. BotInv /\ [BotNext]_botVars => BotInv' BY BotStep
<1> QED BY <1>1, <1>2, PTL DEF BotSpec

\* No update is forgotten by Telegram before it was begun, and none is begun
\* more often than the process was started.
THEOREM UpdatesStayHandled == BotSpec => []UpdatesAreHandled
<1>1. BotInv => UpdatesAreHandled
  <2> SUFFICES ASSUME LoopInv PROVE UpdatesAreHandled BY DEF BotInv
  <2>1. NothingIsSkipped BY BotAssumption DEF LoopInv, NothingIsSkipped
  <2>2. RepeatsAreRestarts BY DEF LoopInv, RepeatsAreRestarts
  <2> QED BY <2>1, <2>2 DEF UpdatesAreHandled
<1> QED BY <1>1, BotInvariance, PTL

\* The model is sent every text of a dialogue, in order, and none of another.
THEOREM DialoguesStayComplete == BotSpec => []DialogueIsComplete
<1>1. BotInv => DialogueIsComplete
  <2> SUFFICES ASSUME BotInv, NEW c \in Chats, session[c] # NoSession,
                      session[c].state = "qualifying"
               PROVE  LET m == session[c].messages IN
                      /\ \A i, k \in DOMAIN m : i < k => m[i] < m[k]
                      /\ {m[i] : i \in 2 .. Len(m)} = Since(c)
                      /\ updates[m[1]].kind = "start_qualification"
    BY DEF DialogueIsComplete
  <2> DEFINE m == session[c].messages
  <2>1. Dialogue(m, updates, offset, c) BY DEF BotInv
  <2>2. TextsSince(updates, offset, c) = Since(c)
    <3>1. \A u \in 1 .. offset : Begun(c, u) <=> updates[u].chat = c
      BY DEF Begun, BotInv, LoopInv
    <3>2. \A u \in 1 .. offset : \A v \in u .. offset : v \in 1 .. offset
      BY DEF BotInv, LoopInv
    <3> QED BY <3>1, <3>2 DEF TextsSince, Since
  <2>3. DOMAIN m = 1 .. Len(m) BY <2>1 DEF Dialogue
  <2> HIDE DEF m
  <2>4. /\ \A i, k \in DOMAIN m : i < k => m[i] < m[k]
        /\ {m[i] : i \in 2 .. Len(m)} = Since(c)
        /\ updates[m[1]].kind = "start_qualification"
    BY <2>1, <2>2, <2>3 DEF Dialogue
  <2> QED BY <2>4 DEF m
<1> QED BY <1>1, BotInvariance, PTL
=============================================================================
