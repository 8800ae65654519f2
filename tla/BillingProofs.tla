---------------------------- MODULE BillingProofs ----------------------------
(***************************************************************************)
(* Proofs about Billing, for any number of invoices, clients, transfers    *)
(* and requests.                                                           *)
(*                                                                         *)
(* That a transfer settles what it is meant for rests on the numbers: as   *)
(* long as the process is not restarted they only grow (NumbersGrow), so   *)
(* the number a purpose names stays the number of the invoice it was taken *)
(* from, also when that invoice was never committed (PurposesAreTrue).     *)
(* That payments stand rests on what nobody knows of an invoice before its *)
(* creation has ended (ClosedFirst), and on what requests have seen.       *)
(***************************************************************************)
EXTENDS Billing, TLAPS

USE BillingAssumption

Job == [kind     : {"idle", "webhook", "send"},
        transfer : Transfers \cup {NoTransfer},
        invoice  : Invoices \cup {NoInvoice},
        seen     : InvoiceStatus \cup {"absent"}]

Payment == [invoice : Invoices \cup {NoInvoice},
            number  : Nat,
            payer   : Clients \cup {NoClient},
            amount  : Nat]

\* Invoices that have been given a number.
Created(i) == creating[i] # "none"

\* A transfer may settle this invoice.
Fits(t, i) ==
  \/ i = transfer[t].invoice
  \/ client[i] = transfer[t].payer /\ total[i] = transfer[t].amount
  \/ transfer[t].invoice = NoInvoice /\ number[i] = transfer[t].number

\* A webhook was matched to this invoice.
Settled(i) == \E t \in Transfers : i \in matches[t]

\* Before its creation has ended nobody else knows of an invoice.
ClosedFirst ==
  \A i \in Invoices : creating[i] # "closed" =>
    /\ status[i] = "absent" /\ ~ Settled(i)
    /\ \A r \in Requests : job[r].invoice # i

\* What a request has seen paid is paid, or was written over.
SeenIsPaid ==
  \A r \in Requests :
    job[r].invoice \in Invoices /\ job[r].seen = "paid" =>
      status[job[r].invoice] = "paid" \/ job[r].invoice \in overwritten

\* What a webhook request holds is a transfer that was made.
JobsHold ==
  \A r \in Requests : job[r].kind = "webhook" =>
    job[r].transfer \in Transfers /\ transfer[job[r].transfer] # NoPayment

\* What there is of an invoice is there after it was created.
CreatedFirst ==
  /\ \A i \in Stored \cup bank : Created(i)
  /\ \A r \in Requests : job[r].invoice \in Invoices => Created(job[r].invoice)
  /\ \A t \in Transfers : transfer[t].invoice \in Invoices =>
       Created(transfer[t].invoice)

\* Numbers are taken from the counter, each once.
NumbersGrow ==
  /\ counter >= FirstNumber - 1
  /\ \A i \in Invoices :
       Created(i) => number[i] >= FirstNumber /\ number[i] <= counter
  /\ \A i, j \in Invoices :
       Created(i) /\ Created(j) /\ number[i] = number[j] => i = j

\* The purpose of a transfer names no number, or that of the invoice that is meant.
PurposesAreTrue ==
  \A t \in Transfers : transfer[t].invoice # NoInvoice /\ transfer[t].number # 0 =>
    transfer[t].number = number[transfer[t].invoice]

\* What the webhooks have found, and are going to write, fits.
MatchesFit ==
  /\ \A t \in Transfers, i \in Invoices : i \in matches[t] =>
       Created(i) /\ Fits(t, i) /\ transfer[t] # NoPayment
  /\ \A r \in Requests :
       job[r].kind = "webhook" /\ job[r].invoice \in Invoices =>
         Fits(job[r].transfer, job[r].invoice)

-----------------------------------------------------------------------------
(* Types                                                                   *)

\* A request that does nothing is a job.
LEMMA IdleType == Idle \in Job
BY DEF Idle, Job

\* The initial state is well typed.
LEMMA InitTypeOK ==
  ASSUME Init
  PROVE  TypeOK
<1>1. NoPayment \in Payment
  BY DEF NoPayment, Payment
<1>2. /\ transfer \in [Transfers -> Payment]
      /\ job \in [Requests -> Job]
  BY <1>1, IdleType DEF Init
<1>3. counter \in Nat /\ restarts \in Nat
  BY DEF Init, FirstNumber
<1>4. /\ creating \in [Invoices -> Progress]
      /\ number \in [Invoices -> Nat]
      /\ client \in [Invoices -> Clients \cup {NoClient}]
      /\ total \in [Invoices -> Nat]
      /\ status \in [Invoices -> InvoiceStatus \cup {"absent"}]
      /\ matches \in [Transfers -> SUBSET (Invoices \cup {NoInvoice})]
  BY DEF Init, Progress
<1>5. refused \in BOOLEAN
  BY DEF Init
<1> QED
  BY <1>2, <1>3, <1>4, <1>5 DEF Init, TypeOK, Job, Payment

\* Creating, pushing, committing and rolling back an invoice keep the types.
LEMMA InvoiceTypes ==
  ASSUME TypeOK, NEW i \in Invoices, InvoiceStep(i)
  PROVE  TypeOK'
<1>1. ASSUME NEW c \in Clients, NEW a \in Amounts, CreateInvoice(i, c, a)
      PROVE  TypeOK'
  <2>1. counter' \in Nat /\ NextNumber \in Nat
    BY <1>1 DEF TypeOK, CreateInvoice, NextNumber
  <2>2. \E outcome \in {"closed", "flushed"} :
          creating' = [creating EXCEPT ![i] = outcome]
    BY <1>1 DEF CreateInvoice
  <2>3. creating' \in [Invoices -> Progress]
    BY <2>2 DEF TypeOK, Progress
  <2>4. refused' \in BOOLEAN /\ overwritten' = overwritten
    BY <1>1 DEF TypeOK, CreateInvoice
  <2>5. /\ number' \in [Invoices -> Nat]
        /\ client' \in [Invoices -> Clients \cup {NoClient}]
        /\ total' \in [Invoices -> Nat]
    BY <1>1, <2>1 DEF TypeOK, CreateInvoice
  <2> QED
    BY <1>1, <2>1, <2>3, <2>4, <2>5 DEF TypeOK, CreateInvoice
<1>2. CASE PushToTochka(i)
  <2>1. creating' \in [Invoices -> Progress]
    BY <1>2 DEF TypeOK, PushToTochka, Progress
  <2> QED
    BY <1>2, <2>1 DEF TypeOK, PushToTochka, history
<1>3. CASE CommitInvoice(i)
  <2>1. creating' \in [Invoices -> Progress]
    BY <1>3 DEF TypeOK, CommitInvoice, Progress
  <2>2. status' \in [Invoices -> InvoiceStatus \cup {"absent"}]
    BY <1>3 DEF TypeOK, CommitInvoice, InvoiceStatus
  <2> QED
    BY <1>3, <2>1, <2>2 DEF TypeOK, CommitInvoice, history
<1>4. CASE AbortInvoice(i)
  BY <1>4 DEF TypeOK, AbortInvoice, Progress, history
<1> QED
  BY <1>1, <1>2, <1>3, <1>4 DEF InvoiceStep

\* The requests that send an invoice or deliver a webhook keep the types.
LEMMA RequestTypes ==
  ASSUME TypeOK, JobsHold, NEW r \in Requests, RequestStep(r)
  PROVE  TypeOK'
<1> USE DEF invoiceVars, history
<1>1. ASSUME NEW i \in Invoices, LoadInvoice(r, i)
      PROVE  TypeOK'
  <2>1. [Idle EXCEPT !.kind = "send", !.invoice = i, !.seen = status[i]] \in Job
    BY DEF TypeOK, Idle, Job
  <2>2. job' \in [Requests -> Job]
    BY <1>1, <2>1 DEF TypeOK, LoadInvoice, Job
  <2> QED
    BY <1>1, <2>2 DEF TypeOK, LoadInvoice, Job
<1>2. CASE CommitSend(r)
  <2>1. job' \in [Requests -> Job]
    BY <1>2, IdleType DEF TypeOK, CommitSend, Job
  <2>2. \/ status' = status
        \/ status' = [status EXCEPT ![job[r].invoice] = "sent"]
    BY <1>2 DEF CommitSend, StatusAfterSend
  <2>3. status' \in [Invoices -> InvoiceStatus \cup {"absent"}]
    BY <2>2 DEF TypeOK, InvoiceStatus
  <2>4. overwritten' \subseteq Invoices
    BY <1>2 DEF TypeOK, CommitSend
  <2> QED
    BY <1>2, <2>1, <2>3, <2>4 DEF TypeOK, CommitSend, Job
<1>3. ASSUME NEW t \in Transfers, ReceiveWebhook(r, t)
      PROVE  TypeOK'
  <2>1. [Idle EXCEPT !.kind = "webhook", !.transfer = t] \in Job
    BY DEF Idle, Job
  <2>2. \A i \in Invoices :
          [kind |-> "webhook", transfer |-> t, invoice |-> i,
           seen |-> status[i]] \in Job
    BY DEF TypeOK, Job
  <2>3. Candidates(t) \subseteq Invoices
    BY DEF Candidates, ByNumber, ByPayer, Stored
  <2>4. \/ job' = [job EXCEPT ![r] = [Idle EXCEPT !.kind = "webhook",
                                                  !.transfer = t]]
        \/ \E i \in Candidates(t) :
             job' = [job EXCEPT ![r] =
               [kind |-> "webhook", transfer |-> t, invoice |-> i,
                seen |-> status[i]]]
    BY <1>3 DEF ReceiveWebhook
  <2>5. job' \in [Requests -> Job]
    <3>1. job \in [Requests -> Job]
      BY DEF TypeOK, Job
    <3>2. ASSUME NEW j \in Job, job' = [job EXCEPT ![r] = j]
          PROVE  job' \in [Requests -> Job]
      BY <3>1, <3>2
    <3> QED
      BY <2>1, <2>2, <2>3, <2>4, <3>1, <3>2
  <2> QED
    BY <1>3, <2>5 DEF TypeOK, ReceiveWebhook, Job
<1>4. CASE CommitWebhook(r)
  <2>1. job' \in [Requests -> Job]
    BY <1>4, IdleType DEF TypeOK, CommitWebhook, Job
  <2>2. \/ status' = status
        \/ status' = [status EXCEPT ![job[r].invoice] = "paid"]
    BY <1>4 DEF CommitWebhook, StatusAfterWebhook
  <2>3. status' \in [Invoices -> InvoiceStatus \cup {"absent"}]
    BY <2>2 DEF TypeOK, InvoiceStatus
  <2>4. job[r].invoice \in Invoices \cup {NoInvoice}
    BY DEF TypeOK
  <2>5. matches' \in [Transfers -> SUBSET (Invoices \cup {NoInvoice})]
    BY <1>4, <2>4 DEF TypeOK, CommitWebhook
  <2> QED
    BY <1>4, <2>1, <2>3, <2>5 DEF TypeOK, CommitWebhook, Job
<1>5. CASE AbortJob(r)
  <2>1. job' \in [Requests -> Job]
    BY <1>5, IdleType DEF TypeOK, AbortJob, Job
  <2> QED
    BY <1>5, <2>1 DEF TypeOK, AbortJob, Job
<1> QED
  BY <1>1, <1>2, <1>3, <1>4, <1>5 DEF RequestStep

\* Every action keeps the types.
LEMMA TypeStep ==
  ASSUME TypeOK, JobsHold, [Next]_vars
  PROVE  TypeOK'
<1>1. ASSUME NEW t \in Transfers, NEW i \in Invoices, NEW named \in BOOLEAN,
             NEW payer \in Clients, NEW a \in Amounts,
             Pay(t, i, named, payer, a)
      PROVE  TypeOK'
  <2>1. \E n \in Nat : transfer' = [transfer EXCEPT ![t] =
          [invoice |-> i, number |-> n, payer |-> payer, amount |-> a]]
    BY <1>1 DEF TypeOK, Pay
  <2>2. transfer' \in [Transfers -> Payment]
    BY <2>1 DEF TypeOK, Payment
  <2> QED
    BY <1>1, <2>2 DEF TypeOK, Pay, Payment, invoiceVars, history
<1>5. ASSUME NEW t \in Transfers, NEW n \in Nameable, NEW payer \in Clients,
             NEW a \in Amounts, Unsigned(t, n, payer, a)
      PROVE  TypeOK'
  <2>1. n \in Nat
    BY DEF TypeOK, Nameable, NextNumber
  <2>2. transfer' \in [Transfers -> Payment]
    BY <1>5, <2>1 DEF TypeOK, Payment, Unsigned
  <2> QED
    BY <1>5, <2>2 DEF TypeOK, Unsigned, Payment, invoiceVars, history
<1>2. CASE Reconcile
  BY <1>2 DEF TypeOK, Reconcile, Unmatched, invoiceVars
<1>3. CASE Restart
  <2>1. job' \in [Requests -> Job]
    BY <1>3, IdleType DEF Restart
  <2>2. counter' \in Nat /\ restarts' \in Nat
    BY <1>3 DEF TypeOK, Restart, FirstNumber
  <2>3. creating' \in [Invoices -> Progress]
    BY <1>3 DEF Restart, Progress
  <2> QED
    BY <1>3, <2>1, <2>2, <2>3 DEF TypeOK, Restart, Job, history
<1>4. CASE UNCHANGED vars
  BY <1>4 DEF TypeOK, vars, invoiceVars, history
<1> QED
  BY <1>1, <1>2, <1>3, <1>4, <1>5, InvoiceTypes, RequestTypes DEF Next

-----------------------------------------------------------------------------
(* Paid invoices, through any number of restarts                           *)

Inv == TypeOK /\ JobsHold /\ ClosedFirst /\ SeenIsPaid /\ PaymentsStand

\* A webhook request holds a transfer until it ends.
LEMMA JobsStep ==
  ASSUME TypeOK, JobsHold, [Next]_vars
  PROVE  JobsHold'
<1>1. ASSUME NEW r \in Requests,
             NEW q \in Requests, job'[q].kind = "webhook", RequestStep(r)
      PROVE  job'[q].transfer \in Transfers
             /\ transfer'[job'[q].transfer] # NoPayment
  <2>1. transfer' = transfer
    BY <1>1
    DEF RequestStep, LoadInvoice, CommitSend, ReceiveWebhook, CommitWebhook,
        AbortJob
  <2>2. CASE job'[q] = job[q]
    BY <1>1, <2>1, <2>2 DEF JobsHold
  <2>3. ASSUME NEW t \in Transfers, ReceiveWebhook(r, t), job'[q] # job[q]
        PROVE  job'[q].transfer = t /\ transfer[t] # NoPayment
    <3>1. transfer[t] # NoPayment
      BY <2>3 DEF ReceiveWebhook
    <3>2. \/ job' = job
          \/ job' = [job EXCEPT ![r] =
               [Idle EXCEPT !.kind = "webhook", !.transfer = t]]
          \/ \E i \in Candidates(t) :
               job' = [job EXCEPT ![r] =
                 [kind |-> "webhook", transfer |-> t, invoice |-> i,
                  seen |-> status[i]]]
      BY <2>3 DEF ReceiveWebhook
    <3>3. job \in [Requests -> Job]
      BY DEF TypeOK, Job
    <3>4. CASE job' = [job EXCEPT ![r] =
                 [Idle EXCEPT !.kind = "webhook", !.transfer = t]]
      <4>1. job'[q] = [Idle EXCEPT !.kind = "webhook", !.transfer = t]
        BY <2>3, <3>3, <3>4
      <4> QED
        BY <3>1, <4>1 DEF Idle
    <3>5. ASSUME NEW i \in Candidates(t),
                 job' = [job EXCEPT ![r] =
                   [kind |-> "webhook", transfer |-> t, invoice |-> i,
                    seen |-> status[i]]]
          PROVE  job'[q].transfer = t
      <4>1. job'[q] = [kind |-> "webhook", transfer |-> t, invoice |-> i,
                       seen |-> status[i]]
        BY <2>3, <3>3, <3>5
      <4> QED
        BY <4>1
    <3> QED
      BY <2>3, <3>1, <3>2, <3>4, <3>5
  <2>4. ASSUME NEW i \in Invoices, LoadInvoice(r, i), job'[q] # job[q]
        PROVE  FALSE
    BY <1>1, <2>4 DEF LoadInvoice, TypeOK, Idle
  <2>5. ASSUME CommitSend(r) \/ CommitWebhook(r) \/ AbortJob(r),
               job'[q] # job[q]
        PROVE  FALSE
    BY <1>1, <2>5 DEF CommitSend, CommitWebhook, AbortJob, TypeOK, Idle
  <2> QED
    BY <1>1, <2>1, <2>2, <2>3, <2>4, <2>5 DEF RequestStep
<1>2. ASSUME NEW i \in Invoices, InvoiceStep(i)
      PROVE  JobsHold'
  BY <1>2
  DEF InvoiceStep, CreateInvoice, PushToTochka, CommitInvoice, AbortInvoice,
      JobsHold
<1>3. ASSUME NEW t \in Transfers, NEW i \in Invoices, NEW named \in BOOLEAN,
             NEW payer \in Clients, NEW a \in Amounts,
             Pay(t, i, named, payer, a)
      PROVE  JobsHold'
  <2>1. \A u \in Transfers : u # t => transfer'[u] = transfer[u]
    BY <1>3 DEF Pay, TypeOK
  <2>2. transfer[t] = NoPayment /\ job' = job
    BY <1>3 DEF Pay
  <2> QED
    BY <2>1, <2>2 DEF JobsHold
<1>7. ASSUME NEW t \in Transfers, NEW n \in Nameable, NEW payer \in Clients,
             NEW a \in Amounts, Unsigned(t, n, payer, a)
      PROVE  JobsHold'
  <2>1. \A u \in Transfers : u # t => transfer'[u] = transfer[u]
    BY <1>7 DEF Unsigned, TypeOK
  <2>2. transfer[t] = NoPayment /\ job' = job
    BY <1>7 DEF Unsigned
  <2> QED
    BY <2>1, <2>2 DEF JobsHold
<1>4. CASE Restart
  BY <1>4 DEF Restart, JobsHold, Idle
<1>5. CASE Reconcile \/ UNCHANGED vars
  BY <1>5 DEF Reconcile, vars, JobsHold
<1>6. ASSUME NEW r \in Requests, RequestStep(r)
      PROVE  JobsHold'
  BY <1>1, <1>6 DEF JobsHold
<1> QED
  BY <1>2, <1>3, <1>4, <1>5, <1>6, <1>7 DEF Next

Stands == ClosedFirst /\ SeenIsPaid /\ PaymentsStand

\* Steps that write no status, match no webhook and load nothing.
LEMMA StandsStill ==
  ASSUME TypeOK, Stands, UNCHANGED <<status, matches, overwritten>>,
         \A i \in Invoices : creating'[i] # "closed" => creating[i] # "closed",
         \A r \in Requests : job'[r] = job[r] \/ job'[r] = Idle
  PROVE  Stands'
<1>1. Idle.invoice \notin Invoices
  BY DEF Idle
<1>2. ClosedFirst'
  BY <1>1 DEF Stands, ClosedFirst, Settled
<1>3. SeenIsPaid'
  BY <1>1 DEF Stands, SeenIsPaid
<1>4. PaymentsStand'
  BY DEF Stands, PaymentsStand
<1> QED
  BY <1>2, <1>3, <1>4 DEF Stands

\* When its creation is committed an invoice is not settled yet.
LEMMA CommitStands ==
  ASSUME TypeOK, Stands, NEW i \in Invoices, CommitInvoice(i)
  PROVE  Stands'
<1>1. PICK new \in {"sent", "draft"} : status' = [status EXCEPT ![i] = new]
  BY DEF CommitInvoice
<1>2. /\ creating[i] # "closed" /\ creating' = [creating EXCEPT ![i] = "closed"]
      /\ UNCHANGED <<matches, job, overwritten>>
  BY DEF CommitInvoice, history
<1>3. \A j \in Invoices : /\ status'[j] = IF j = i THEN new ELSE status[j]
                          /\ creating'[j] = IF j = i THEN "closed" ELSE creating[j]
  BY <1>1, <1>2 DEF TypeOK
<1>4. ~ Settled(i) /\ \A r \in Requests : job[r].invoice # i
  BY <1>2 DEF Stands, ClosedFirst
<1>5. ClosedFirst'
  BY <1>2, <1>3 DEF Stands, ClosedFirst, Settled
<1>6. SeenIsPaid'
  BY <1>2, <1>3, <1>4 DEF Stands, SeenIsPaid
<1>7. PaymentsStand'
  BY <1>2, <1>3, <1>4 DEF Stands, PaymentsStand, Settled
<1> QED
  BY <1>5, <1>6, <1>7 DEF Stands

\* A request loads an invoice that is committed, and sees its status.
LEMMA LoadStands ==
  ASSUME TypeOK, Stands, NEW r \in Requests, NEW j \in Job,
         j.invoice \in Invoices =>
           j.invoice \in Stored /\ j.seen = status[j.invoice],
         job' = [job EXCEPT ![r] = j],
         UNCHANGED <<creating, status, matches, overwritten>>
  PROVE  Stands'
<1>1. \A q \in Requests : job'[q] = IF q = r THEN j ELSE job[q]
  BY DEF TypeOK
<1>2. ClosedFirst'
  BY <1>1 DEF Stands, ClosedFirst, Settled, Stored
<1>3. SeenIsPaid'
  BY <1>1 DEF Stands, SeenIsPaid
<1>4. PaymentsStand'
  BY DEF Stands, PaymentsStand
<1> QED
  BY <1>2, <1>3, <1>4 DEF Stands

\* A request to send that writes over a payment is on record.
LEMMA SendStands ==
  ASSUME TypeOK, Stands, NEW r \in Requests, CommitSend(r)
  PROVE  Stands'
<1> DEFINE i == job[r].invoice
<1>1. /\ UNCHANGED <<creating, matches>> /\ job' = [job EXCEPT ![r] = Idle]
      /\ overwritten \subseteq overwritten'
      /\ \/ status' = status
         \/ /\ status' = [status EXCEPT ![i] = "sent"]
            /\ i \in Invoices /\ status[i] = "paid" => i \in overwritten'
  BY DEF CommitSend, StatusAfterSend
<1> HIDE DEF i
<1>2. \A q \in Requests : job'[q] = IF q = r THEN Idle ELSE job[q]
  BY <1>1 DEF TypeOK
<1>3. \A k \in Invoices :
        \/ status'[k] = status[k]
        \/ k = i /\ status'[k] = "sent" /\ (status[k] = "paid" => k \in overwritten')
  BY <1>1 DEF TypeOK
<1>4. \A k \in Invoices : status[k] = "paid" \/ k \in overwritten =>
        status'[k] = "paid" \/ k \in overwritten'
  BY <1>1, <1>3
<1>5. \A k \in Invoices : creating[k] # "closed" => i # k
  BY DEF i, Stands, ClosedFirst
<1>6. Idle.invoice \notin Invoices
  BY DEF Idle
<1>7. ClosedFirst'
  BY <1>1, <1>2, <1>3, <1>5, <1>6 DEF Stands, ClosedFirst, Settled
<1>8. SeenIsPaid'
  BY <1>2, <1>4, <1>6 DEF Stands, SeenIsPaid
<1>9. PaymentsStand'
  BY <1>1, <1>3, <1>4 DEF Stands, PaymentsStand
<1> QED
  BY <1>7, <1>8, <1>9 DEF Stands

\* A webhook pays the invoice that it is matched to.
LEMMA WebhookStands ==
  ASSUME TypeOK, JobsHold, Stands, NEW r \in Requests, CommitWebhook(r)
  PROVE  Stands'
<1> DEFINE i == job[r].invoice
           t == job[r].transfer
<1>1. /\ UNCHANGED <<creating, overwritten>> /\ job' = [job EXCEPT ![r] = Idle]
      /\ t \in Transfers
      /\ matches' = [matches EXCEPT ![t] = @ \cup {i}]
      /\ \/ status' = status
         \/ status' = [status EXCEPT ![i] = "paid"]
      /\ i \in Invoices =>
           \/ status'[i] = "paid"
           \/ status[i] = "paid" \/ i \in overwritten
  <2>1. CASE i = NoInvoice \/ job[r].seen = "paid"
    BY <2>1
    DEF CommitWebhook, StatusAfterWebhook, JobsHold, history, Stands, SeenIsPaid
  <2>2. CASE ~ (i = NoInvoice \/ job[r].seen = "paid")
    BY <2>2 DEF CommitWebhook, StatusAfterWebhook, JobsHold, history, TypeOK
  <2> QED
    BY <2>1, <2>2
<1>2. \A k \in Invoices : creating[k] # "closed" => i # k
  BY DEF Stands, ClosedFirst
<1> HIDE DEF i, t
<1>3. \A q \in Requests : job'[q] = IF q = r THEN Idle ELSE job[q]
  BY <1>1 DEF TypeOK
<1>4. \A k \in Invoices : \/ status'[k] = status[k]
                          \/ k = i /\ status'[k] = "paid"
  BY <1>1 DEF TypeOK
<1>5. \A u \in Transfers : matches'[u] = IF u = t THEN matches[u] \cup {i} ELSE matches[u]
  BY <1>1 DEF TypeOK
<1>6. \A k \in Invoices : Settled(k)' <=> Settled(k) \/ k = i
  BY <1>1, <1>5 DEF Settled
<1>7. Idle.invoice \notin Invoices
  BY DEF Idle
<1>8. ClosedFirst'
  BY <1>1, <1>2, <1>3, <1>4, <1>6, <1>7 DEF Stands, ClosedFirst
<1>9. SeenIsPaid'
  BY <1>1, <1>3, <1>4, <1>7 DEF Stands, SeenIsPaid
<1>10. PaymentsStand'
  <2>1. \A k \in Invoices : /\ status[k] = "paid" => Settled(k)
                            /\ Settled(k) => status[k] = "paid" \/ k \in overwritten
    BY DEF Stands, PaymentsStand, Settled
  <2>2. \A k \in Invoices :
          /\ status'[k] = "paid" => Settled(k)'
          /\ Settled(k)' => status'[k] = "paid" \/ k \in overwritten'
    BY <1>1, <1>4, <1>6, <2>1
  <2> QED
    BY <2>2 DEF PaymentsStand, Settled
<1> QED
  BY <1>8, <1>9, <1>10 DEF Stands

\* No step parts invoices from their webhooks.
LEMMA StandsStep ==
  ASSUME Inv, [Next]_vars
  PROVE  Stands'
<1> USE DEF invoiceVars, history
<1>0. TypeOK /\ JobsHold /\ Stands
  BY DEF Inv, Stands
<1>1. ASSUME NEW i \in Invoices, InvoiceStep(i)
      PROVE  Stands'
  <2>1. CASE ~ CommitInvoice(i)
    <3>1. /\ UNCHANGED <<status, matches, overwritten, job>>
          /\ creating[i] # "closed"
          /\ \E new : creating' = [creating EXCEPT ![i] = new]
      BY <1>1, <2>1 DEF InvoiceStep, CreateInvoice, PushToTochka, AbortInvoice
    <3>2. \A k \in Invoices : creating'[k] # "closed" => creating[k] # "closed"
      BY <1>0, <3>1 DEF TypeOK
    <3> QED
      BY <1>0, <3>1, <3>2, StandsStill
  <2> QED
    BY <1>0, <2>1, CommitStands
<1>2. ASSUME NEW r \in Requests, NEW i \in Invoices, LoadInvoice(r, i)
      PROVE  Stands'
  <2> DEFINE j == [Idle EXCEPT !.kind = "send", !.invoice = i, !.seen = status[i]]
  <2>1. j \in Job /\ j.invoice = i /\ j.seen = status[i]
    BY <1>0 DEF TypeOK, Idle, Job
  <2>2. i \in Stored /\ job' = [job EXCEPT ![r] = j]
        /\ UNCHANGED <<creating, status, matches, overwritten>>
    BY <1>2 DEF LoadInvoice
  <2> HIDE DEF j
  <2> QED
    BY <1>0, <2>1, <2>2, LoadStands
<1>3. ASSUME NEW r \in Requests, NEW t \in Transfers, ReceiveWebhook(r, t)
      PROVE  Stands'
  <2>0. UNCHANGED <<creating, status, matches, overwritten>>
    BY <1>3 DEF ReceiveWebhook
  <2>1. CASE job' = [job EXCEPT ![r] = [Idle EXCEPT !.kind = "webhook",
                                                    !.transfer = t]]
    <3> DEFINE j == [Idle EXCEPT !.kind = "webhook", !.transfer = t]
    <3>1. j \in Job /\ j.invoice \notin Invoices
      BY DEF Idle, Job
    <3>2. job' = [job EXCEPT ![r] = j]
      BY <2>1
    <3> HIDE DEF j
    <3> QED
      BY <1>0, <2>0, <3>1, <3>2, LoadStands
  <2>2. ASSUME NEW i \in Candidates(t),
               job' = [job EXCEPT ![r] =
                 [kind |-> "webhook", transfer |-> t, invoice |-> i,
                  seen |-> status[i]]]
        PROVE  Stands'
    <3> DEFINE j == [kind |-> "webhook", transfer |-> t, invoice |-> i,
                     seen |-> status[i]]
    <3>1. i \in Stored /\ i \in Invoices
      BY DEF Candidates, ByNumber, ByPayer, Stored
    <3>2. j \in Job /\ j.invoice = i /\ j.seen = status[i]
      BY <1>0, <3>1 DEF TypeOK, Job
    <3>3. job' = [job EXCEPT ![r] = j]
      BY <2>2
    <3> HIDE DEF j
    <3> QED
      BY <1>0, <2>0, <3>1, <3>2, <3>3, LoadStands
  <2> QED
    BY <1>3, <2>1, <2>2 DEF ReceiveWebhook
<1>4. ASSUME NEW r \in Requests, AbortJob(r)
      PROVE  Stands'
  <2>1. /\ UNCHANGED <<creating, status, matches, overwritten>>
        /\ \A q \in Requests : job'[q] = job[q] \/ job'[q] = Idle
    BY <1>0, <1>4 DEF AbortJob, TypeOK
  <2> QED
    BY <1>0, <2>1, StandsStill
<1>5. ASSUME NEW r \in Requests, RequestStep(r)
      PROVE  Stands'
  BY <1>0, <1>2, <1>3, <1>4, <1>5, SendStands, WebhookStands DEF RequestStep
<1>6. CASE Restart
  <2>1. /\ UNCHANGED <<status, matches, overwritten>>
        /\ \A k \in Invoices : creating'[k] # "closed" => creating[k] # "closed"
        /\ \A q \in Requests : job'[q] = Idle
    BY <1>6 DEF Restart
  <2> QED
    BY <1>0, <2>1, StandsStill
<1>7. ASSUME UNCHANGED <<creating, status, matches, overwritten, job>>
      PROVE  Stands'
  BY <1>0, <1>7, StandsStill
<1>8. ASSUME \/ \E t \in Transfers, i \in Invoices, named \in BOOLEAN,
                   payer \in Clients, a \in Amounts :
                  Pay(t, i, named, payer, a)
             \/ \E t \in Transfers, n \in Nameable, payer \in Clients,
                   a \in Amounts : Unsigned(t, n, payer, a)
             \/ Reconcile
             \/ UNCHANGED vars
      PROVE  Stands'
  BY <1>7, <1>8 DEF Pay, Unsigned, Reconcile, vars
<1> QED
  BY <1>1, <1>5, <1>6, <1>8 DEF Next

\* The invariant holds in every state.
THEOREM Invariance == Spec => []Inv
<1>1. ASSUME Init
      PROVE  Inv
  <2>1. JobsHold /\ ClosedFirst /\ SeenIsPaid /\ PaymentsStand
    BY <1>1 DEF Init, JobsHold, ClosedFirst, SeenIsPaid, PaymentsStand, Settled, Idle
  <2> QED
    BY <1>1, <2>1, InitTypeOK DEF Inv
<1>2. Inv /\ [Next]_vars => Inv'
  BY TypeStep, JobsStep, StandsStep DEF Inv, Stands
<1> QED
  BY <1>1, <1>2, PTL DEF Spec

\* Every variable keeps its type.
THEOREM TypeCorrect == Spec => []TypeOK
<1>1. Inv => TypeOK
  BY DEF Inv
<1> QED
  BY <1>1, Invariance, PTL

\* Through any number of restarts, rollbacks and overlapping requests what is
\* paid has a webhook and what has a webhook is paid, unless a late request to
\* send the invoice wrote over it.
THEOREM PaymentsAlwaysStand == Spec => []PaymentsStand
<1>1. Inv => PaymentsStand
  BY DEF Inv
<1> QED
  BY <1>1, Invariance, PTL

-----------------------------------------------------------------------------
(* One life of the API process                                             *)

OneLife ==
  /\ ~ refused
  /\ CreatedFirst
  /\ NumbersGrow
  /\ PurposesAreTrue
  /\ MatchesFit

\* Steps that only move rows and requests on: no number is taken, nobody pays
\* and no webhook is matched.
LEMMA QuietStep ==
  ASSUME TypeOK, OneLife,
         UNCHANGED <<counter, restarts, number, client, total, transfer,
                     matches, refused>>,
         \A i \in Invoices : Created(i) => Created(i)',
         \A i \in Stored' \cup bank' : i \in Invoices /\ Created(i),
         \A i \in Invoices : Created(i)' => Created(i),
         \A r \in Requests :
           \/ job'[r] = job[r]
           \/ /\ job'[r].invoice \in Invoices =>
                   /\ Created(job'[r].invoice)
                   /\ job'[r].kind = "webhook" =>
                        Fits(job'[r].transfer, job'[r].invoice)
  PROVE  OneLife'
<1>1. CreatedFirst'
  BY DEF OneLife, CreatedFirst
<1>2. NumbersGrow'
  BY DEF OneLife, NumbersGrow
<1>3. PurposesAreTrue'
  BY DEF OneLife, PurposesAreTrue
<1>4. MatchesFit'
  BY DEF OneLife, MatchesFit, Fits
<1> QED
  BY <1>1, <1>2, <1>3, <1>4 DEF OneLife

\* The next number is a new one.
LEMMA CreateKeeps ==
  ASSUME TypeOK, OneLife,
         NEW i \in Invoices, NEW c \in Clients, NEW a \in Amounts,
         CreateInvoice(i, c, a)
  PROVE  OneLife'
<1>1. /\ counter \in Nat
      /\ counter' = counter + 1
      /\ number' = [number EXCEPT ![i] = counter + 1]
      /\ client' = [client EXCEPT ![i] = c]
      /\ total' = [total EXCEPT ![i] = a]
      /\ UNCHANGED <<restarts, status, bank, transfer, matches, job>>
  BY DEF CreateInvoice, NextNumber, TypeOK
<1>2. ~ Created(i)
  BY DEF CreateInvoice, Created
<1>3. \A j \in Stored : number[j] # counter + 1
  <2>1. \A j \in Stored :
          number[j] \in Nat /\ number[j] <= counter
    BY DEF Stored, OneLife, CreatedFirst, NumbersGrow, TypeOK
  <2> QED
    BY <1>1, <2>1
<1>4. /\ creating' = [creating EXCEPT ![i] = "flushed"]
      /\ ~ refused'
  BY <1>3 DEF CreateInvoice, NextNumber, OneLife
<1>5. \A j \in Invoices : Created(j)' <=> Created(j) \/ j = i
  BY <1>4 DEF Created, TypeOK
<1>6. \A j \in Invoices :
        /\ number'[j] = IF j = i THEN counter + 1 ELSE number[j]
        /\ j # i => client'[j] = client[j] /\ total'[j] = total[j]
  BY <1>1 DEF TypeOK
<1>7. CreatedFirst'
  <2>1. Stored \subseteq Invoices /\ bank \subseteq Invoices
    BY DEF Stored, TypeOK
  <2>2. Stored' = Stored
    BY <1>1 DEF Stored
  <2> QED
    BY <1>1, <1>5, <2>1, <2>2 DEF OneLife, CreatedFirst
<1>8. NumbersGrow'
  <2>1. \A j \in Invoices : number[j] \in Nat
    BY DEF TypeOK
  <2>2. counter + 1 >= FirstNumber
    BY <1>1 DEF OneLife, NumbersGrow, FirstNumber
  <2>3. \A j \in Invoices : Created(j) =>
          number[j] >= FirstNumber /\ number[j] < counter + 1
    BY <1>1, <2>1 DEF OneLife, NumbersGrow
  <2>4. \A j \in Invoices : Created(j)' =>
          number'[j] >= FirstNumber /\ number'[j] <= counter'
    BY <1>1, <1>5, <1>6, <2>1, <2>2, <2>3 DEF FirstNumber
  <2>5. \A j, k \in Invoices :
          Created(j)' /\ Created(k)' /\ number'[j] = number'[k] => j = k
    BY <1>1, <1>5, <1>6, <2>1, <2>3 DEF OneLife, NumbersGrow
  <2> QED
    BY <1>1, <2>2, <2>4, <2>5 DEF NumbersGrow, FirstNumber
<1>9. PurposesAreTrue'
  BY <1>1, <1>2, <1>6 DEF OneLife, PurposesAreTrue, CreatedFirst
<1>10. MatchesFit'
  BY <1>1, <1>2, <1>5, <1>6 DEF OneLife, MatchesFit, CreatedFirst, Fits
<1> QED
  BY <1>1, <1>4, <1>7, <1>8, <1>9, <1>10 DEF OneLife

\* A number a purpose names is the number of one invoice only.
LEMMA CandidatesFit ==
  ASSUME TypeOK, OneLife, NEW t \in Transfers, NEW i \in Candidates(t)
  PROVE  i \in Invoices /\ Created(i) /\ Fits(t, i)
<1>1. i \in Stored /\ i \in Invoices
  BY DEF Candidates, ByNumber, ByPayer, Stored
<1>2. Created(i)
  BY <1>1 DEF OneLife, CreatedFirst
<1>3. CASE i \in ByNumber(t)
  <2>1. number[i] \in Nat /\ number[i] >= FirstNumber
    BY <1>1, <1>2 DEF OneLife, NumbersGrow, TypeOK
  <2>2. transfer[t].number = number[i] /\ transfer[t].number # 0
    BY <1>3, <2>1 DEF ByNumber, FirstNumber
  <2>3. CASE transfer[t].invoice = NoInvoice
    BY <1>1, <1>2, <2>2, <2>3 DEF Fits
  <2>4. CASE transfer[t].invoice # NoInvoice
    <3>1. transfer[t].invoice \in Invoices
      BY <2>4 DEF TypeOK
    <3>2. /\ number[transfer[t].invoice] = number[i]
          /\ Created(transfer[t].invoice)
      BY <2>2, <2>4, <3>1 DEF OneLife, PurposesAreTrue, CreatedFirst
    <3>3. i = transfer[t].invoice
      BY <1>1, <1>2, <3>1, <3>2 DEF OneLife, NumbersGrow
    <3> QED
      BY <1>1, <1>2, <3>3 DEF Fits
  <2> QED
    BY <2>3, <2>4
<1>4. CASE i \in ByPayer(t)
  BY <1>1, <1>2, <1>4 DEF ByPayer, Fits
<1> QED
  BY <1>3, <1>4 DEF Candidates

\* A payment is for an invoice that exists, and names its number or none.
LEMMA PayKeeps ==
  ASSUME TypeOK, JobsHold, OneLife,
         NEW t \in Transfers, NEW i \in Invoices, NEW named \in BOOLEAN,
         NEW payer \in Clients, NEW a \in Amounts,
         Pay(t, i, named, payer, a)
  PROVE  OneLife'
<1>1. /\ transfer[t] = NoPayment
      /\ i \in bank \cup Stored
      /\ UNCHANGED <<counter, restarts, creating, number, client, total, status,
                     bank, matches, job, refused>>
  BY DEF Pay, invoiceVars, history
<1>2. Created(i)
  BY <1>1 DEF OneLife, CreatedFirst
<1>3. PICK n \in {0, number[i]} : transfer' = [transfer EXCEPT ![t] =
        [invoice |-> i, number |-> n, payer |-> payer, amount |-> a]]
  BY DEF Pay
<1>4. /\ transfer'[t].invoice = i
      /\ transfer'[t].number = n
      /\ \A u \in Transfers : u # t => transfer'[u] = transfer[u]
  BY <1>3 DEF TypeOK
<1>5. CreatedFirst'
  BY <1>1, <1>2, <1>4 DEF OneLife, CreatedFirst, Created, Stored
<1>6. NumbersGrow'
  BY <1>1 DEF OneLife, NumbersGrow, Created
<1>7. PurposesAreTrue'
  BY <1>1, <1>4 DEF OneLife, PurposesAreTrue
<1>8. MatchesFit'
  <2>1. \A u \in Transfers, j \in Invoices : j \in matches[u] => u # t
    BY <1>1 DEF OneLife, MatchesFit
  <2>2. \A r \in Requests : job[r].kind = "webhook" =>
          job[r].transfer \in Transfers /\ job[r].transfer # t
    BY <1>1 DEF JobsHold
  <2> QED
    BY <1>1, <1>4, <2>1, <2>2 DEF OneLife, MatchesFit, Fits, Created
<1> QED
  BY <1>1, <1>5, <1>6, <1>7, <1>8 DEF OneLife

\* A webhook without a transfer is for no invoice.
LEMMA UnsignedKeeps ==
  ASSUME TypeOK, JobsHold, OneLife,
         NEW t \in Transfers, NEW n \in Nameable, NEW payer \in Clients,
         NEW a \in Amounts, Unsigned(t, n, payer, a)
  PROVE  OneLife'
<1>1. /\ transfer[t] = NoPayment
      /\ UNCHANGED <<counter, restarts, creating, number, client, total, status,
                     bank, matches, job, refused>>
  BY DEF Unsigned, invoiceVars, history
<1>2. /\ transfer'[t].invoice = NoInvoice
      /\ \A u \in Transfers : u # t => transfer'[u] = transfer[u]
  BY DEF TypeOK, Unsigned
<1>3. CreatedFirst'
  BY <1>1, <1>2 DEF OneLife, CreatedFirst, Created, Stored
<1>4. NumbersGrow'
  BY <1>1 DEF OneLife, NumbersGrow, Created
<1>5. PurposesAreTrue'
  BY <1>1, <1>2 DEF OneLife, PurposesAreTrue
<1>6. MatchesFit'
  <2>1. \A u \in Transfers, j \in Invoices : j \in matches[u] => u # t
    BY <1>1 DEF OneLife, MatchesFit
  <2>2. \A r \in Requests : job[r].kind = "webhook" =>
          job[r].transfer \in Transfers /\ job[r].transfer # t
    BY <1>1 DEF JobsHold
  <2> QED
    BY <1>1, <1>2, <2>1, <2>2 DEF OneLife, MatchesFit, Fits, Created
<1> QED
  BY <1>1, <1>3, <1>4, <1>5, <1>6 DEF OneLife

\* A webhook is matched to what its request has found.
LEMMA WebhookKeeps ==
  ASSUME TypeOK, JobsHold, OneLife, NEW r \in Requests, CommitWebhook(r)
  PROVE  OneLife'
<1> DEFINE t == job[r].transfer
           i == job[r].invoice
<1>1. /\ t \in Transfers
      /\ transfer[t] # NoPayment
      /\ i \in Invoices \cup {NoInvoice}
      /\ i \in Invoices => Created(i) /\ Fits(t, i)
  BY DEF CommitWebhook, JobsHold, OneLife, MatchesFit, CreatedFirst, TypeOK
<1>2. /\ matches' = [matches EXCEPT ![t] = @ \cup {i}]
      /\ \/ status' = status
         \/ i # NoInvoice /\ status' = [status EXCEPT ![i] = "paid"]
      /\ job' = [job EXCEPT ![r] = Idle]
      /\ UNCHANGED <<counter, restarts, creating, number, client, total, bank,
                     transfer, refused>>
  BY DEF CommitWebhook, StatusAfterWebhook, history
<1> HIDE DEF t, i
<1>3. \A q \in Requests : job'[q] = IF q = r THEN Idle ELSE job[q]
  BY <1>2 DEF TypeOK
<1>4. \A j \in Invoices : j \in Stored' => Created(j)
  <2>1. \A j \in Invoices : status'[j] = status[j] \/ j = i
    BY <1>2 DEF TypeOK
  <2> QED
    BY <1>1, <2>1 DEF Stored, OneLife, CreatedFirst
<1>5. CreatedFirst'
  BY <1>2, <1>3, <1>4 DEF OneLife, CreatedFirst, Created, Stored, Idle,
                          TypeOK, BillingAssumption
<1>6. NumbersGrow' /\ PurposesAreTrue'
  BY <1>2 DEF OneLife, NumbersGrow, PurposesAreTrue, Created
<1>7. MatchesFit'
  <2>1. /\ matches'[t] = matches[t] \cup {i}
        /\ \A u \in Transfers : u # t => matches'[u] = matches[u]
    BY <1>1, <1>2 DEF TypeOK
  <2>2. \A u \in Transfers, j \in Invoices : j \in matches'[u] =>
          Created(j) /\ Fits(u, j) /\ transfer[u] # NoPayment
    BY <1>1, <2>1 DEF OneLife, MatchesFit
  <2>3. \A q \in Requests :
          job'[q].kind = "webhook" => job'[q] = job[q]
    BY <1>3 DEF Idle
  <2> QED
    BY <1>2, <2>2, <2>3 DEF OneLife, MatchesFit, Fits, Created
<1> QED
  BY <1>2, <1>5, <1>6, <1>7 DEF OneLife

\* Until the first restart, no step breaks it.
LEMMA OneLifeStep ==
  ASSUME TypeOK, JobsHold, OneLife, [Next]_vars, restarts' = 0
  PROVE  OneLife'
<1>1. ASSUME NEW i \in Invoices,
             PushToTochka(i) \/ CommitInvoice(i) \/ AbortInvoice(i)
      PROVE  OneLife'
  <2>1. /\ UNCHANGED <<counter, restarts, number, client, total, transfer,
                       matches, job, refused>>
        /\ creating[i] # "none"
        /\ \E outcome \in Progress \ {"none"} :
             creating' = [creating EXCEPT ![i] = outcome]
        /\ bank' = bank \/ bank' = bank \cup {i}
        /\ \/ status' = status
           \/ \E new \in {"sent", "draft"} :
                status' = [status EXCEPT ![i] = new]
    BY <1>1 DEF PushToTochka, CommitInvoice, AbortInvoice, history, Progress
  <2>2. \A j \in Invoices : Created(j)' <=> Created(j)
    BY <2>1 DEF Created, TypeOK
  <2>3. Created(i)
    BY <2>1 DEF Created
  <2>4. \A j \in Invoices : status'[j] = status[j] \/ j = i
    BY <2>1 DEF TypeOK
  <2>5. \A j \in Stored' \cup bank' : j \in Invoices /\ Created(j)
    BY <2>1, <2>3, <2>4 DEF Stored, OneLife, CreatedFirst, TypeOK
  <2> QED
    BY <2>1, <2>2, <2>5, QuietStep
<1>2. ASSUME NEW r \in Requests,
             NEW j, j \in Job, job' = job \/ job' = [job EXCEPT ![r] = j],
             j.invoice \in Invoices =>
               /\ Created(j.invoice)
               /\ j.kind = "webhook" => Fits(j.transfer, j.invoice),
             NEW i, status' = status \/ status' = [status EXCEPT ![i] = "sent"],
             i \in Invoices => Created(i),
             UNCHANGED <<counter, restarts, creating, number, client, total,
                         bank, transfer, matches, refused>>
      PROVE  OneLife'
  <2>1. \A q \in Requests : job'[q] = job[q] \/ job'[q] = j
    BY <1>2 DEF TypeOK
  <2>2. \A k \in Invoices : status'[k] = status[k] \/ k = i
    BY <1>2 DEF TypeOK
  <2>3. \A k \in Stored' \cup bank' : k \in Invoices /\ Created(k)
    BY <1>2, <2>2 DEF Stored, OneLife, CreatedFirst, TypeOK
  <2>4. \A k \in Invoices : Created(k)' <=> Created(k)
    BY <1>2 DEF Created
  <2> QED
    BY <1>2, <2>1, <2>3, <2>4, QuietStep
<1>3. ASSUME Reconcile \/ UNCHANGED vars
      PROVE  OneLife'
  <2>1. UNCHANGED <<counter, restarts, creating, number, client, total, status,
                    bank, transfer, matches, job, refused>>
    BY <1>3 DEF Reconcile, vars, invoiceVars, history
  <2> QED
    BY <2>1 DEF OneLife, CreatedFirst, NumbersGrow, PurposesAreTrue, MatchesFit,
                Created, Fits, Stored
<1>4. ~ Restart
  BY DEF Restart, TypeOK
<1>5. ASSUME NEW i \in Invoices, InvoiceStep(i)
      PROVE  OneLife'
  BY <1>1, <1>5, CreateKeeps DEF InvoiceStep
<1>6. ASSUME NEW r \in Requests, RequestStep(r)
      PROVE  OneLife'
  <2> USE DEF invoiceVars, history
  <2>1. Idle \in Job /\ Idle.invoice \notin Invoices
    BY IdleType DEF Idle, BillingAssumption
  <2>2. job[r].invoice \in Invoices => Created(job[r].invoice)
    BY DEF OneLife, CreatedFirst
  <2>3. ASSUME NEW i \in Invoices, LoadInvoice(r, i)
        PROVE  OneLife'
    <3> DEFINE j == [Idle EXCEPT !.kind = "send", !.invoice = i,
                                 !.seen = status[i]]
    <3>1. j \in Job /\ j.kind = "send" /\ j.invoice = i
      BY DEF TypeOK, Idle, Job
    <3>2. Created(i) /\ status' = status /\ job' = [job EXCEPT ![r] = j]
      BY <2>3 DEF LoadInvoice, OneLife, CreatedFirst
    <3>3. UNCHANGED <<counter, restarts, creating, number, client, total,
                      bank, transfer, matches, refused>>
      BY <2>3 DEF LoadInvoice
    <3> HIDE DEF j
    <3> QED
      BY <1>2, <3>1, <3>2, <3>3
  <2>4. CASE CommitSend(r)
    <3>1. /\ \/ status' = status
             \/ status' = [status EXCEPT ![job[r].invoice] = "sent"]
          /\ job' = [job EXCEPT ![r] = Idle]
          /\ UNCHANGED <<counter, restarts, creating, number, client, total,
                         bank, transfer, matches, refused>>
      BY <2>4 DEF CommitSend, StatusAfterSend
    <3> QED
      BY <1>2, <2>1, <2>2, <3>1
  <2>5. ASSUME NEW t \in Transfers, ReceiveWebhook(r, t)
        PROVE  OneLife'
    <3>1. /\ status' = status
          /\ UNCHANGED <<counter, restarts, creating, number, client, total,
                         bank, transfer, matches, refused>>
      BY <2>5 DEF ReceiveWebhook
    <3>2. CASE job' = [job EXCEPT ![r] = [Idle EXCEPT !.kind = "webhook",
                                                      !.transfer = t]]
      <4> DEFINE j == [Idle EXCEPT !.kind = "webhook", !.transfer = t]
      <4>1. j \in Job /\ j.invoice = NoInvoice
        BY DEF Idle, Job
      <4>2. j.invoice \notin Invoices
        BY <4>1 DEF BillingAssumption
      <4>3. job' = [job EXCEPT ![r] = j]
        BY <3>2
      <4> HIDE DEF j
      <4> QED
        BY <1>2, <3>1, <4>1, <4>2, <4>3
    <3>3. ASSUME NEW i \in Candidates(t),
                 job' = [job EXCEPT ![r] =
                   [kind |-> "webhook", transfer |-> t, invoice |-> i,
                    seen |-> status[i]]]
          PROVE  OneLife'
      <4> DEFINE j == [kind |-> "webhook", transfer |-> t, invoice |-> i,
                       seen |-> status[i]]
      <4>1. i \in Invoices /\ Created(i) /\ Fits(t, i)
        BY CandidatesFit
      <4>2. j \in Job /\ j.invoice = i /\ j.transfer = t
        BY <4>1 DEF TypeOK, Job
      <4>3. job' = [job EXCEPT ![r] = j]
        BY <3>3
      <4> HIDE DEF j
      <4> QED
        BY <1>2, <3>1, <4>1, <4>2, <4>3
    <3>4. \/ job' = [job EXCEPT ![r] = [Idle EXCEPT !.kind = "webhook",
                                                    !.transfer = t]]
          \/ \E i \in Candidates(t) :
               job' = [job EXCEPT ![r] =
                 [kind |-> "webhook", transfer |-> t, invoice |-> i,
                  seen |-> status[i]]]
      BY <2>5 DEF ReceiveWebhook
    <3> QED
      BY <3>2, <3>3, <3>4
  <2>6. CASE AbortJob(r)
    <3>1. /\ job' = [job EXCEPT ![r] = Idle]
          /\ status' = status
          /\ UNCHANGED <<counter, restarts, creating, number, client, total,
                         bank, transfer, matches, refused>>
      BY <2>6 DEF AbortJob
    <3> QED
      BY <1>2, <2>1, <3>1
  <2>7. CASE CommitWebhook(r)
    BY <2>7, WebhookKeeps
  <2> QED
    BY <1>6, <2>3, <2>4, <2>5, <2>6, <2>7 DEF RequestStep
<1> QED
  BY <1>3, <1>4, <1>5, <1>6, PayKeeps, UnsignedKeeps DEF Next

\* It holds at first.
LEMMA OneLifeInit ==
  ASSUME Init
  PROVE  OneLife
<1>1. CreatedFirst
  BY DEF Init, CreatedFirst, Stored, NoPayment, Idle, BillingAssumption
<1>2. NumbersGrow
  BY DEF Init, NumbersGrow, Created, FirstNumber
<1>3. PurposesAreTrue /\ MatchesFit
  BY DEF Init, PurposesAreTrue, MatchesFit, NoPayment, Idle
<1> QED
  BY <1>1, <1>2, <1>3 DEF Init, OneLife

\* It holds until the API process is restarted for the first time.
THEOREM OneLifeInvariance == Spec => [](restarts = 0 => OneLife)
<1>1. ASSUME TypeOK, [Next]_vars, restarts' = 0
      PROVE  restarts = 0
  <2>1. ~ Restart
    BY <1>1 DEF Restart, TypeOK
  <2> QED
    BY <1>1, <2>1
    DEF Next, InvoiceStep, RequestStep, CreateInvoice, PushToTochka,
        CommitInvoice, AbortInvoice, LoadInvoice, CommitSend, ReceiveWebhook,
        CommitWebhook, AbortJob, Pay, Unsigned, Reconcile, vars
<1>2. Inv /\ (restarts = 0 => OneLife) /\ [Next]_vars
        => (restarts = 0 => OneLife)'
  BY <1>1, OneLifeStep DEF Inv
<1> QED
  BY <1>2, OneLifeInit, Invariance, PTL DEF Spec

\* In one life of the API process no transfer settles a wrong invoice.
THEOREM PaymentsAreSettledRight == Spec => []SettlesWhatFits
<1>1. (restarts = 0 => OneLife) => SettlesWhatFits
  BY DEF OneLife, MatchesFit, Fits, SettlesWhatFits
<1> QED
  BY <1>1, OneLifeInvariance, PTL

\* In one life of the API process no creation meets a number that is taken.
THEOREM CreationsAreServed == Spec => []CreationIsServed
<1>1. (restarts = 0 => OneLife) => CreationIsServed
  BY DEF OneLife, CreationIsServed
<1> QED
  BY <1>1, OneLifeInvariance, PTL
=============================================================================
