------------------------------ MODULE Billing ------------------------------
(***************************************************************************)
(* Invoices, the bank that collects them, and the webhooks that settle     *)
(* them: backend/app/services/tochka_service.py and the endpoints of       *)
(* backend/app/api/v1/billing.py.                                          *)
(*                                                                         *)
(* An invoice takes the next number of a counter in the memory of the API  *)
(* process, is inserted and flushed, sent to the bank over HTTP, and       *)
(* committed after that.  The bank delivers a webhook for every transfer   *)
(* it receives, more than once if need be; the handler looks for the       *)
(* invoice and commits what it has found together with the webhook's row.  *)
(* A webhook without a signature is taken as it comes: the signature is    *)
(* only compared when a secret is configured and a signature is sent.      *)
(*                                                                         *)
(* All invoice numbers are those of one month (it is part of the number).  *)
(***************************************************************************)
EXTENDS Naturals, FiniteSets

CONSTANTS
  Requests,      \* webhook and send requests that may be in flight
  Invoices,      \* identities of the invoices
  Clients,
  Amounts,       \* totals an invoice may have
  Transfers,     \* identities of what webhooks report: bank transfers, or nothing real
  MaxRestarts,   \* bound: restarts of the API process
  NoInvoice, NoTransfer, NoClient

ASSUME BillingAssumption ==
  /\ Amounts \subseteq Nat
  /\ MaxRestarts \in Nat
  /\ NoInvoice \notin Invoices
  /\ NoTransfer \notin Transfers
  /\ NoClient \notin Clients

VARIABLES
  counter,       \* _invoice_seq of the running process
  restarts,
  creating,      \* where the request that creates each invoice stands
  number,        \* invoice_number
  client,        \* client_id
  total,         \* total_amount
  status,        \* committed status ("absent": no such row)
  bank,          \* invoices the bank knows
  transfer,      \* what the webhook of each transfer says
  matches,       \* for each transfer, what its webhook rows are matched to
  job,           \* the other requests, with what they have loaded
  \* history
  refused,       \* a creation ended in a duplicate number
  overwritten,   \* paid invoices that a late request to send wrote "sent" over
  overlooked     \* transfers a reconciliation could have matched

invoiceVars == <<creating, number, client, total, status>>
history     == <<refused, overwritten, overlooked>>
vars == <<counter, restarts, invoiceVars, bank, transfer, matches, job, history>>

InvoiceStatus == {"draft", "sent", "paid"}
Progress == {"none", "flushed", "accepted", "unanswered", "closed"}

\* "invoice" is the one the client means to pay (of a webhook without a transfer
\* behind it: none), "number" the one the purpose names (0: none).
NoPayment == [invoice |-> NoInvoice, number |-> 0, payer |-> NoClient,
              amount |-> 0]

Idle == [kind |-> "idle", transfer |-> NoTransfer, invoice |-> NoInvoice,
         seen |-> "absent"]

FirstNumber == 1001

TypeOK ==
  /\ counter \in Nat
  /\ restarts \in Nat
  /\ creating \in [Invoices -> Progress]
  /\ number \in [Invoices -> Nat]
  /\ client \in [Invoices -> Clients \cup {NoClient}]
  /\ total \in [Invoices -> Nat]
  /\ status \in [Invoices -> InvoiceStatus \cup {"absent"}]
  /\ bank \subseteq Invoices
  /\ transfer \in [Transfers -> [invoice : Invoices \cup {NoInvoice},
                                 number  : Nat,
                                 payer   : Clients \cup {NoClient},
                                 amount  : Nat]]
  /\ matches \in [Transfers -> SUBSET (Invoices \cup {NoInvoice})]
  /\ job \in [Requests -> [kind     : {"idle", "webhook", "send"},
                           transfer : Transfers \cup {NoTransfer},
                           invoice  : Invoices \cup {NoInvoice},
                           seen     : InvoiceStatus \cup {"absent"}]]
  /\ refused \in BOOLEAN
  /\ overwritten \subseteq Invoices
  /\ overlooked \subseteq Transfers

Init ==
  /\ counter = FirstNumber - 1
  /\ restarts = 0
  /\ creating = [i \in Invoices |-> "none"]
  /\ number = [i \in Invoices |-> 0]
  /\ client = [i \in Invoices |-> NoClient]
  /\ total = [i \in Invoices |-> 0]
  /\ status = [i \in Invoices |-> "absent"]
  /\ bank = {}
  /\ transfer = [t \in Transfers |-> NoPayment]
  /\ matches = [t \in Transfers |-> {}]
  /\ job = [r \in Requests |-> Idle]
  /\ refused = FALSE
  /\ overwritten = {}
  /\ overlooked = {}

Stored == {i \in Invoices : status[i] # "absent"}

-----------------------------------------------------------------------------
(* POST /invoices                                                          *)

NextNumber == counter + 1

\* The number is taken and the row inserted; a number already in the table
\* breaks the unique constraint.
CreateInvoice(i, c, a) ==
  /\ creating[i] = "none"
  /\ counter' = NextNumber
  /\ number' = [number EXCEPT ![i] = NextNumber]
  /\ client' = [client EXCEPT ![i] = c]
  /\ total' = [total EXCEPT ![i] = a]
  /\ IF \E j \in Stored : number[j] = NextNumber
       THEN /\ creating' = [creating EXCEPT ![i] = "closed"]
            /\ refused' = TRUE
       ELSE /\ creating' = [creating EXCEPT ![i] = "flushed"]
            /\ UNCHANGED refused
  /\ UNCHANGED <<restarts, status, bank, transfer, matches, job,
                 overwritten, overlooked>>

\* The bank creates the invoice, and its answer arrives or does not.  (A
\* push the bank refuses, or does not receive, changes nothing.)
PushToTochka(i) ==
  /\ creating[i] = "flushed"
  /\ bank' = bank \cup {i}
  /\ \E outcome \in {"accepted", "unanswered"} :
       creating' = [creating EXCEPT ![i] = outcome]
  /\ UNCHANGED <<counter, restarts, number, client, total, status, transfer,
                 matches, job, history>>

\* Without an answer from the bank the invoice is committed as a draft.
CommitInvoice(i) ==
  /\ creating[i] \in {"flushed", "accepted", "unanswered"}
  /\ status' = [status EXCEPT ![i] =
       IF creating[i] = "accepted" THEN "sent" ELSE "draft"]
  /\ creating' = [creating EXCEPT ![i] = "closed"]
  /\ UNCHANGED <<counter, restarts, number, client, total, bank, transfer,
                 matches, job, history>>

\* The request is cut off, or its commit fails: the row is rolled back, the
\* number stays taken and the bank keeps what it was told.
AbortInvoice(i) ==
  /\ creating[i] \in {"flushed", "accepted", "unanswered"}
  /\ creating' = [creating EXCEPT ![i] = "closed"]
  /\ UNCHANGED <<counter, restarts, number, client, total, status, bank,
                 transfer, matches, job, history>>

-----------------------------------------------------------------------------
(* POST /invoices/{id}/send                                                *)

LoadInvoice(r, i) ==
  /\ job[r].kind = "idle"
  /\ i \in Stored
  /\ job' = [job EXCEPT ![r] = [Idle EXCEPT !.kind = "send", !.invoice = i,
                                            !.seen = status[i]]]
  /\ UNCHANGED <<counter, restarts, invoiceVars, bank, transfer, matches,
                 history>>

\* Mutant: an invoice is sent whatever it was loaded as.
SendsAnyway(r) == [status EXCEPT ![job[r].invoice] = "sent"]

\* An invoice loaded as a draft becomes sent, whatever it is by then.
StatusAfterSend(r) ==
  IF job[r].seen = "draft" THEN [status EXCEPT ![job[r].invoice] = "sent"] ELSE status

CommitSend(r) ==
  /\ job[r].kind = "send"
  /\ status' = StatusAfterSend(r)
  /\ overwritten' = overwritten \cup
       {i \in Invoices : i = job[r].invoice /\ job[r].seen = "draft" /\ status[i] = "paid"}
  /\ job' = [job EXCEPT ![r] = Idle]
  /\ UNCHANGED <<counter, restarts, creating, number, client, total, bank,
                 transfer, matches, refused, overlooked>>

-----------------------------------------------------------------------------
(* The client pays, through the bank's link or by a transfer of their own  *)

\* Anyone may pay any amount; the purpose names the invoice's number or not.
Pay(t, i, named, payer, a) ==
  /\ transfer[t] = NoPayment
  /\ i \in bank \cup Stored
  /\ transfer' = [transfer EXCEPT ![t] =
       [invoice |-> i, number |-> IF named THEN number[i] ELSE 0,
        payer |-> payer, amount |-> a]]
  /\ UNCHANGED <<counter, restarts, invoiceVars, bank, matches, job, history>>

-----------------------------------------------------------------------------
(* POST /webhooks/tochka                                                   *)

\* Numbers given out, the next one, and none.
Nameable == {0, NextNumber} \cup {number[i] : i \in Invoices}

\* A webhook without a signature may report what never was: a purpose with a
\* number or without, a payer and an amount.
Unsigned(t, n, payer, a) ==
  /\ transfer[t] = NoPayment
  /\ transfer' = [transfer EXCEPT ![t] =
       [invoice |-> NoInvoice, number |-> n, payer |-> payer, amount |-> a]]
  /\ UNCHANGED <<counter, restarts, invoiceVars, bank, matches, job, history>>

\* The committed invoice whose number the purpose names.
ByNumber(t) == {i \in Stored : number[i] = transfer[t].number}

\* Mutant: the payer is not looked at.
ByAmountOnly(t) ==
  {i \in Stored : total[i] = transfer[t].amount /\ status[i] = "sent"}

\* The open invoices of the payer with this amount.
ByPayer(t) ==
  {i \in Stored : /\ client[i] = transfer[t].payer
                  /\ total[i] = transfer[t].amount
                  /\ status[i] = "sent"}

Candidates(t) == IF ByNumber(t) # {} THEN ByNumber(t) ELSE ByPayer(t)

\* The webhook's row is flushed and an invoice looked for.  With two
\* candidates scalar_one_or_none raises, the row is rolled back and nothing
\* has changed: there is no such step.
ReceiveWebhook(r, t) ==
  /\ job[r].kind = "idle"
  /\ transfer[t] # NoPayment
  /\ \/ /\ Candidates(t) = {}
        /\ job' = [job EXCEPT ![r] = [Idle EXCEPT !.kind = "webhook",
                                                  !.transfer = t]]
     \/ \E i \in Candidates(t) :
          /\ Candidates(t) = {i}
          /\ job' = [job EXCEPT ![r] =
               [kind |-> "webhook", transfer |-> t, invoice |-> i,
                seen |-> status[i]]]
  /\ UNCHANGED <<counter, restarts, invoiceVars, bank, transfer, matches,
                 history>>

\* The matched invoice is paid; the column is written if it was not.
StatusAfterWebhook(r) ==
  IF job[r].invoice = NoInvoice \/ job[r].seen = "paid" THEN status
  ELSE [status EXCEPT ![job[r].invoice] = "paid"]

CommitWebhook(r) ==
  LET t == job[r].transfer IN
    /\ job[r].kind = "webhook"
    /\ matches' = [matches EXCEPT ![t] = @ \cup {job[r].invoice}]
    /\ status' = StatusAfterWebhook(r)
    /\ job' = [job EXCEPT ![r] = Idle]
    /\ UNCHANGED <<counter, restarts, creating, number, client, total, bank,
                   transfer, history>>

AbortJob(r) ==
  /\ job[r].kind # "idle"
  /\ job' = [job EXCEPT ![r] = Idle]
  /\ UNCHANGED <<counter, restarts, invoiceVars, bank, transfer, matches,
                 history>>

-----------------------------------------------------------------------------
(* POST /reconcile                                                         *)

\* Transfers that are not matched although the invoice they name is there.
Unmatched ==
  {t \in Transfers : /\ matches[t] = {NoInvoice} /\ ByNumber(t) # {}
                     /\ transfer[t].invoice # NoInvoice}

\* "where(not BankWebhook.is_matched)": Python's "not" makes the condition
\* the constant false, so no webhook is selected and nothing is matched.
Reconcile ==
  /\ Unmatched # {}
  /\ overlooked' = overlooked \cup Unmatched
  /\ UNCHANGED <<counter, restarts, invoiceVars, bank, transfer, matches, job,
                 refused, overwritten>>

-----------------------------------------------------------------------------
\* The API process is restarted: requests in flight are lost, and the counter
\* starts again.
Restart ==
  /\ restarts < MaxRestarts
  /\ restarts' = restarts + 1
  /\ counter' = FirstNumber - 1
  /\ creating' = [i \in Invoices |->
       IF creating[i] = "none" THEN "none" ELSE "closed"]
  /\ job' = [r \in Requests |-> Idle]
  /\ UNCHANGED <<number, client, total, status, bank, transfer, matches,
                 history>>

InvoiceStep(i) ==
  \/ \E c \in Clients, a \in Amounts : CreateInvoice(i, c, a)
  \/ PushToTochka(i)
  \/ CommitInvoice(i)
  \/ AbortInvoice(i)

RequestStep(r) ==
  \/ \E i \in Invoices : LoadInvoice(r, i)
  \/ CommitSend(r)
  \/ \E t \in Transfers : ReceiveWebhook(r, t)
  \/ CommitWebhook(r)
  \/ AbortJob(r)

Next ==
  \/ \E i \in Invoices : InvoiceStep(i)
  \/ \E r \in Requests : RequestStep(r)
  \/ \E t \in Transfers, i \in Invoices, named \in BOOLEAN,
        payer \in Clients, a \in Amounts : Pay(t, i, named, payer, a)
  \/ \E t \in Transfers, n \in Nameable, payer \in Clients, a \in Amounts :
        Unsigned(t, n, payer, a)
  \/ Reconcile
  \/ Restart

Spec == Init /\ [][Next]_vars

-----------------------------------------------------------------------------
(* Properties                                                              *)

\* Until the API process is restarted, a transfer settles the invoice it is
\* meant for or one of the payer's own with the same amount, and nothing else:
\* also when the invoice was pushed to the bank and then rolled back, and when
\* webhooks are delivered twice.  (After a restart a number can be given out
\* again that a purpose already names.)  A webhook with no transfer behind it
\* settles no more than what it names.
SettlesWhatFits ==
  restarts = 0 =>
    \A t \in Transfers, i \in Invoices :
      i \in matches[t] =>
        \/ i = transfer[t].invoice
        \/ client[i] = transfer[t].payer /\ total[i] = transfer[t].amount
        \/ transfer[t].invoice = NoInvoice /\ number[i] = transfer[t].number

\* Invoices and webhooks stand together, in spite of requests that overlap,
\* rollbacks and restarts: what is paid has a webhook matched to it, and what a
\* webhook was matched to is paid, unless a request to send it that had loaded
\* it as a draft before the payment wrote "sent" over it.
PaymentsStand ==
  \A i \in Invoices :
    LET settled == \E t \in Transfers : i \in matches[t] IN
      /\ status[i] = "paid" => settled
      /\ settled => status[i] = "paid" \/ i \in overwritten

\* Until the API process is restarted, no two creations get the same number,
\* so none is refused, whatever is rolled back.
CreationIsServed == restarts = 0 => ~refused

\* Reconciliation leaves no webhook unmatched that names an invoice.
ReconciliationMatches == overlooked = {}
=============================================================================
