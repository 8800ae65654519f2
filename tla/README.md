# Verification of the bankruptcy platform

TLA+ models of the platform under `src/`, checked with TLC on small instances, and
theorems about them proved with TLAPS for every instance. All paths below are relative
to `src/`; `app/` stands for `backend/app/`.

    tlc -workers 2 -config TaskQueuePool.cfg MCTaskQueue     # a run: see "Runs"
    tlapm TaskQueueProofs.tla                                # a proof module

## 1. The system

The platform runs a bankruptcy practice: leads become clients with cases, cases collect
documents, go through a court procedure, and are paid for.

| Part | Code | State | Operations | Talks to |
|---|---|---|---|---|
| AI task queue and worker | `app/services/worker.py`, `app/api/v1/documents.py`, `ai.py` | tables `ai_tasks`, `documents`; a Redis list; the object store | upload, submit, validate; pop, claim, finish, fail | AI core by HTTP |
| Case state machine | `app/services/case_machine.py`, `app/api/v1/cases.py` | `cases.status`, the case's events | `PATCH /cases/{id}` | - |
| Creditor register | `app/api/v1/cases.py` | `creditors`, `cases.total_debt` | add a creditor | - |
| Completeness checklist | `app/services/completeness/` | `case_checklist_items` | create, auto-match, review, bulk update | documents of the case |
| Drafts and SMS signatures | `app/services/document_service.py`, `esign_service.py`, `app/api/v1/billing.py` | `document_drafts`, `e_signatures` | generate, approve, send, initiate, verify | SMS gateway |
| Billing | `app/services/tochka_service.py`, `app/api/v1/billing.py` | `invoices`, `payments`; invoice counter in memory | create, send, webhook, reconcile | the bank's API and webhooks |
| Lead collection, outreach, conversion | `app/services/lead_collector/`, `backend/workers/` | `leads`, `clients`, `cases` | collect, send messages, convert | registers, SMS, e-mail, Telegram |
| Prospecting | `app/services/prospecting/` | `prospects` | receive, enrich, convert, reject | leads |
| Client login | `app/api/v1/client_auth.py` | codes in a dictionary | send code, verify | SMS |
| Lead generation service | `leadgen/` | its own schema | events, qualification callback, conversion | AI studio, CRM by HTTP |
| LLM router | `ai-core/llm/router.py` | health of each provider in memory | complete, classify, extract, embed | language models |
| Other agents | rest of `ai-core/agents`, `ocr`, `rag` | vectors | answers | language models |
| Qualification | `ai-core/main.py`, `ai-core/agents/qualification.py` | estimates in Redis, for a day | `/qualify` | language models, Redis |
| AI endpoints of the site | `app/api/v1/ai.py` | `ai_tasks`, `clients`, `cases` | qualify, chat, consultant; lead of the chat | AI core by HTTP |
| Client cabinet | `app/api/v1/client_cabinet.py`, `app/services/document_checklist.py` | `consultations`, `messages`, `notifications`, events | book, cancel, ask, write; show case, progress and documents | cases, documents |
| Staff and access | `app/api/v1/users.py`, `auth.py`, `staff.py`, `app/core/`, `backend/alembic/versions/010_rbac_rls.py` | `users`, `tasks`; the row policies | seed, register, (de)activate, assign, move a task | every table with a policy |
| Telegram bot | `backend/integrations/telegram_bot.py` | offset and sessions in memory | poll, handle | Telegram, AI core |
| Deadlines, reminders | `app/services/deadline_checker.py`, `completeness/scheduler.py` | `deadlines`, `notifications` | - (called by nothing) | - |
| Files, library, anticollector, frontends | rest of `app/api`, `*-frontend`, `mobile` | rows, objects and forms | reads and single writes | the API |

`PROJECT.json` lists all of them with the reason why one is not modelled.

**How it is concurrent.** The API is one asynchronous process; workers are containers of
their own (`docker-compose.yml`). Everything is shared through Postgres at READ COMMITTED.
Nothing locks a row and no table has a version column. The ORM's habits decide what an
overlap does, and every module follows them:

- a handler loads an object, checks it, awaits something, changes it and commits: other
  handlers run at every await, so *load* and *commit* are separate actions;
- a commit writes only the columns that differ from the values that were loaded, so
  overlapping commits merge by column and a stale check is not noticed;
- a session that is closed without a commit (an exception, a refusal raised as
  `ValueError`, a killed process) undoes all its rows - but no message, no file, no
  Redis entry and no invoice at the bank (`app/db/session.py:17-22`).

A flush and the commit after it are one step of the models, as are the SQL statements of
one handler between which nothing but the database is awaited and no decision is made.

**What is hard.** Stale checks and merged rows; ids that are in Redis before their rows are
committed; workers that die; a Redis that forgets; the bank that knows of an invoice that was
rolled back and sends the same webhook again; messages that are sent and then not recorded;
counters that a restart resets; providers, models and services that fail half-way; a phone that
is somebody else's by the time its code is entered. `PROJECT.json` lists each hazard at its line
with the properties that watch it.

**What makes each part correct.**

- *Task queue*: a task is never silently stuck, given up early or run from an upload that
  was never committed; every task settles; a lawyer's decision stands.
- *Case*: the timeline tells what happened; no discharge without a hearing. *Creditors*: the
  total is a sum of creditors that exist.
- *Checklist*: nothing is approved that nobody reviewed; auto-match attaches real documents
  and leaves lawyers' links alone.
- *Drafts*: nothing is signed that no lawyer approved or without a completed signature.
- *Billing*: what is paid stays paid, and is paid by a webhook that named it; a transfer
  settles the invoice it is for.
- *Leads*: the limits on messages, channel by channel, duplicates left alone, one client per
  person, no lead forgotten.
- *Prospecting, lead generation service, chat*: rows of one person are found again or refused,
  never crossed with another's; what is converted has the client it names; who was told of an
  error may try again.
- *LLM router*: a reliable provider is reached by every completion and stays trusted; nobody
  is skipped for ever. *Qualification*: everybody gets an estimate, and a fair one.
- *Login and cabinet*: a code lets one client in, the one it was for; what is stored
  and shown is the client's own, and belongs together unless staff moved the case in between.
- *Staff*: handlers and row policies agree, and where they do not it is known in what;
  somebody can always administer the accounts.
- *Bot*: no update is lost, none returns but for a restart, dialogues are complete.

## 2. Modules

One module per component. Each has the constants and assumptions first, then the variables
(tables by column, handlers and workers by what they hold), one action per step of a
handler, the next-state relation, the specification, and its properties. `map` in
`PROJECT.json` names the lines of every definition. Operators marked "Mutant" are plausible
mistakes: each property is refuted when one of them takes the place of the code.

| Module | Models | Abstract specification | Proofs |
|---|---|---|---|
| `TaskQueue` | uploads, Redis, workers, retries, validation | `TaskLifecycle` | `TaskQueueProofs` |
| `CaseMachine`, `CaseFile` | the table of transitions; overlapping PATCH requests and the timeline | `CaseLifecycle` | `OfficeProofs` |
| `CreditorRegister` | creditors and the case's total debt | - | `OfficeProofs` |
| `StaffAccess` | accounts, tasks, permissions and row policies | the permissions are what the policies must show | `OfficeProofs` |
| `Signing` | drafts, their versions, signature records and codes | `DraftLifecycle` | `DocumentProofs` |
| `Completeness` | checklist rows, review, bulk update, auto-match | - | `DocumentProofs` |
| `Billing` | invoices, the bank, transfers, webhooks, restarts | - | `BillingProofs` |
| `LeadPipeline` | collector runs, outreach rounds, conversions | - | `LeadProofs` |
| `LLMProviders`, `LLMRouter` | the adapters' translation of errors; chains, retries, health | - | `AIProofs` |
| `Qualification` | `/qualify`: cache, chain of models, rules, scores | - | `AIProofs` |
| `TelegramBot` | updates, offset, sessions, restarts | - | `AIProofs` |
| `LeadGen` | the lead generation service | - | `SalesProofs` |
| `Prospecting` | parser runs, forms, merging, conversion, rejection | - | `SalesProofs` |
| `AIEndpoints` | calls passed to the AI core and the chat's leads | - | `SalesProofs` |
| `ClientLogin` | codes, attempts, tokens | - | `ClientProofs` |
| `ClientCabinet` | consultations, requests, messages; what is shown of them | - | `ClientProofs` |
| `RequiredDocuments`, `ClientDossier` | which documents a case needs; progress and lists, composed with `CaseMachine` | - | `ClientProofs` |
| `Sessions` | the constant `Requests` that the components with overlapping handlers share | - | - |

`MC*` modules compose the components of one run and give TLC their values. They EXTEND the
components, so names are unique across the components of a run: the first of them has `Init`,
`Next`, `Spec` and `TypeOK`, the others names of their own (`RegisterSpec`, `StaffSpec`,
`ChecklistSpec`, `LoginSpec`, `CabinetSpec`, `DossierSpec`, `QualifySpec`, `BotSpec`,
`ProspectSpec`, `ChatSpec`). `*Proofs` modules EXTEND the same components and hold the theorems.

How state and actions correspond to the code:

- **TaskQueue.** `status`, `retry`, `agent`, `taskDoc`, `docs` are columns; `blobs` the
  object store; `queue` the Redis list (LPUSH at the head, RPOP at the tail); `request` where
  each upload handler stands; `pc`, `held` and what they loaded are the worker loop.
  `BeginUpload`, `PushToRedis`, `CommitUpload` are the three stretches of the handler between
  its awaits, in the code's order: the id is pushed *before* the commit. `PopTask`,
  `PopNothing`, `ScanDatabase`, `LoadTask`, `ClaimTask`, `FinishTask`, `FailTask`,
  `CrashWorker` are the loop of `run_worker` and `process_task`. What OCR answers is the
  free choice of `OcrVerdict`. Tasks the API runs itself never enter the queue.
- **CaseFile.** `LoadCase` reads and validates, `CommitCase` writes the status and the
  event. `CaseMachine` is the table itself, with `on_hold` and its ways out.
- **CreditorRegister.** A request flushes its creditor, sums what its transaction sees, and
  commits both.
- **Completeness.** A row is a record of the columns that matter; a request collects `edits`
  (what it loaded, what it will write), and `Merge` writes those that differ. Auto-match
  reads documents and rows first, runs the matcher, then writes.
- **Signing.** A job holds the draft's status as loaded. Codes expire at any time. A refusal
  has no step, for it leaves nothing behind.
- **Billing.** `counter` and `restarts` are the process's memory; `bank` is what the bank
  knows, which a rollback does not undo; a transfer carries what its payer was told. Webhooks
  may be delivered again and before the invoice is committed. `Unsigned` is a webhook with no
  transfer behind it: a signature is looked at only if a secret is configured and one was sent
  (`tochka_service.py:131`), and the endpoint asks for no login. `overwritten` is history.
- **LeadPipeline.** An attempt tries the channels a lead has one after the other until one
  answers (`outreach.py:28-45`): `Delivers`, or `ChannelFails`, whether the message has got out
  or not, and `NoChannel` when all have failed. `tried` and `fresh` count them. A run's `found`
  are the rows of its open transaction, invisible to others. A round keeps what it found of its
  leads until its one commit. A conversion reads whether the client exists and creates one
  later. What a register returns and what a channel answers are free choices. Two leads match if
  they have a phone or an e-mail in common; the fuzzy match of names and the refresh of a stored
  lead's data are left out. `WaitEnds` is the calendar; a round looks at it once, at its start,
  as the code does.
- **LLMRouter.** A call walks along its chain: `Begin`, one step per attempt, a pause
  before a retry, an answer or the next provider. `history` is the health monitor, ages and
  outcomes; `Tick` makes records older. What a provider does is a choice among the faults of
  `LLMProviders`, which says for each of the six adapters which exception a fault becomes.
  `vain` records an answer that was lost after the provider gave it.
- **Qualification.** All requests are for one input (others have other keys). A request asks
  Redis, runs the whole chain of models in one step (the calls block the service's only
  thread), and stores. `Judgements` is what a model may say; the rules and the score are
  operators with the code's boundaries.
- **LeadGen, Prospecting, AIEndpoints.** Requests load and commit, as above. In `LeadGen` the
  client exists in the CRM before the row is committed: `clients` counts what the CRM has
  made, `lost` the commits that failed after it. `overlapped`, `reopened`, `crossed` and
  `joined` are history variables that say what a property excepts. In `Prospecting` a record
  is a value with the columns that deduplication and scoring look at; a parser run merges all
  its records and commits once. In `AIEndpoints` a row that was flushed and not committed is
  nobody's: it is in no variable until the commit. A lead is read back after its commit, in a
  step of its own (`ReadBack`), which may fail or be cut off; `after` is history, the posts whose
  cases were there when a post began.
- **StaffAccess.** A policy is a predicate on a user and a case, with its subquery on cases
  filtered by the policies on cases, as Postgres does it. The checklist's handlers have a check
  of their own besides (`completeness.py:32-68`): `AdmitsToChecklist` is that check, and
  `ServesChecklist` what comes of both. The role is read from the row for
  every request, so `Admits` looks at the present account.
- **ClientLogin, ClientCabinet, ClientDossier.** `pending` is the dictionary of codes.
  A phone may be given to another client at any time. Staff open, close and assign cases
  between the load and the commit of a client's request; `overtaken` and `outdated` are history,
  the requests and items that this has happened to. The dossier follows a case along
  `CaseMachine`, with uploads and their review.
- **TelegramBot.** `offset` and `session` are the memory, `confirmed` what Telegram has been
  told. `Poll` fetches a batch, `Handle` advances the offset and then handles, `Handle` may
  raise, which drops the rest of the batch until the next poll; `Restart` forgets.

## 3. Runs

Every passing run explores its whole state space. Bounds are constants; the sizes are the
smallest at which the interesting thing happens, and the reason is given.

| Run | Question | Bounds, and why |
|---|---|---|
| `queue_pool` | What survives workers that overwrite each other? `ProcessingIsHeld`, `GivesUpOnlyAfterRetries`, `UploadIsAtomic` | two workers, two tasks on one document, two attempts, one crash: enough for a stale retry count, a double claim and two OCR tasks for one document |
| `queue_single` | The deployed configuration: `ImplementsLifecycle`, `EveryTaskSettles` | one worker, two tasks, one crash, one Redis outage, a known, an OCR and an unknown agent |
| `queue_review` | does a lawyer's decision stand? **No**, see 5 | one of each |
| `case_work` | `TimelineIsTrue`, `HearingComesFirst` of a case; `RegisterIsSound`, `LoneRequestRepairs` of its creditors; `PoliciesMatchPermissions`, `AdminRemains` of the staff | two requests; eight events: as many as the shortest way to a discharge, by way of "on_hold" and a settlement; three creditors, two amounts of which one is negative (`schemas.py:149` allows it), an opening total equal to one of the sums; two accounts and one case: a policy looks at one user and one case |
| `checklist_race` | `ApprovedWasReviewed` | two requests on one row (rows are independent), two documents |
| `signing_race` | `SignedWasApproved` of drafts; `LoginIsSound`, `CabinetIsSound`, `DossierIsSound`, `ProgressGrows` of what clients see and do | two requests, two drafts, two signatures; two clients, two phones, two codes, two attempts, restarts; two cases (a second active one locks the cabinet), two items; two uploads of a type that is missing, one that is not required or one that is unknown |
| `serial` | one request at a time: `SignatureBinds`, `ImplementsLifecycle` of drafts, `AutoMatchKeepsLinks` of the checklist; and the bot: `UpdatesAreHandled`, `DialogueIsComplete`, `EveryUpdateIsConfirmed` | three drafts: the third shows that there are only two versions; two items competing for two documents; two chats, three updates (a button, a text and one more), one restart |
| `billing` | `SettlesWhatFits`, `PaymentsStand` | two requests, two invoices, two clients, two amounts, a transfer that may be reported twice, unsigned webhooks, one restart |
| `billing_reconcile` | does reconciliation match what it can? **No**, see 5 | one of each |
| `leads` | `ContactLimit`, `WaitIsKept`, `DuplicatesAreSettled`, `OneClientPerPerson`, `EveryLeadSettles` | two registers that know the same person, two overlapping runs, a batch of one (so that one lead can hide another), two attempts, one failed round; one lead with two channels, so that an answer that is lost leads to a second message, and one with none |
| `sales` | `ClientsAgree`, `OnlyReopeningBlocks` of the lead generation service; `ProspectsAreSound`, `OneRowPerPerson` of prospecting; `ClientsAreFound`, `PostsMayBeRepeated` of the site's chat | lead generation twice: two overlapping requests on one lead, and one request at a time on two; two prospects and three records, of which one ties the others together; three posts of the chat of which two may overlap, so that the third finds what they left; one phone and one e-mail, each of which may be left out; a type of procedure that is none ("sale") |
| `ai_services` | `ReliableAnswers`, `NobodyIsSkippedForEver` of the router; `OutageIsAnswered`, `EstimatesAreFair` of the qualification | two callers of a chain of three (the second has no key), of whom one completes texts only, and one caller of every operation; a history of two records, of three ages, and a window of two ticks, so that failures recorded between ticks keep a provider unhealthy past the next one; two requests for one estimate, three models, debts and creditors on both sides of every boundary |

`RegisterIsSound`, `LoginIsSound`, `CabinetIsSound`, `DossierIsSound`, `UpdatesAreHandled`,
`ClientsAgree`, `ProspectsAreSound` and `EstimatesAreFair` are conjunctions: each module
states the parts one by one, with what each is about.

Parts that share no row and are checked with the same bounds share a run: its `MC` module
has a variable `which`, chosen in the initial state, that says what is under way, and the
other parts stay in their initial states. So a run is a union of models and not a product of
them.

Deadlock is checked except where identities are used up in the end (`case_work`, `serial`,
`signing_race`, `billing*`, `sales`); each `.cfg` says so. Symmetry is used only where a run
checks no liveness and the constants are interchangeable; the checklist's documents are not (one
has a known type).

**Fairness.** `queue_single` assumes weak fairness of the worker (its loop runs without end
and survives exceptions, `worker.py:131-164`) and that Redis comes back (it is restarted by
its operator); nothing is assumed of users, so an upload may stay unfinished and tasks are
only followed from their commit. `EveryTaskSettles` excepts tasks a worker died with: their
rows stay "processing" for ever, which `ProcessingIsHeld` states. `leads` assumes weak
fairness of the outreach worker (`outreach.py:123-126`) and that the wait of each lead ends
(strong fairness: the wait is looked at between rounds, and the worker sleeps six hours
there). Failing rounds are bounded by `MaxCrashes`: with a failure in every round nothing
would ever be recorded. `serial` assumes weak fairness of the bot's loop, which has no end
and catches what its body raises (`telegram_bot.py:286-318`), each request in it having a
timeout; restarts are bounded, and updates may fail each time. `ai_services` assumes weak
fairness of time (`Tick`) only; nobody has to call or to go on. `NobodyIsSkippedForEver` needs no
more: a provider that is skipped gets no call and so no new failure but those of calls that were
under way, and the ones it has grow old. The window of two ticks is for them: failures that are
recorded between two ticks outlast the next one.

## 4. Proofs

Every safety property, action property and refinement that a passing run checks is proved, for
every value of the constants that the modules' `...Assumption` allows: any number of requests,
workers, rows, any limits, any number of crashes. Where the code keeps a promise only for one
worker or one request at a time, the theorem says so as a hypothesis (`Workers = {w}`,
`Requests = {p}`), as the run does.

In all of the modules the properties of the tables are not inductive by themselves: a commit
writes what was decided on rows that may have changed since. So each inductive invariant says
what is true of what handlers *hold*, next to what is true of the rows, and the proof of a step
shows that the steps of *others* do not spoil it.
The invariants were checked with TLC on the runs' instances before they were proved, but for
`SumsAreOwed`, whose `Total` is an unbounded CHOOSE.

**The task queue** (`TaskQueueProofs`)

| Theorem | Property | The argument |
|---|---|---|
| `NoSilentlyStuckTask` | `ProcessingIsHeld` | what a worker holds at each place of its loop |
| `NeverGivesUpEarly` | `GivesUpOnlyAfterRetries` | `RetryInv`: the count in a row and the one a worker has loaded never exceed the failures that were made |
| `UploadsAreAtomic` | `UploadIsAtomic` | `UploadInv`: an uncommitted task is known to Redis only, and a worker that loads it finds nothing |
| `ProcessingDocIsBacked` | `ProcessingDocHasTask` | claim, finish and retry each leave a task behind the document |
| `OneWorkerRefines`, `OneWorkerCountsExactly` | `ImplementsLifecycle`, `RetryCountIsExact` | `SoloInv`: with one worker, what it loaded is what is stored |

**The office** (`OfficeProofs`)

| Theorem | Property | The argument |
|---|---|---|
| `TimelineTellsTheTruth` | `TimelineIsTrue` | `HeldIsReached`: a stale status is one the case really had |
| `NoDischargeWithoutHearing` | `HearingComesFirst` | every status past the hearing entered the timeline through it |
| `OneRequestRefines` | the case implements `CaseLifecycle` | `HeldIsFresh` |
| `RegisterStaysSound` | `RegisterIsSound` | `RegisterInv`: a request's creditor is its own until the commit (`AddsAreFresh`), and what it has summed is the sum of stored creditors and its own (`SumsAreOwed`) |
| `LoneRequestsRepair` | `LoneRequestRepairs` | `AloneKnows`: a request without overlap has summed all creditors there are |
| `OneRequestIsExact`, `OneRequestAddsUp` | `TotalIsExact`, `DebtAddsUp`, for one request | `ExactInv`: the stored total counts all creditors; the new one is the term by which the sum grows (`AnyTerm`) |
| `PoliciesMatch` | `PoliciesMatchPermissions` | who a policy's subquery is about sees the case by the policies on cases, so the filter takes nothing away; the checklist's own check, role by role |
| `AdministratorsRemain` | `AdminRemains` | the one request under way was admitted by an administrator that is still active |
| `TasksKeepTheirOrder` | `TasksMoveInOrder` | a loaded task is at most as far as the stored one |

The register's `SumOf` is a fold, whose body is a recursion over sets. There is no induction
rule to cite for it, but there is `WFMin`: a set of numbers that is not empty has a least one
(`LeastNumber`), so a statement that is false of some part of a finite set is false of a part
with least cardinality. In this way `SumExists` shows that some function on the parts of a
finite set satisfies the fold's equation, `TotalType` that its values are numbers, `PartTotal`
that there is only one such function, and `AnyTerm` that a sum is any of its terms and the sum
of the others (the order in which CHOOSE takes them does not matter). Amounts may be negative.
`TotalDepends` says that a sum depends only on the amounts of the members: a creditor that is
rolled back while others hold sums is in none of them.

**Documents** (`DocumentProofs`)

| Theorem | Property | The argument |
|---|---|---|
| `HumanInTheLoop`, `AutoMatchesAreBacked` | `ApprovedWasReviewed`, `AutoMatchedHasDocument` | `EditsAreSound`: what is true of a decision when it is made stays true until it is written, and merging by column keeps it |
| `OneRequestKeepsLinks` | `AutoMatchKeepsLinks`, for one request | `MatchesFreeItems`: nothing comes between the decision and its commit |
| `NothingSignedUnapproved`, `SignaturesAreReal` | `SignedWasApproved`, `SignedHasSignature` | jobs hold approved drafts only, and a signature's draft never changes |
| `OneRequestRefines`, `OneRequestBinds` | `ImplementsLifecycle`, `SignatureBinds` | `SerialInv`: what the one job has loaded is fresh |

**Money and leads** (`BillingProofs`, `LeadProofs`)

| Theorem | Property | The argument |
|---|---|---|
| `PaymentsAlwaysStand` | `PaymentsStand` | nobody knows of an invoice before its creation has ended (`ClosedFirst`); an invoice that a request has seen paid still is, or was written over (`SeenIsPaid`) |
| `PaymentsAreSettledRight`, `CreationsAreServed` | `SettlesWhatFits`, `CreationIsServed` | `NumbersGrow` and `PurposesAreTrue`: until a restart a number belongs to one invoice for ever, rolled back or not |
| `LimitIsKept` | `ContactLimit` | `RoundCounts`: a round sends a lead no more messages than it tries channels, and the attempts in the row account for those of earlier rounds; `BatchIsDue`: what was loaded may still be contacted |
| `RecentLeadsWait` | `WaitIsKept` | `BatchIsDue` |
| `DuplicatesRest` | `DuplicatesAreSettled` | `FoundIsSound` (what runs are about to insert) and `PrimariesStay` (no row stops being a primary one) |
| `OneRequestOneClient` | `OneClientPerPerson` | a conversion that found no client is right until it commits |

**Sales** (`SalesProofs`)

| Theorem | Property | The argument |
|---|---|---|
| `ClientsAlwaysAgree` | `ClientsAgree` | `RowsInv`: the clients of a lead that are lost and those that a request is about to write are different ones, so together no more than the CRM has made (`Counted`); `AloneInv`: without overlaps there are no more (`Accounted`), for a request that decides has found the prospect pending and it still is |
| `OnlyReopeningEverBlocks` | `OnlyReopeningBlocks` | `ContactInv`: what a message has found of its sender and of open leads is still so when it commits, and of two open leads of one source one was taken up again |
| `ClientsAreAlwaysFound` | `ClientsAreFound` | `CountInv`: the clients of a phone and the posts that are about to make one are together no more than may overlap; the first one that was not found is the only exception, and it is counted |
| `PostsMayAlwaysBeRepeated` | `PostsMayBeRepeated` | `PostInv`: what each state of a post says of its task and its case; `FoundAgain`: what a post finds that begins after a case is there is still so when it commits, for no step changes a stored case or its client |
| `ProspectsStaySound` | `ProspectsAreSound` | `ProspectInv`: a row in a transaction's hands keeps its id, lead and status, and one that is not listed yet is that transaction's alone; `SoloInv`: without overlaps, what a transaction has loaded is what is stored |
| `PeopleStayApart` | `OneRowPerPerson` | `PersonInv`: not only the stored table but also the one a transaction would leave has no two rows of a person; a record that finds rows of one person only fills what no other row has |

**What clients see** (`ClientProofs`)

| Theorem | Property | The argument |
|---|---|---|
| `LoginsStaySound` | `LoginIsSound` | `LoginInv`: a waiting code is unused and counts its own attempts, no two phones wait for one code, and whoever waits, is being looked up or is about to get a token is the one who had the phone |
| `CabinetStaysSound` | `CabinetIsSound` | `CabinetInv`: the case a request holds is the client's for good, for nothing changes the client of a case; notifications and events are those of the stored items; what a request has loaded is still the one active case and its lawyer unless it was overtaken (`PresentUnlessMoved`) |
| `DossierStaysSound` | `DossierIsSound` | at most seventeen documents are required (`RequiredBound`), so a missing one keeps the rounded share below 100.0 % (`WholeIsComplete`); the stages by the position in their order (`Indices`) |
| `ProgressOnlyGrows` | `ProgressGrows` | the table of transitions against the order of stages, row by row |

**The AI core and the bot** (`AIProofs`)

| Theorem | Property | The argument |
|---|---|---|
| `ReliableStaysHealthy` | `ReliableIsHealthy` | a failure of a reliable provider is recorded only after an answer of it was lost |
| `FallbackReachesReliable` | `ReliableAnswers` | a completion that is past a provider of its chain found it unreliable, since a reliable one is healthy and answers |
| `WrongRequestsEnd` | `WrongRequestIsNotRepeated` | what each adapter makes of a wrong request is none of the exceptions that are retried |
| `OutagesAreAnswered` | `OutageIsAnswered` | `QualifyInv`: what is kept and what is found is well formed while answers are (`FairState`) |
| `EstimatesStayFair` | `EstimatesAreFair` | the same invariant for what is answered; and the score, without its bounds, is monotone in every circumstance and in the risk, and only the best of all reaches 100 |
| `UpdatesStayHandled` | `UpdatesAreHandled` | `LoopInv`: what is confirmed has been begun since, and what the offset has passed was begun once for each start of the process |
| `DialoguesStayComplete` | `DialogueIsComplete` | `Dialogue`: the messages of a session are the texts up to the offset, and the next one is greater than all of them |

Each component's `TypeOK` is proved with its invariant, or as a theorem of its own.

**What is assumed of the constants.** The assumptions are named in the modules that declare the
constants, and TLC evaluates them in every run. They are of three sorts: numbers are natural
ones (`MaxAttempts`, `MaxOverlap`, `MaxUpdates`, what is invoiced) or whole ones (creditors'
amounts); the value that stands for "none" is not one of the things it stands beside (SQL's NULL
is no id); and inputs are records of the columns the handlers read (`Inputs`, `Judgements`).
`ProspectAssumption` also has finitely many prospects, since joins over the table are choices
among its rows. `StaffAssumption` says that the seeded administrator is an account and that
staff is hired into the roles there are.

**Proved and not checked.** `ProcessingDocHasTask`, `RetryCountIsExact`,
`AutoMatchedHasDocument`, `SignedHasSignature`, `CreationIsServed`, `ReliableIsHealthy`,
`WrongRequestIsNotRepeated`, `TasksMoveInOrder`, `TotalIsExact` and `DebtAddsUp`
stand on their theorems alone; no run repeats them.

**Only model-checked.** Liveness: `EveryTaskSettles`, `EveryLeadSettles`, `EveryUpdateIsConfirmed`
and `NobodyIsSkippedForEver` need reasoning about fairness and ENABLED, which the prover does not
have. The two violated properties of section 5,
`DecisionStands` and `ReconciliationMatches`, are refuted by their runs.

## 5. Disagreements and known limits

Two runs show the code doing what its comments say it does not:

- `queue_review`: `documents.py:247` calls validation "human-in-the-loop"; a worker that
  finishes after the decision overwrites it (`worker.py:102`).
- `billing_reconcile`: a transfer whose webhook came before its invoice was committed is
  never matched: reconciliation passes over payments it already knows
  (`tochka_service.py:272`).

The following were seen while modelling. Where the step is in a model, the property it would
refute is not claimed; some refusals have no step in a model.

- Overlapping PATCH requests can make a move the table does not allow, and leave a terminal
  status (`cases.py:144-154`); two overlapping creditors leave one of them out of the total
  (`cases.py:210`). `docs/API_CONTRACTS.md:136` promises the table; it holds for one request
  at a time, which is `ImplementsLifecycle`.
- Auto-match writes "uploaded" over any status of an item without a document, an approved
  one included (`checker.py:385`), called twice it attaches a document to a second item
  (`matcher.py:232`, in spite of `matcher.py:223`), and binding does not mean uploaded
  (`checker.py:281`). A decision can lose its reviewer when requests overlap
  (`checker.py:287`).
- The third version of a document cannot be generated: the lookup of the latest version
  raises when there are two (`document_service.py:164`). It is the guard of `GenerateDraft`.
- A signed draft can be approved again by a stale request (`document_service.py:194`). Expiry
  and failed attempts of a code are rolled back with the refusal that reports them
  (`esign_service.py:110`): the statuses "expired" and "failed" never reach the table and
  attempts are not counted, so they are not in the model.
- After a restart the invoice counter starts again and collides with the table, and a
  transfer may name a number that is somebody else's by now (`tochka_service.py:42`); a stale
  send turns a paid invoice back into a sent one (`tochka_service.py:107`; `PaymentsStand` says
  that nothing else does). A webhook without a signature pays the invoice it names with no money
  behind it (`tochka_service.py:131`, `billing.py:335`), so that "paid" means that a webhook said
  so and not that money arrived; `SettlesWhatFits` excepts it. A webhook that
  fits two invoices is rolled back whole (`tochka_service.py:184`). The pattern that reads a
  purpose takes four digits (`tochka_service.py:166`): the model compares whole numbers, which
  is the same for the first nine thousand invoices of a process.
- One attempt may send a lead up to three messages: a channel that delivered and whose answer
  was lost or is no JSON counts as failed, and the next one sends too (`outreach.py:28-45`). The
  limit that holds is `MaxAttempts` times the number of channels, which is `ContactLimit`.
- An outreach round that commits after a conversion makes the lead "contacted" again
  (`outreach.py:80`): it can be converted a second time, into a second case of the same
  client, although `tests/test_lead_sources.py:47` expects this to be blocked. Two
  overlapping conversions create two clients (`conversion.py:61`). A collector run that
  fails ends its worker (`lead_collectors.py:48`), and one that waits for the next minute
  does not count itself there (`rate_limit.py:44`).
- **Router.** `classify`, `extract` and `embed` read a field that their results do not have
  (`router.py:322`): every provider of the chain answers, each answer is thrown away and counted
  as a failure, and the call fails; `ReliableIsHealthy` and `ReliableAnswers` except what
  follows (`vain`), and `ReliableAnswers` is about completions. The docstring
  (`router.py:150-158`) has unhealthy providers retried under "retry_then_alert" and
  `is_fallback` set on the answer; both policies skip them, and the mark is never set. A 400 of
  GigaChat is taken for an outage and retried, a 403 of Claude too; a Retry-After of Yandex is a
  text and a number is computed with it. Nothing outside `ai-core/llm` calls the router.
- **Qualification.** `main.py` uses `AsyncSession` without importing it (line 441), so the
  service does not start as committed; its handlers are modelled as if it did. The consultant's
  prefix is doubled (line 83), so the backend's call of it is answered by 404. An estimate of
  the rules, made in an outage, is kept for a day and can be "hot", where a service without
  models answers "cold". A judgement with empty numbers is kept and then fails whoever asks for
  that day; one that is eligible without costs fails before. The branch of OpenAI lets a
  TypeError or an IndexError out (`qualification.py:367`). `OutageIsAnswered` is stated for
  models whose answers are of the right shape (`calm`). An eligible lead may be "disqualified"
  while its card promises a call within a day.
- **Chat.** A connection that is lost between the commit and the reading back leaves a case of
  which the poster was told an error (`ai.py:207-210`), and a type of procedure that is none
  (`ai.py:168`, a text in the schema) does so always: a repetition then makes a second case, of
  the same client if it leaves that client's phone: `PostsMayBeRepeated`. A lead that recommends
  "judicial" or "not_eligible", which `schemas.py:274` lists, is committed and then cannot be
  read back (`ai.py:209`): the post fails, the case stays, and the ORM cannot load it. A lead
  with an estimated cost always fails (a Decimal in JSON). `POST /ai/tasks` queues nothing.
- **Lead generation.** The CRM has no endpoint `/api/v1/internal/clients`
  (`conversion.py:34`), so no conversion succeeds against this backend; it is modelled as if it
  had. "system" is not a UUID (`prospects.py:53`). All anonymous visitors share one source
  (`web_form.py:47`). Two qualification tasks of one lead that are both pending make every later
  result an error; reopening a lead beside an open one makes every later message of the contact
  one (`OnlyReopeningBlocks`).
- **Prospecting.** A form that meets a known person is scored on the form alone
  (`inbound.py:60`). A record that names the INN of one row and the phone of another joins
  nothing and makes later ones an error: `OneRowPerPerson` excepts it (`joined`).
- **Login.** A phone that two clients have lets neither in. Expired codes stay in memory until
  the phone asks again.
- **Cabinet.** Staff who open, close or assign a case while a request is in flight part the item
  from the case: it is stored with the old one, announced to the old lawyer and in no list.
  Cancelled consultations are listed with the past ones (`client_cabinet.py:563-567`). A second
  active case locks the cabinet (`client_cabinet.py:66`). A paused or settled case shows 0 %,
  and three allowed steps lower the progress (`StepsBack`). Cancelling a consultation tells
  nobody. The messages shown are the oldest fifty (line 703), and the unread ones are asked for
  with Python's `not` (line 496), which finds none. The signing endpoints call the signature
  service with arguments it does not take (lines 881-960), so clients sign through `billing.py`
  only.
- **Staff.** `completeness.py:40` says that administrators and lawyers have access to all cases,
  and its check has it so for directors and paralegals too; where the policies bind, a lawyer or
  paralegal who stands in no column of the case does not find it (404). Where they do not bind,
  every lawyer and paralegal is served every checklist. A client manager is refused (403) the
  checklist of a case that the policies show to it. There are two functions `require_staff`,
  with five and with seven roles. No code creates a `Task` or sets `clients.user_id`; the models
  take them as done by hand. The policies bind only a database user that is no superuser, and
  settings of the session end with the transaction. `AdminRemains` excepts administrators who
  deactivate themselves or each other at once: nothing counts them.
- **Bot.** A failed /qualify leaves the person without a message, and the text of a failed /chat
  in the dialogue. The state "client" has no way out. Nothing makes a lead of a dialogue.

## 6. Plan

Done: every component that keeps state and has more than one writer, in the order of the table
in 2; and for each of them the proof of every safety property, action property and refinement
that a passing run checks.

Next:

1. `AIEndpoints`, `Billing`: abstract specifications (a client file, an account) that the
   detailed ones implement as long as requests do not overlap, as for drafts and cases.
2. `Prospecting` and `LeadPipeline`: converted prospects are leads of the pipeline; a composition
   would say that nobody is contacted whom a prospect's rejection was about.
3. `TelegramBot`: that a restart repeats only updates that Telegram was not told of.

Then the system, where it grows: acts of completed work, when something changes them; a case
with several checklists; the reminders, once something starts them.

## 7. Not modelled

- *Read-only handlers*: the dashboards, lists, suggestions and statistics of `staff.py`,
  `cases.py`, `leads` and `storage`; lists of invoices and notifications in the cabinet.
- *Rows with one writer and no rule*: `anticollector.py`, `library.py`, channels and campaigns of
  `leadgen`, acts of completed work: rows that are created, overwritten one at a time and listed.
- *Code nothing calls*: `deadline_checker.py`, `completeness/scheduler.py` and its notifications
  (whose check raises a TypeError at the first case, comparing times with and without zone),
  `ai-core/worker.py` (a list nobody pushes to).
- *Input and output*: register collectors (what they return is the free choice of `SaveLead` and
  `Raws`), the object store, SMS and mail gateways, the texts of documents and prompts.
- *Stateless calls*: the chatbot, the consultant, the document generator, OCR and RAG of AI core.
- *Presentation*: the frontends and the mobile application. *Configuration*: deployment.
