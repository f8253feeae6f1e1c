# CiftPay in TLA+

CiftPay turns M-Pesa payments into KRA eTIMS invoices. An HTTP api and a worker
process share one Postgres database; the River queue lives in the same
database, so that a row and the job that will handle it are written in one
transaction. What is hard about it is what happens *between* transactions: two
requests that read the same row, a worker that dies after KRA registered a
document and before the answer was saved, a sweep that works from an old list.
That is what these modules model, check with TLC and, but for liveness, prove
with TLAPS.

Source paths below are relative to `src/backend/internal/` unless they begin
with another directory.

## 1. Inventory

| Component | State it keeps | Operations | Talks to | What is hard | What makes it correct |
|---|---|---|---|---|---|
| Fiscal state machine (`fiscal/state.go`, `errors.go`) | none | `CanTransition`, `Classify`, `Backoff`, `Resolve` | Submitter, Watchdog | attempt limit at its boundary | attempts bounded, terminal errors go to review |
| Submitter (`fiscal/submitter.go`) | `invoices.state/attempt/next_attempt_at/kra_invoice_no`, `fiscal_submissions`, `usage_counters` | claim, lookup, call, persist; `Retry` | River, provider | three steps with a remote call in the middle; no row locks | filed no more often than counted, billed once, ACKED for good, never forgotten |
| Watchdog (`fiscal/watchdog.go`) | none of its own | list stale, rescue one | Submitter through the rows | its list is old when used; sweeps overlap | rescues only what nobody works on |
| River (`platform/jobs/jobs.go`) | `river_job` | unique insert, fetch, snooze, discard, rescue | all workers | an insert is silently absorbed by a live row | waiting invoice has a live job |
| Provider adapters (`fiscal/mock`, `vendor`, `oscu`) | KRA's registry, oscu's in-memory cache | submit, look up | KRA | lost answers, repeated documents | idempotent by invoice id |
| Operator dead letters (`admin/admin.go`) | as Submitter | `RequeueInvoice`, `ForceAcked`, `ReplayWebhook` | Ingest | unconditional updates under a running worker | does not strand or renumber, ticks nothing off |
| Matching engine (`ledger/matcher.go`) | none | `Match` | Ingest | rule order, partial amounts | a partial payment closes nothing |
| Payment ingest (`ledger/service.go`, `stk.go`) | `webhook_events`, `payments`, `sales`, `stk_requests`, `invoices` | `IngestC2B`, `IngestSTK`, `ProcessStoredC2B`, reversals | webhooks, reconciler, Submitter (job insert) | three transactions per event; the same payment arrives by three roads | one invoice per transaction, nothing ticked off unledgered |
| Reconciler (`mpesa/reconcile.go`) | none | list unprocessed, finish one | Ingest | stale list, overlapping sweeps | every stored payment is ledgered |
| Pull worker (`mpesa/pull_worker.go`) | none | pull, ingest one | Daraja, Ingest | repeats what webhooks delivered | as Ingest |
| Sales and conversion (`ledger/handler.go`) | `sales`, `payments` | `createSale`, `convertPayment`, `settleSale` | Ingest through the rows | check and update without a lock | one invoice per sale, a payment stays with its sale |
| Administrative gate (`admin/shortcodes.go`, `ledger/authorization.go`) | `mpesa_shortcodes` | claim, upload letter, verify, register, reject | Ingest, Daraja | check and write in two transactions | one verified owner, who stays |
| Credit notes, reissue (`ledger/service.go`) | `invoices` chain | reissue, claim, credit note, reversal | Submitter | concurrent reissue, reissue of an invoice in flight | one live invoice per sale, the sale declared once |
| eTIMS onboarding (`org/etims.go`) | `orgs.etims_status` | configure, activate | Submitter | invoice created while eTIMS is activated | nothing stays TAX_PENDING |
| Notifications (`notify`) | `notifications`, `usage_counters` | send receipt, resend, delivery report | SMS gateway | crash between insert and send, lost answers | one message per template, charged once, sooner or later sent |
| Accounts (`org/service.go`) | `otp_codes`, `sessions`, `memberships`, invites | request, verify, create, invite, answer, remove | — | the role is checked before the transaction that uses it | nobody joins unasked, a business keeps a manager |
| Reports, public receipt (`reports`, `publicapi`) | a read of `invoices` | VAT position, iTax export, page of a code | — | signs of credit notes, chains of reissues | sums agree with what KRA acknowledged, every code opens the end of its chain |
| Billing, KRA gateway | a read of `usage_counters`; a cache of PINs | reads | — | — | — |
| Tax arithmetic (`fiscal/taxcodes.go`) | none | line tax, totals | sales, adapters | rounding, the catalogue edited meanwhile | lines add up to the totals, note cancels invoice |
| `platform/*`, `cmd/*`, `web/`, generated queries | — | plumbing | — | — | not modelled |

`PROJECT.json` lists the components with their status and every hazard with the
source line where it bites.

## 2. Plan

Order of work, most important behaviour first.

| Step | Modules | Status |
|---|---|---|
| 1 | `FiscalState`, `Filing`, `Submission`, `MCSubmission` — filing with KRA | done |
| 2 | `SubmissionProofs` — the theorems about it and the refinement of `Filing` | done |
| 3 | `Matcher`, `Ingest`, `MCIngest` — payments to sales and invoices | done |
| 4 | `Reports`, `Documents`, `MCDocuments` — invoice chains, credit notes, reversals, eTIMS onboarding | done |
| 5 | `Receipts`, `MCReceipts` — the SMS around two transactions | done |
| 6 | `Tenant`, `MCTenant` — sign-in, memberships, invites, the Administrative Gate | done |
| 7 | `TaxCodes`, `Pricing`, `MCPricing` — from the lines of a sale to what KRA is sent | done |
| 8 | `PricingProofs` — the tax of every line, for all prices and quantities | done |
| 9 | `SubmissionRecovery` — what the submitter and the watchdog do after a failure, for all constants | done |
| 10 | `IngestProofs`, `ReceiptsProofs`, `TenantProofs` — every safety property of those modules, for all constants | done |
| 11 | `DocumentsProofs` — chains of invoices, every safety property | done |
| 12 | `Sums`, and with it `DeclaredOnce` and `ExportMatchesKRA` (sums over documents) and `WireAddsUp` (sums over lines) for all constants | done |
| 13 | a composition of `Ingest` and `Documents` with `Filing` in place of their acknowledgement | left |

## 3. Modules and the code

### FiscalState
Pure: `State`, `transitions`, `Classify`, `Backoff`, `Resolve`. `MaxAttempts` is
a constant; the runs use the code's 6 or, where the state space needs it, 2 or 3.

### Submission
One action is one database transaction, one provider call or one step of River.

* **Rows.** `state`, `attempt`, `due`, `kraNo`, `usage` are the columns of one
  invoice; `due` abstracts `next_attempt_at` to "NULL or passed". `lost` names
  invoices with a provider call that left no `fiscal_submissions` row.
* **Queue.** `job` is the one row per invoice that River's unique key allows.
  Inserting while such a row is live changes nothing (`Enqueue`). `Finish`
  completes, snoozes or discards it; jobs have one attempt, so an error or a
  rescue discards.
* **Workers.** `wk[w]` is a program counter and the local variables of `Submit`.
  The claim reads the invoice (`Read`) and writes it with a compare-and-swap
  later (`Claim`, `ClaimSkipped`): Postgres runs READ COMMITTED and the code takes
  no lock, so other transactions commit in between. Then lookup (`Recover`,
  `LookupFails`), call (`File`, `Refuse`, `Replay`), persist (`PersistAck`,
  `PersistRetry`, `PersistReview`, `PersistRefused`, `PersistFails`).
* **Adapters.** `Adapter` selects what KRA's side does: `contract` keeps the promise
  of the `Provider` interface, `vendor` has no lookup and calls a repeated
  document a duplicate, `oscu` remembers its answers in memory only.
* **Others.** `ListStale`/`Rescue`, `Retry`, `RequeueInvoice`, `ForceAcked`,
  `ActivateTaxPending`, `Crash` (every worker is lost, and oscu's cache).

### Filing
What filing promises per invoice: held, pending, parked for review and
reopened, acknowledged at most once, number and usage together. `Submission`
maps its states to phases, `kraNo` to the number and `usage` to `billed`.

### Matcher
`Match`: bill ref, pending request-to-pay, counter window by customer, counter
window by amount, auto-invoice, unmatched, in that order; `Cover` is the
comparison of amount and total.

### Ingest
* **Rows.** `event` (`webhook_events`: stored, done, or refused with its error),
  `payment` by transaction id, and `sales`, `request`, `docs` as sequences in
  commit order; a sale's ref is its position, as `NextSaleRef` counts rows.
* **Handlers.** `hd[h]` is one request of the api or one event of a sweep:
  `IngestC2B` stores the event and resolves the shortcode; `MatchPayment` reads;
  `NextSaleRef` counts; `ApplyPayment`, `ApplyDuplicate` or `ApplyRefused` ends the
  ledger transaction; `MarkProcessed` or `NoteError` ends the event. `TxFails` and
  `Dies` may come at any point. `Dies` also stands for a processed mark that
  failed, since the code drops that error.
* **Roads.** `Confirmation`, `PullTransaction`, `StkResult` + `StkIngest`,
  `ListUnprocessed` + `Reconcile`.
* **Merchant and operator.** `CreateSale`, `CreateCashSale`, `CreateSTKRequest`,
  `Convert`/`Link` + `ConvertCommit`, `Settle` + `SettleCommit`, `VerifyShortcode`,
  `RejectShortcode`, `ReplayWebhook`. Convert and settle read in one action and
  write in another. A replay finds its own event stored, so that the ingester
  answers Duplicate or refuses (`ReplayAnswers`), and sets the processed mark all
  the same: it writes nothing else. The marks `done` and `replayed` tell who set it.
* **Ack** is Submission seen from here: a document becomes ACKED at some point.

Abstractions worth knowing: the four lookups of `Match` are one read (each is
only made if the earlier ones found nothing); time is a flag on a sale or a
request that says whether it falls into the window of the payments; `createSale`
draws its ref and inserts in one action, since a collision there rolls back and
leaves no trace; one shortcode and one organisation.

### Reports and Documents
`Reports` is pure: the queries over the invoices table that the tax return, the
merchant's screen and the public page read. `Documents` extends it with the
requests that write that table.

* **The page of a code.** `GetInvoiceByReceiptCode` runs under the row-level policy
  of migration 0005. The row that has the code is shown; any other is looked for
  in a function whose query is under the same policy (`PolicyRecurses`), so the
  lookup of a code whose invoice was superseded ends in an error, `NoDoc`. A code
  that was not superseded is taken to be found: Postgres checks the code first.

* **Rows.** `docs` are the invoices in order of creation (an id is a position)
  with kind, parent, state, the row that supersedes it, the sign of its total,
  and `cites`, the document whose KRA number it was submitted with. `pay`,
  `etims` and `queue` are the payment's status, `orgs.etims_status` and the
  documents with a live job.
* **Requests.** `CreateInvoiceForSale` + `CommitInvoice`, `reissueInvoice` or
  `ClaimReceiptByCode` + `ReissueInvoice`, `createCreditNote` +
  `CreateCreditNoteForInvoice`, `reversalArrives` + `applyReversal`,
  `ConfigureEtims` + `SetEtimsConfigured` (or `SetEtimsFailed`) +
  `ActivateTaxPending`. The first part reads, the last commits, `Ends` is a
  request that fails on the way.
* **KRA.** `Submit`, `AckInvoice`, `RetryLater`, `Park`, `retryInvoice` move a
  document through the states of `Submission`.
* **mishap** is a history variable. It records that something happened which the
  code does not defend against: a request committed on reads that no longer
  held (`stale`), a document was replaced or credited before its
  acknowledgement (`early`), a reversed sale was amended `again`, a
  configuration was `cut` before its activation. Properties name the mishaps
  they do not hold under; the table of observations says what happens then.

### Receipts
One invoice and its `send_receipt` jobs. `SendReceipt` reads, `CreateNotification`
commits the queued row, `SendSMS` calls the gateway, `MarkNotificationSent` or
`MarkNotificationFailed` commits the result; a job has several attempts, and
`Crash` and `MarkFails` end one without its result. `rows` holds the latest
notification of each job, `sms` and `lost` count what the gateway took, and
`misread` the refusals that the client takes for success (recipient status 500
and above).

### Tenant
Users by phone number, organisations by PIN, one entry of `req` per request:
`Authenticate` and `RequireRole` are the middleware, which looks at sessions and
memberships before the handler's transaction begins. `invites` and `rows` are
`org_invites` and `mpesa_shortcodes`. `InvitesIn` is what the row-level policies
let a transaction see; it matters for `RevokeInvite`, which runs unscoped.
`mishap` is used as in `Documents`.

### TaxCodes and Pricing
`TaxCodes` holds the rates, `LineTax` and its rounding, and `HalfEven`, the
rounding `docs/data-model.md` prescribes. In `Pricing` a cart is priced line by
line from the catalogue (`AddLine`), stored (`createSale`, `createCashSale`),
documented (`CreateInvoice`, `CreateCreditNote`) and sent any number of times by
either adapter (`Submit`), while the catalogue is edited (`updateItem`).
Quantities times prices stay far below 2^63, as amounts M-Pesa carries do.

Operators that differ from the code in one plausible way (marked *Mutant*,
or named after the change in Submission) stand before the definition they
vary; each property is violated when its variant takes the definition's place.

## 4. Runs

Runs that pass (states are distinct states on the instance in the cfg):

| Run | Checks | Shows |
|---|---|---|
| `submission_faults` | `TypeOK`, `SingleFlight`, `BilledOnce`, `AckedIsFinal`, `ImplementsFiling` | one invoice with the code's 6 attempts, two workers, two sweeps, three faults of any kind but a stall, two merchant or operator actions |
| `submission_recovery` | `AwaitingHasJob`, `AttemptBound`, `FilingsCounted`, `AttemptsCount`, `EventuallySettled` | two invoices, the oscu adapter; if only the persist transaction may fail and sweeps do not overlap, nothing is forgotten, and KRA gets no document more often than its attempts were counted (222 627 states) |
| `submission_stall` | `AckBacked` | the vendor adapter; what survives even a worker that outlives all timeouts, and manual overrides |
| `ingest_faults` | `TypeOK`, `MarkedMeansLedgered`, `PaidIsInvoiced`, `PartialNeverInvoiced`, `InvoicedOnce`, `LedgerOnlyGrows` | two payments, two concurrent handlers, a crash or failed transaction anywhere; STK callback, C2B confirmation, pull and sweep of one receipt in any order; sales, requests and the gate changing and events replayed meanwhile (639 160 states) |
| `ingest_merchant` | `SaleInvoicedOnce`, `CreditBacked`, `PaymentStays` | one request at a time: conversions, links, settlements, reversals and acknowledgements |
| `ingest_recovery` | `StoredIsLedgered` | once faults stop, every stored confirmation reaches the ledger |
| `documents` | `TypeOK`, `OneLive`, `DeclaredOnce`, `CreditCites`, `HeldUntilConfigured`, `ExportMatchesKRA`, `OneActive`, `SupersededOnce` | one sale, two requests at a time, four in all, KRA answering in any order (155 202 states) |
| `receipts` | `TypeOK`, `SentOnce`, `UsageIsSent`, `EventuallyTold` | both templates and a resend, two attempts, one fault (542 807 states) |
| `tenant` | `JoinedByInvite`, `OneDefault`, `Managed`, `RoutingStays` | two users, two businesses, one number, two requests at a time, five in all (907 620 states) |
| `pricing` | `TaxAsDocumented`, `WireAddsUp` | two lines in exempt, standard and reduced category, amounts that round both ways, one edit of the catalogue (158 025 states) |

Runs that end in a counterexample, each a disagreement between the code and
what the repository says of it (`findings` in `PROJECT.json` quotes the line):

| Run | Property | What happens |
|---|---|---|
| `sale_race` | `SaleInvoicedOnce` | two payments for one open sale, two invoices |
| `vat_sign` | `PositionIsDeclared` | the VAT queries negate credit notes that are negative already |

Observed in the same models, without a run of their own. The properties named
are definitions of the modules; each instance is a run above with its constants
changed as said, and where a property allows for a *mishap*, the observation is
what TLC shows when that condition is dropped.

| Instance | Property | What happens |
|---|---|---|
| `Submission`, `Adapter = "oscu"`, `Faults = {"crash"}`, `MaxAttempts = 3` | `FiledOnce` | the oscu cache (`fiscal/oscu/oscu.go:551`) does not survive a restart: a second registration. ADR-0009:34 says `fiscal_submissions` "is what actually prevents a duplicate submission to KRA in that case"; `Submit` never reads that table. `FilingsCounted` is what is left |
| `Submission`, `MaxAttempts = 3`, two sweeps, one failed persist | `RescuesOnlyStale` | two runs of the watchdog list the same invoice; the first rescues it, a worker claims it, and the second takes it from that worker, as its compare-and-swap looks at the state alone (`fiscal/watchdog.go:71`) |
| `Submission`, `FairSpec`, `Faults = {"crash"}`, `MaxAttempts = 2` | `EventuallySettled` | one crash and the invoice stays QUEUED: the job has one attempt (`platform/jobs/jobs.go:39`), and `docs/architecture.md:203` says it is re-leased |
| `Submission`, `Ops = {"requeue"}` | `AwaitingHasJob` | the operator's requeue (`admin/admin.go:292`) inserts no job |
| `Submission`, `Ops = {"retry"}` | `AwaitingHasJob` | the merchant's retry (`fiscal/submitter.go:363`) is absorbed by a row about to complete |
| `Submission`, `Ops = {"force"}` | `NumberFinal` | force-ack (`admin/admin.go:314`) replaces the number of an ACKED invoice |
| `Submission`, `MaxAttempts = 2`, one failed persist or crash | `EveryCallRecorded` | an exhausted invoice is parked and submitted once more, empty (`fiscal/submitter.go:132`) |
| `Submission`, `Adapter = "vendor"`, `persist_err` | `DuplicateIsSuccess` | "duplicate" after a lost answer is taken for a defect (`fiscal/vendor/vendor.go:281`) |
| `Ingest`, `FairSpec`, `PayerPayloads`, `PayerCart`, a crash, `Ops = {"sale", "request"}` | `StoredIsLedgered` | a stored STK callback does not parse as a C2B payload and is written off (`mpesa/reconcile.go:59`), against the comment at `ledger/service.go:147` |
| `Ingest`, `FairSpec`, `CounterPayloads`, `CounterCart`, `Ops = {"sale"}` | `StoredIsLedgered` | `counter_window` (`ledger/matcher.go:118`) is not a value `payments.match_rule` accepts |
| `Ingest`, `RecoveryPayloads`, `Ops = {"replay"}` | `ProcessedMeansLedgered` | an operator replays an event that has no payment: the ingester answers Duplicate, and the event is marked processed with its error cleared (`admin/admin.go:446`), so that the reconciler no longer lists it. `ledger/service.go:164` keeps the mark off for its sake |
| `Ingest`, `ReversalPayloads`, `AutoInvoice`, a crash, `Ops = {"ack"}` | `CreditedOnce` | a reversal processed twice gets two credit notes (`ledger/service.go:444`) |
| `Ingest`, two handlers, `Ops = {"convert"}` | `InvoicedOnce` | two overlapping conversions of one payment both commit (`ledger/handler.go:667`) |
| `Ingest`, `Ops = {"sale", "link"}` | `PartialNeverInvoiced` | a partial payment linked by hand closes the sale (`ledger/handler.go:637`) |
| `Ingest`, `Ops = {"ack"}` and a reversal | `ReversedIsCredited` | a reversal before the acknowledgement gets no credit note, ever (`ledger/service.go:434`) |
| `Documents`, `stale` | `OneLive`, `SupersededOnce` | two reissues that cross leave two live invoices for one sale (`ledger/service.go:488`) |
| `Documents`, `early` | `DeclaredOnce`, `CreditCites` | a reissue before the acknowledgement files both invoices without a credit note; a merchant's credit note before it is filed without a number, against `docs/compliance.md:69`; a reversal between a reissue and its acknowledgement credits the old invoice again, against ADR-0010; a parked invoice that was superseded is filed when retried |
| `Documents`, `again` | `DeclaredOnce` | a reversal after the merchant's credit note makes a second one |
| `Documents`, `stale` or `cut` | `HeldUntilConfigured` | an invoice created from an old `etims_status`, or an activation that did not run, stays TAX_PENDING; and a configuration that fails after another succeeded sets the organisation back (`org/etims.go:118`) |
| `Documents`, `Ops = {"invoice", "reissue"}`, one request at a time | `OnePage` | the code of a reissued invoice opens no page, as the policy of migration 0005 and the function it calls read `invoices` through each other: SECURITY DEFINER does not help, since the function's owner is the application role, no superuser (`tools/postgres/init.sql:6`), and the table has FORCE ROW LEVEL SECURITY. `0005_superseded_invoices.sql:10` says the code will "always resolve to the latest valid KRA invoice"; the answer to a claim, a lookup of the old code (`publicapi/receipt.go:127`), is an error too |
| `Documents`, merchant's credit note | `ExportMatchesKRA` | the export lists the note and not the invoice it supersedes: minus the sale |
| `Receipts`, no faults | `SentMeansAccepted` | a message the gateway refused with recipient status 500 or more is marked sent, charged and not tried again (`notify/at.go:88`), against the comment at `notify/service.go:176` |
| `Receipts`, `crash` or `mark_err` | `Told` without its last disjunct | a row left queued is taken for a message under way and never sent (`notify/service.go:120`) |
| `Receipts`, a resend before the acknowledgement | `told = {TRUE}` | the resend tells the buyer without a number and takes the place of the real receipt (`ledger/handler.go:1352`) |
| `Receipts`, `crossed` | `SentOnce` | two jobs that insert at once both send, against the comment at `notify/service.go:59` |
| `Tenant`, a `LateReject` | `RoutingStays` | a rejection decided before the verification closes the number (`admin/shortcodes.go:144`); `docs/api.md:83` says revoking is not an operation |
| `Tenant`, `join`, `remove`, `demote` | `OneDefault`, `Managed` | two organisations joined at once are both the default; two managers remove each other; a manager who accepts an older invite to a lesser role loses hers |
| `Tenant` | — | `RevokeInvite` runs unscoped and sees no invite, so it does nothing (`org/service.go:570`); a verification whose registration at Daraja failed cannot be repeated; a wrong code's attempt is rolled back and never counted |
| `Pricing`, vendor adapter | `AddsUpTo` of a credit note | lines are sent positive under negative totals (`fiscal/vendor/vendor.go:133`) |
| `Pricing`, page of a credit note | `WireAddsUp` without its sign | the page shows the negative totals of the note (`publicapi/receipt.go:134`) beside the positive rows of the sale (`publicapi/receipt.go:165`), and a credit note has a code of its own that opens it |

### Bounds

`MaxFaults` and `MaxOps` cap faults and human actions, `MaxAttempts` the
submissions; in `Tenant`, `MaxCodes`, `MaxSessions`, `MaxInvites` and `MaxRows`, and in
`Pricing`, `MaxLines` and `MaxEdits` cap the tables. Two workers, two sweeps and two handlers are
enough for every race between two actors, which is what the code's checks and
updates can lose; a third faces the same rows. Two transactions cover a payment
and its reversal, or two payments for one sale. Two faults in one history cover
"the recovery fails too"; `ingest_faults` takes one, `ingest_recovery` two,
`submission_faults` three. In `documents` four requests make
a chain of three invoices, or a reissue, a claim and a credit note of it. `receipts` has the two
jobs of the code and one resend, enough for two jobs of one template at a
time. `tenant` needs two users for an owner who invites, removes and is removed,
two businesses for claims of one number and for two defaults. `pricing` takes
amounts of which 16 and 8 percent are fractions on both sides of a half. Workers, sweeps, invoices and handlers are
symmetric in the safety runs, and so are requests, users and businesses; runs with liveness use no symmetry. `CHECK_DEADLOCK
FALSE` everywhere: a history may end with all work done.

### Fairness

`Submission`: weak fairness of what runs by itself — River fetches available
jobs, wakes due ones and rescues stuck ones, clocks pass, a fetched job runs to
its end, the watchdog comes round every few minutes. For the rescuer and the
watchdog fairness is asked only once the worker is really gone (`Quiet`), which
the job's 90 s deadline justifies. `Ingest`: weak fairness of a started handler
(the api's requests and the worker's jobs run to an end), strong fairness of the
sweep taking up an event that stays unprocessed: the reconciler runs every five
minutes and works through its list, but an event may be busy in one sweep when
the next begins. `Receipts`: weak fairness
of each job's next step, as River runs what is ready and the gateway's client
has a timeout. No fairness for faults, people, KRA or M-Pesa.

## 5. Proofs

Each theorem holds for all sets of invoices, workers, handlers, users and so on
and for all values of the bounds, from the named assumptions of the module it
is about: `MaxAttemptsAssumption`, `SubmissionAssumption`, `IngestAssumption`,
`DocumentsAssumption`, `ReceiptsAssumption`, `TenantAssumption`,
`PricingAssumption`. They say that null values are not members of the sets they
complement, that bounds are naturals and that the sets of records the
environment draws from have the fields the code decodes; TLC evaluates them on
every run.

A theorem has a hypothesis of its own where the code relies on something it
does not enforce; the table of observations in section 4 says what happens
without it. The tables below name them as follows, and add the operator's and
the merchant's actions they exclude:

| Hypothesis | What it says of the system |
|---|---|
| no `"stall"` | no worker outlives its 90 s deadline by the 10 or 15 minutes after which River or the watchdog takes its invoice away |
| one sweep | sweeps of the watchdog do not overlap (`\A s, t \in Sweeps : s = t`) |
| `HandsOff` | the merchant neither converts, links nor settles |
| `OneAtATime` | requests to the ledger do not overlap |
| no `"retry"` | the merchant does not send an invoice in review back, which restarts its count |

### Filing with KRA: SubmissionProofs, SubmissionRecovery

| Theorem | Statement | Argument |
|---|---|---|
| `TypeCorrect` | `Spec => []TypeOK` | inductive as it stands |
| `AckedIsFinalHolds` | `Spec => AckedIsFinal` | from `TypeOK`: every update that moves `state` tests a state other than ACKED, or writes ACKED |
| `AckBackedHolds` | `Spec => []AckBacked` | strengthened by `AnswersBacked`: the answer a worker carries, and each entry of the adapter's cache, is a registration KRA has |
| `SingleFlightHolds` | no stall: `Spec => []SingleFlight` | strengthened by `Owned`: a busy worker holds the running row of its invoice, and there is one row |
| `BilledOnceHolds` | no stall: `Spec => []BilledOnce` | `Owned` and `Unbilled`: between claim and persist the invoice has not been counted; `AckInvoice` itself tests nothing |
| `ImplementsFilingHolds` | no stall, no force-ack: `Spec => ImplementsFiling` | `Owned`, `Billing`, `Backed` and `InFlightPending` (what a worker carries is still pending when it writes), then one lemma per action: it is a step of `Filing` or a stutter |
| `AttemptsCountHolds` | no stall, one sweep: `Spec => AttemptsCount` | `Recovery`: besides `Owned`, the attempt a worker carries is the row's (`Carried`), a SUBMITTED invoice has no job that waits (`SubmittedUnqueued`), nobody is on an invoice a sweep has listed and its row is as it was listed (`ListedStale`), and no committed row is DRAFT or FAILED_TERMINAL (`Resting`) |
| `AttemptBoundHolds` | the same and no requeue: `Spec => []AttemptBound` | `Recovery`; the operator's requeue keeps the counter, which is why it is excluded |
| `FilingsCountedHolds` | no stall, one sweep, no retry: `Spec => []FilingsCounted` | any adapter and any other fault. `Recovery`, and `Calling`: before its call a worker's attempt is not yet used up by what KRA registered, so each registration (`CallsCounted`) is paid for by the claim before it |
| `AwaitingHasJobHolds` | only `persist_err` fails, only force-ack, one sweep: `Spec => []AwaitingHasJob` | `Recovery` and `Attended`: a running row has its worker, a job that ends for good leaves nothing waiting, and the job of an invoice that is not due sleeps or is about to |

### Payments: IngestProofs

All of it rests on `HandlersOK`, what a handler may rely on between two of its
transactions whatever the others commit meanwhile: its event stays stored, the
ids it read still name rows, a decision that closes a sale names it or makes it,
and the payments a settlement saw are still of that sale or already invoiced.

| Theorem | Hypothesis | Argument |
|---|---|---|
| `TypeCorrect`: `TypeOK` | — | `TypeOK /\ HandlersOK` is inductive |
| `PaidIsInvoicedHolds` | — | `HandlersOK`; the sale, its payment and its invoice change in one transaction |
| `MarkedMeansLedgeredHolds` | — | `HandlersOK`: a handler that is about to mark has recorded the payment or found it recorded. The mark of a replay is `replayed`, which `ProcessedMeansLedgered` is about (section 4) |
| `LedgerOnlyGrowsHolds` | — | what each kind of step may do to the tables (`Effects`) |
| `CreditBackedHolds` | — | `Effects`; `acked` and the sale of a document never change back |
| `InvoicedOnceHolds` | `HandsOff` | `InvoicedIsLedgered`: a transaction behind an invoice is in `payments`, so `CreatePayment`'s ON CONFLICT stops the second delivery |
| `PartialNeverInvoicedHolds` | `HandsOff` | `RequestsPriced` and `Covers`: the amount that covered the sale when `Match` read it covers it when the invoice is made, as totals of sales never change |
| `PaymentStaysHolds` | `OneAtATime`, or no convert and link | `StillConvertible`: with one request, what `convertPayment` checked is still so when it writes |

### Documents: DocumentsProofs

No hypothesis: the properties themselves name the mishaps they do not hold under.
The base of all is `TypeOK`, `RequestsOK` (what a request read about a document is
still true of it: an acknowledgement is not taken back) and `Unpaid` (a sale whose
payment is not there has no document, and one request makes its first).

| Theorem | Argument |
|---|---|
| `TypeCorrect`: `TypeOK` | the base is inductive: ids point at rows, successors come later, parents earlier |
| `SupersededOnceHolds` | from the base; `ActiveInvoice` ends on a row without successor because every hop goes to a later row and it makes as many hops as there are rows |
| `OneLiveHolds` | `Chained` (a successor is of the same sale) and `EndsApart`: of all rows of a sale, credit notes that supersede an invoice included, only one is the end of a chain. `OneLive` alone is not inductive: after the merchant's credit note no invoice is live, and the next reissue must not start a second chain |
| `CreditCitesHolds` | `Credits`: a note that did not come early has an acknowledged parent, which it cites from its submission on |
| `HeldUntilConfiguredHolds` | inductive over the base, one case for each kind of step |
| `OneActiveHolds` | `Chained`, `EndsApart` and `ActiveIsEnd`: from any invoice of a sale the walk ends on a row without successor, of the same sale, and there is one such row |
| `DeclaredOnceHolds` | `Signed`, `Closed` and the balance of a sale, kind of step by kind of step: filing moves no total, the first invoice adds one, a reissue adds a note and an invoice, a credit note or a reversal takes one away. The last case needs `Closed`, by which what may still be credited belongs to a sale whose payment stands, and `LiveIsNewest` (from `EndsApart`): the newest invoice, which a reversal credits, is the live one |
| `ExportMatchesKRAHolds` | `Signed` and `Cancelled`: what an invoice replaced, with the credit note of it, adds up to nothing. The export is the rest of the documents, so by `TotalUnion` it is what KRA holds |

### Receipts and accounts: ReceiptsProofs, TenantProofs

| Theorem | Argument |
|---|---|
| `Receipts.TypeOK` (`TypeCorrect`) | inductive; it includes that a job that may run has an attempt left |
| `SentOnceHolds` | `WithinBudget`: messages about to be sent count as sent, and a live row pays for one |
| `UsageIsSentHolds` | `Charged`: answers about to be recorded count as charged, be they acceptances or refusals taken for success |
| `JoinedByInviteHolds` | `WellFormed` and `PendingUnanswered`: an invite still pending was not answered |
| `OneDefaultHolds` | `DefaultsBelong`: a default is a membership, so a user's first business is her first default |
| `ManagedHolds` | inductive over `WellFormed`: who removes another is not removed herself and is still a manager, or the removal is noted; who accepts an invite stays a manager, or that is noted |
| `RoutingStaysHolds` | `OneVerified`: a number has one verified row, which the unique index of the code keeps |

### Tax: PricingProofs

| Theorem | Statement | Argument |
|---|---|---|
| `TaxAsDocumentedHolds` | `Spec => []TaxAsDocumented` | strengthened by `Inv`, the types of catalogue and lines; the arithmetic is `NoTie`: `t * 1600` leaves no remainder of 5800 modulo 11600, nor `t * 800` one of 5400 modulo 10800, so half up and half to even agree |
| `WireAddsUpHolds` | `Spec => []WireAddsUp` | strengthened by `Books`: the tax of a line is within its total (`Within`), the totals of cart and sale are the sums of their lines (`Balanced`), a document copies the totals of the sale (`Copied`), and what was sent once is what would be sent now (`SentAgain`), which holds because `buildDocument` reads the sale and not the catalogue. The rows of the receipt page are the lines grouped by category (`TotalGrouped`) |

### How the proofs are laid out

A strengthening is a named definition at the end of the module it is about, so
that the proofs use the formulas a reader of the module sees, and TLC has
checked each as an invariant on the instances of section 4. Proof modules
first state what kinds of step there are (`Effects` in `IngestProofs`, `StepKinds` in
`DocumentsProofs`, `RowsMove` and `Grows` in `TenantProofs`); a property is then proved
once per kind of step, not once per action.

The library's induction theorems cannot be used with the installed provers, as
they quantify over a predicate. Where induction is unavoidable (the maximum of
a set of ids, the hops of a chain, a sum over any number of documents), `Sums`
derives it for sets from the least-number principle: `LeastNumber`, `AllNumbers`
and, for finite sets, `AllSubsets`. `Sums` goes on to show that the library's
folds are sums: `Total` of no index is 0, one more index adds its number whichever
it is, and so sums may be split (`TotalUnion`), negated, and taken group by group.

Every safety property that a passing run checks is a theorem, but for
`SaleInvoicedOnce`: it holds only where requests do not overlap (`sale_race`) and no
request-to-pay outlives its sale, which leaves too little for a theorem. Only
model-checked too is liveness (`EventuallySettled`, `StoredIsLedgered`,
`EventuallyTold`), as the prover has no rules for fairness and `ENABLED`. No module
declares a RECURSIVE operator.

## 6. Not modelled

* Wording and formatting, encryption, HTTP, audit rows, stock levels, customers'
  names, the CSV layout and time windows of reports, plans and entitlements:
  data or reads no property tells apart.
* `IngestReversal` (`ledger/service.go:811`), behind the separate reversal
  endpoint: it looks for the payment in the ingest scope, whose policies show it
  no payments, and so always ends with nothing done. The same holds for the
  UPDATE of the delivery report (`notify`).
* The operator's edits of an organisation and messages to a
  merchant (`admin/admin.go`).
* Token caches and paging of the Daraja client and the registration of an OSCU
  device: I/O against a remote service.
* Invites by e-mail: no code writes a user's address, so they match nobody.
* Collisions of receipt codes, which are random; the retry loop around the insert
  (`ledger/service.go:353`) runs in a transaction that is already aborted.
* Overflow of quantity times price (`ledger/handler.go:1096`).
* Row-level security except where it decides an outcome, and more than one
  organisation except in `Tenant`.
* The KRA gateway (a cache of PIN lookups), the platform helpers, the commands'
  wiring and the web application.
