----------------------------- MODULE Submission -----------------------------
(***************************************************************************)
(* Filing invoices with KRA: the fiscal.submit_invoice job                 *)
(* (backend/internal/fiscal/submitter.go), the watchdog that rescues stale *)
(* SUBMITTED invoices (watchdog.go), the merchant's retry, the operator's  *)
(* overrides (backend/internal/admin/admin.go) and the River queue they    *)
(* share (backend/internal/platform/jobs/jobs.go).                         *)
(*                                                                         *)
(* One action is one database transaction, one provider call or one step   *)
(* of River.  The claim transaction reads the invoice first and writes it  *)
(* with a compare-and-swap later: Postgres runs it READ COMMITTED and takes*)
(* no lock on the read, so other transactions may commit in between and    *)
(* the read and the write are two actions.                                 *)
(***************************************************************************)
EXTENDS FiscalState, Integers, FiniteSets

CONSTANTS
    Invoices,    \* invoice ids, of either kind
    Workers,     \* slots of the fiscal queue in the worker process
    Sweeps,      \* runs of the watchdog that may overlap
    NoWorker,    \* a job row that no live worker holds
    NoInvoice,   \* what an idle worker works on
    Adapter,     \* which provider FISCAL_ADAPTER selects
    Faults,      \* what may go wrong in this instance
    Ops,         \* what merchant and operator may do in this instance
    MaxFaults,   \* bound on the number of faults
    MaxOps       \* bound on the number of merchant and operator actions

\* "contract" is any provider that keeps the promise of the Provider interface
\* (idempotent by document id, with a working lookup), as the mock does.
Adapters == {"contract", "vendor", "oscu"}

\* crash: the worker process dies.  claim_err, persist_err: the transaction
\* fails, the 90 s deadline of the job included.  skew: a snoozed job wakes
\* before next_attempt_at.  stall: a worker outlives River's 10 and the
\* watchdog's 15 minutes, which the 90 s deadline otherwise rules out.
FaultKinds == {"crash", "claim_err", "persist_err", "skew", "stall"}

\* retry: POST /invoices/{id}/retry.  requeue, force: the admin's dead-letter
\* actions RequeueInvoice and ForceAcked.
OpKinds == {"retry", "requeue", "force"}

ASSUME SubmissionAssumption ==
    /\ NoWorker \notin Workers
    /\ NoInvoice \notin Invoices
    /\ Adapter \in Adapters
    /\ Faults \subseteq FaultKinds
    /\ Ops \subseteq OpKinds
    /\ MaxFaults \in Nat
    /\ MaxOps \in Nat

VARIABLES
    state,    \* invoices.state
    attempt,  \* invoices.attempt
    due,      \* next_attempt_at is NULL or has passed
    kraNo,    \* invoices.kra_invoice_no: 0 is NULL, n the n-th number KRA gave
              \* out for this invoice, ManualNo one typed in by an operator
    usage,    \* what the invoice added to usage_counters.invoices_acked; each
              \* time, the buyer's receipt job is enqueued in the same transaction
    job,      \* the live River row of the invoice's submit job and who runs it
    wk,       \* where each worker is in Submit, and its local variables
    sweep,    \* the invoices each watchdog run listed and has not handled yet
    kra,      \* how many documents KRA registered for the invoice
    acks,     \* the oscu adapter's in-memory idempotency cache
    lost,     \* invoices with a provider call whose fiscal_submissions row was
              \* rolled back because the invoice had moved on (failures aside)
    faults,   \* faults so far
    ops       \* merchant and operator actions so far

vars == <<state, attempt, due, kraNo, usage, job, wk, sweep, kra, acks, lost,
          faults, ops>>

invoiceVars == <<state, attempt, due, kraNo, usage, lost>>
bounds == <<faults, ops>>

ManualNo == -1

\* River's row, restricted to the states the unique key covers; a completed or
\* discarded row blocks nothing and never runs again, so it is "none".
JobStates == {"none", "available", "scheduled", "running"}
NoJob == [st |-> "none", by |-> NoWorker]

\* What Worker.Work returns to River.
Verdicts == {"complete", "snooze", "snooze0", "discard"}

Idle == [pc |-> "idle", inv |-> NoInvoice, st |-> "DRAFT", att |-> 0,
         retry |-> FALSE, doc |-> FALSE, err |-> "none", no |-> 0,
         verdict |-> "complete"]

WorkerStates ==
    [pc: {"idle", "fetched", "read", "claimed", "called", "done"},
     inv: Invoices \union {NoInvoice}, st: State, att: Nat, retry: BOOLEAN,
     doc: BOOLEAN, err: Error, no: Nat, verdict: Verdicts]

InvoicesOK ==
    /\ state \in [Invoices -> State]
    /\ attempt \in [Invoices -> Nat]
    /\ due \in [Invoices -> BOOLEAN]
    /\ kraNo \in [Invoices -> Nat \union {ManualNo}]
    /\ usage \in [Invoices -> Nat]
    /\ lost \subseteq Invoices

JobsOK == job \in [Invoices -> [st: JobStates, by: Workers \union {NoWorker}]]

WorkersOK ==
    /\ wk \in [Workers -> WorkerStates]
    /\ \A w \in Workers : wk[w].pc # "idle" => wk[w].inv \in Invoices

BoundsOK == faults \in 0..MaxFaults /\ ops \in 0..MaxOps

TypeOK ==
    /\ InvoicesOK
    /\ JobsOK
    /\ WorkersOK
    /\ BoundsOK
    /\ sweep \in [Sweeps -> SUBSET [inv: Invoices, att: Nat]]
    /\ kra \in [Invoices -> Nat]
    /\ acks \subseteq Invoices

-----------------------------------------------------------------------------
\* An invoice starts the way the ledger creates it: QUEUED with its job in the
\* same transaction, or TAX_PENDING without one while eTIMS is unconfigured.
Init ==
    /\ state \in [Invoices -> {"QUEUED", "TAX_PENDING"}]
    /\ attempt = [i \in Invoices |-> 0]
    /\ due = [i \in Invoices |-> TRUE]
    /\ kraNo = [i \in Invoices |-> 0]
    /\ usage = [i \in Invoices |-> 0]
    /\ job = [i \in Invoices |->
                IF state[i] = "QUEUED" THEN [st |-> "available", by |-> NoWorker]
                                       ELSE NoJob]
    /\ wk = [w \in Workers |-> Idle]
    /\ sweep = [s \in Sweeps |-> {}]
    /\ kra = [i \in Invoices |-> 0]
    /\ acks = {}
    /\ lost = {}
    /\ faults = 0
    /\ ops = 0

Fault(kind) ==
    /\ kind \in Faults
    /\ faults < MaxFaults
    /\ faults' = faults + 1
    /\ UNCHANGED ops

Op(kind) ==
    /\ kind \in Ops
    /\ ops < MaxOps
    /\ ops' = ops + 1
    /\ UNCHANGED faults

-----------------------------------------------------------------------------
(* River, from the options jobs.go gives it.                               *)

\* UniqueOpts.ByState: the states in which an existing row absorbs an insert.
UniqueStatesNoRunning == {"available", "scheduled"}
UniqueStates == {"available", "scheduled", "running"}

\* InsertTx of SubmitInvoiceArgs for the invoices in S: skipped, without an
\* error, for an invoice that already has a live row.
Enqueue(S) ==
    job' = [i \in Invoices |->
                IF i \in S /\ job[i].st \notin UniqueStates
                THEN [st |-> "available", by |-> NoWorker] ELSE job[i]]

Becomes(w, r) == wk' = [wk EXCEPT ![w] = r]

Holds(w, i) == wk[w].pc # "idle" /\ wk[w].inv = i

\* Nobody works on the invoice any more: what 10 or 15 minutes of silence mean,
\* given that a job is cancelled after 90 seconds.
Quiet(i) == \A w \in Workers : ~Holds(w, i)

\* The timeout of every invoice in S has run out.
TimedOut(S) ==
    \/ (\A i \in S : Quiet(i)) /\ UNCHANGED bounds
    \/ (\E i \in S : ~Quiet(i)) /\ Fault("stall")

Fetch(w, i) ==
    /\ wk[w].pc = "idle"
    /\ job[i].st = "available"
    /\ job' = [job EXCEPT ![i] = [st |-> "running", by |-> w]]
    /\ Becomes(w, [Idle EXCEPT !.pc = "fetched", !.inv = i])
    /\ UNCHANGED <<invoiceVars, sweep, kra, acks, bounds>>

\* The completer writes what Work returned, unless the row was taken away.
Finish(w) ==
    LET i == wk[w].inv
        v == wk[w].verdict
    IN  /\ wk[w].pc = "done"
        /\ Becomes(w, Idle)
        /\ job' = IF job[i] # [st |-> "running", by |-> w] THEN job
                  ELSE [job EXCEPT ![i] =
                     CASE v \in {"complete", "discard"} -> NoJob
                       [] v = "snooze"  -> [st |-> "scheduled", by |-> NoWorker]
                       [] v = "snooze0" -> [st |-> "available", by |-> NoWorker]]
        /\ UNCHANGED <<invoiceVars, sweep, kra, acks, bounds>>

\* The backoff of a snoozed job ends, normally not before next_attempt_at.
WakeUp(i) ==
    /\ job[i].st = "scheduled"
    /\ \/ due[i] /\ UNCHANGED bounds
       \/ ~due[i] /\ Fault("skew")
    /\ job' = [job EXCEPT ![i] = [st |-> "available", by |-> NoWorker]]
    /\ UNCHANGED <<invoiceVars, wk, sweep, kra, acks>>

Elapse(i) ==
    /\ ~due[i]
    /\ due' = [due EXCEPT ![i] = TRUE]
    /\ UNCHANGED <<state, attempt, kraNo, usage, lost, job, wk, sweep, kra, acks, bounds>>

\* RescueStuckJobsAfter: a row running for 10 minutes has used its only attempt
\* (MaxAttempts = 1), so the rescuer discards it.
RescueStuckJob(i) ==
    /\ job[i].st = "running"
    /\ TimedOut({i})
    /\ job' = [job EXCEPT ![i] = NoJob]
    /\ UNCHANGED <<invoiceVars, wk, sweep, kra, acks>>

-----------------------------------------------------------------------------
(* Submitter.Submit and Worker.Work.                                       *)

Return(w, v) == Becomes(w, [Idle EXCEPT !.pc = "done", !.inv = wk[w].inv, !.verdict = v])

\* Step 1, the read of the claim transaction and its early returns.
Read(w) ==
    LET i == wk[w].inv
    IN  /\ wk[w].pc = "fetched"
        /\ \/ /\ state[i] \notin {"QUEUED", "FAILED_RETRYABLE"}
              /\ Return(w, "complete")
           \/ /\ state[i] = "QUEUED" /\ ~due[i]
              /\ Return(w, "snooze")
           \/ /\ state[i] = "FAILED_RETRYABLE" \/ (state[i] = "QUEUED" /\ due[i])
              /\ Becomes(w, [wk[w] EXCEPT !.pc = "read", !.st = state[i], !.att = attempt[i]])
        /\ UNCHANGED <<invoiceVars, job, sweep, kra, acks, bounds>>

\* The same, when next_attempt_at passes between the comparison and the call of
\* time.Until: the delay is not positive, so Work takes the job for finished.
ReadAtTheInstant(w) ==
    LET i == wk[w].inv
    IN  /\ wk[w].pc = "fetched" /\ state[i] = "QUEUED" /\ ~due[i]
        /\ due' = [due EXCEPT ![i] = TRUE]
        /\ Return(w, "complete")
        /\ UNCHANGED <<state, attempt, kraNo, usage, lost, job, sweep, kra, acks, bounds>>

\* SetInvoiceState's guard: WHERE state = expected_state.
SwapAlways(i, expected) == TRUE
Swappable(i, expected) == state[i] = expected

Exhausted(w) ==
    /\ wk[w].st = "FAILED_RETRYABLE"
    /\ Resolve(wk[w].att, "unknown") = "FAILED_TERMINAL"

\* Step 1, the write: FAILED_RETRYABLE -> FAILED_TERMINAL -> NEEDS_REVIEW when
\* the attempts are used up.  Submit does not return here: it goes on to call
\* the provider with the zero document, and attempt 0.
GiveUp(w) ==
    LET i == wk[w].inv
    IN  /\ wk[w].pc = "read" /\ Exhausted(w) /\ Swappable(i, wk[w].st)
        /\ state' = [state EXCEPT ![i] = "NEEDS_REVIEW"]
        /\ due' = [due EXCEPT ![i] = TRUE]
        /\ Becomes(w, [wk[w] EXCEPT !.pc = "claimed", !.att = 0])
        /\ UNCHANGED <<attempt, kraNo, usage, lost, job, sweep, kra, acks, bounds>>

ClaimFirst(w) ==
    LET i == wk[w].inv
    IN  /\ wk[w].pc = "read" /\ ~Exhausted(w) /\ Swappable(i, wk[w].st)
        /\ state' = [state EXCEPT ![i] = "SUBMITTED"]
        /\ attempt' = [attempt EXCEPT ![i] = 1]
        /\ due' = [due EXCEPT ![i] = TRUE]
        /\ Becomes(w, [wk[w] EXCEPT !.pc = "claimed", !.att = wk[w].att + 1,
                                     !.retry = wk[w].att > 0, !.doc = TRUE])
        /\ UNCHANGED <<kraNo, usage, lost, job, sweep, kra, acks, bounds>>

\* Step 1, the write: -> SUBMITTED with the attempt counted.
Claim(w) ==
    LET i == wk[w].inv
    IN  /\ wk[w].pc = "read" /\ ~Exhausted(w) /\ Swappable(i, wk[w].st)
        /\ CanTransition(wk[w].st, "SUBMITTED")
        /\ state' = [state EXCEPT ![i] = "SUBMITTED"]
        /\ attempt' = [attempt EXCEPT ![i] = wk[w].att + 1]
        /\ due' = [due EXCEPT ![i] = TRUE]
        /\ Becomes(w, [wk[w] EXCEPT !.pc = "claimed", !.att = wk[w].att + 1,
                                     !.retry = wk[w].att > 0, !.doc = TRUE])
        /\ UNCHANGED <<kraNo, usage, lost, job, sweep, kra, acks, bounds>>

\* The compare-and-swap found another state: Skipped, and the job completes.
ClaimSkipped(w) ==
    /\ wk[w].pc = "read" /\ ~Swappable(wk[w].inv, wk[w].st)
    /\ Return(w, "complete")
    /\ UNCHANGED <<invoiceVars, job, sweep, kra, acks, bounds>>

\* A database error, or buildDocument's, rolls the claim back; River discards
\* the job because its single attempt is spent.
ClaimFails(w) ==
    /\ wk[w].pc \in {"fetched", "read"}
    /\ Fault("claim_err")
    /\ Return(w, "discard")
    /\ UNCHANGED <<invoiceVars, job, sweep, kra, acks>>

\* Step 2: what the adapter knows of a document submitted before.
LookupFinds(i) ==
    CASE Adapter = "contract" -> kra[i] > 0
      [] Adapter = "oscu"     -> i \in acks
      [] Adapter = "vendor"   -> FALSE

\* ... and what it answers when the document is submitted once more without
\* reaching KRA: the first ack, or the vendor's "duplicate", which the adapter
\* maps to a ValidationError.
Replays(i) == LookupFinds(i) \/ (Adapter = "vendor" /\ kra[i] > 0)
ReplayError == IF Adapter = "vendor" THEN "validation" ELSE "none"

Answered(w, err, no) ==
    Becomes(w, [wk[w] EXCEPT !.pc = "called", !.err = err, !.no = no])

\* The zero document of GiveUp: two adapters refuse it themselves, the vendor
\* adapter sends it.
CallWithoutDocument(w) ==
    /\ wk[w].pc = "claimed" /\ ~wk[w].doc
    /\ \E err \in {"validation"} \union (IF Adapter = "vendor" THEN {"transient"} ELSE {}) :
            Answered(w, err, 0)
    /\ UNCHANGED <<invoiceVars, job, sweep, kra, acks, bounds>>

\* The ack is recovered by LookupInvoice, on a retry only.
Recover(w) ==
    /\ wk[w].pc = "claimed" /\ wk[w].doc /\ wk[w].retry
    /\ LookupFinds(wk[w].inv)
    /\ Answered(w, "none", kra[wk[w].inv])
    /\ UNCHANGED <<invoiceVars, job, sweep, kra, acks, bounds>>

\* The lookup itself fails, which only a provider that really asks can meet:
\* its error is the attempt's outcome and nothing is submitted.
LookupFails(w) ==
    /\ wk[w].pc = "claimed" /\ wk[w].doc /\ wk[w].retry
    /\ Adapter = "contract"
    /\ Answered(w, "transient", 0)
    /\ UNCHANGED <<invoiceVars, job, sweep, kra, acks, bounds>>

\* The document was submitted before and is not registered again.
Replay(w) ==
    /\ wk[w].pc = "claimed" /\ wk[w].doc
    /\ ~(wk[w].retry /\ LookupFinds(wk[w].inv))
    /\ Replays(wk[w].inv)
    /\ Answered(w, ReplayError, IF ReplayError = "none" THEN kra[wk[w].inv] ELSE 0)
    /\ UNCHANGED <<invoiceVars, job, sweep, kra, acks, bounds>>

\* KRA registers the document; the answer arrives, or is lost on its way back.
File(w) ==
    LET i == wk[w].inv
    IN  /\ wk[w].pc = "claimed" /\ wk[w].doc
        /\ ~Replays(i)
        /\ kra' = [kra EXCEPT ![i] = kra[i] + 1]
        /\ \/ /\ Answered(w, "none", kra[i] + 1)
              /\ acks' = IF Adapter = "oscu" THEN acks \union {i} ELSE acks
           \/ /\ Answered(w, "deadline", 0)
              /\ UNCHANGED acks
        /\ UNCHANGED <<invoiceVars, job, sweep, bounds>>

\* KRA or the vendor refuses the document, or cannot be reached: one
\* representative of each class of error.
Refuse(w) ==
    /\ wk[w].pc = "claimed" /\ wk[w].doc
    /\ ~(wk[w].retry /\ LookupFinds(wk[w].inv))
    /\ \E err \in {"validation", "transient"} : Answered(w, err, 0)
    /\ UNCHANGED <<invoiceVars, job, sweep, kra, acks, bounds>>

Outcome(w) == Resolve(wk[w].att, wk[w].err)

\* Step 3, ACKED: AckInvoice has no guard on the state.
PersistAck(w) ==
    LET i == wk[w].inv
    IN  /\ wk[w].pc = "called" /\ Outcome(w) = "ACKED"
        /\ state' = [state EXCEPT ![i] = "ACKED"]
        /\ kraNo' = [kraNo EXCEPT ![i] = wk[w].no]
        /\ due' = [due EXCEPT ![i] = TRUE]
        /\ usage' = [usage EXCEPT ![i] = usage[i] + 1]
        /\ Return(w, "complete")
        /\ UNCHANGED <<attempt, lost, job, sweep, kra, acks, bounds>>

\* Step 3, SUBMITTED -> FAILED_RETRYABLE -> QUEUED with next_attempt_at.
PersistRetry(w) ==
    LET i == wk[w].inv
    IN  /\ wk[w].pc = "called" /\ Outcome(w) = "QUEUED" /\ Swappable(i, "SUBMITTED")
        /\ state' = [state EXCEPT ![i] = "QUEUED"]
        /\ due' = [due EXCEPT ![i] = RetryIn(wk[w].att, wk[w].err) = 0]
        /\ Return(w, "snooze")
        /\ UNCHANGED <<attempt, kraNo, usage, lost, job, sweep, kra, acks, bounds>>

\* Step 3, SUBMITTED -> FAILED_TERMINAL -> NEEDS_REVIEW; the job is snoozed for
\* no time at all, so that a retry it absorbed meanwhile is not lost.
PersistReview(w) ==
    LET i == wk[w].inv
    IN  /\ wk[w].pc = "called" /\ Outcome(w) = "FAILED_TERMINAL" /\ Swappable(i, "SUBMITTED")
        /\ state' = [state EXCEPT ![i] = "NEEDS_REVIEW"]
        /\ due' = [due EXCEPT ![i] = TRUE]
        /\ Return(w, "snooze0")
        /\ UNCHANGED <<attempt, kraNo, usage, lost, job, sweep, kra, acks, bounds>>

\* Step 3, the compare-and-swap finds no SUBMITTED row: the transaction rolls
\* back with its fiscal_submissions row and the error discards the job.
PersistRefused(w) ==
    /\ wk[w].pc = "called" /\ Outcome(w) # "ACKED"
    /\ ~Swappable(wk[w].inv, "SUBMITTED")
    /\ lost' = lost \union {wk[w].inv}
    /\ Return(w, "discard")
    /\ UNCHANGED <<state, attempt, due, kraNo, usage, job, sweep, kra, acks, bounds>>

\* Step 3 fails for want of a database or of time.
PersistFails(w) ==
    /\ wk[w].pc \in {"claimed", "called"}
    /\ Fault("persist_err")
    /\ Return(w, "discard")
    /\ UNCHANGED <<invoiceVars, job, sweep, kra, acks>>

-----------------------------------------------------------------------------
(* RescueStaleInvoices.Work: one read of every stale invoice, then one     *)
(* transaction for each, with the attempt number of the read.              *)

ListStaleFailed(s, S) ==
    /\ sweep[s] = {} /\ S # {}
    /\ \A i \in S : state[i] = "FAILED_RETRYABLE"
    /\ TimedOut(S)
    /\ sweep' = [sweep EXCEPT ![s] = {[inv |-> i, att |-> attempt[i]] : i \in S}]
    /\ UNCHANGED <<invoiceVars, job, wk, kra, acks>>

ListStale(s, S) ==
    /\ sweep[s] = {} /\ S # {}
    /\ \A i \in S : state[i] = "SUBMITTED"
    /\ TimedOut(S)
    /\ sweep' = [sweep EXCEPT ![s] = {[inv |-> i, att |-> attempt[i]] : i \in S}]
    /\ UNCHANGED <<invoiceVars, job, wk, kra, acks>>

RescueWithoutJob(s, r) ==
    LET i == r.inv
    IN  /\ r \in sweep[s]
        /\ sweep' = [sweep EXCEPT ![s] = @ \ {r}]
        /\ IF Swappable(i, "SUBMITTED")
           THEN /\ state' = [state EXCEPT ![i] = "FAILED_RETRYABLE"]
                /\ attempt' = [attempt EXCEPT ![i] = r.att + 1]
                /\ due' = [due EXCEPT ![i] = TRUE]
           ELSE UNCHANGED <<state, attempt, due>>
        /\ UNCHANGED <<kraNo, usage, lost, job, wk, kra, acks, bounds>>

Rescue(s, r) ==
    LET i == r.inv
    IN  /\ r \in sweep[s]
        /\ sweep' = [sweep EXCEPT ![s] = @ \ {r}]
        /\ IF Swappable(i, "SUBMITTED")
           THEN /\ state' = [state EXCEPT ![i] = "FAILED_RETRYABLE"]
                /\ attempt' = [attempt EXCEPT ![i] = r.att + 1]
                /\ due' = [due EXCEPT ![i] = TRUE]
                /\ Enqueue({i})
           ELSE UNCHANGED <<state, attempt, due, job>>
        /\ UNCHANGED <<kraNo, usage, lost, wk, kra, acks, bounds>>

-----------------------------------------------------------------------------
(* The ledger, the merchant, the operator, and the end of the process.     *)

\* ledger.ActivateTaxPending: every held invoice, in one transaction.
ActivateTaxPending ==
    LET S == {i \in Invoices : state[i] = "TAX_PENDING"}
    IN  /\ S # {}
        /\ state' = [i \in Invoices |-> IF i \in S THEN "QUEUED" ELSE state[i]]
        /\ Enqueue(S)
        /\ UNCHANGED <<attempt, due, kraNo, usage, lost, wk, sweep, kra, acks, bounds>>

RetryAnyState(i) ==
    /\ Op("retry")
    /\ state' = [state EXCEPT ![i] = "QUEUED"]
    /\ attempt' = [attempt EXCEPT ![i] = 0]
    /\ due' = [due EXCEPT ![i] = TRUE]
    /\ Enqueue({i})
    /\ UNCHANGED <<kraNo, usage, lost, wk, sweep, kra, acks>>

RetryGivesBack(i) ==
    /\ state[i] \in {"NEEDS_REVIEW", "FAILED_TERMINAL"}
    /\ Op("retry")
    /\ state' = [state EXCEPT ![i] = "QUEUED"]
    /\ attempt' = [attempt EXCEPT ![i] = attempt[i] - MaxAttempts]
    /\ due' = [due EXCEPT ![i] = TRUE]
    /\ Enqueue({i})
    /\ UNCHANGED <<kraNo, usage, lost, wk, sweep, kra, acks>>

\* Submitter.Retry, through ResetInvoiceForRetry.
Retry(i) ==
    /\ state[i] \in {"NEEDS_REVIEW", "FAILED_TERMINAL"}
    /\ Op("retry")
    /\ state' = [state EXCEPT ![i] = "QUEUED"]
    /\ attempt' = [attempt EXCEPT ![i] = 0]
    /\ due' = [due EXCEPT ![i] = TRUE]
    /\ Enqueue({i})
    /\ UNCHANGED <<kraNo, usage, lost, wk, sweep, kra, acks>>

\* admin.RequeueInvoice: one UPDATE, which keeps the attempt and adds no job.
RequeueInvoice(i) ==
    /\ state[i] \in {"FAILED_TERMINAL", "NEEDS_REVIEW", "FAILED_RETRYABLE"}
    /\ Op("requeue")
    /\ state' = [state EXCEPT ![i] = "QUEUED"]
    /\ due' = [due EXCEPT ![i] = TRUE]
    /\ UNCHANGED <<attempt, kraNo, usage, lost, job, wk, sweep, kra, acks>>

\* admin.ForceAcked: one UPDATE, whatever the state.
ForceAcked(i) ==
    /\ Op("force")
    /\ state' = [state EXCEPT ![i] = "ACKED"]
    /\ kraNo' = [kraNo EXCEPT ![i] = ManualNo]
    /\ UNCHANGED <<attempt, due, usage, lost, job, wk, sweep, kra, acks>>

\* The worker process dies and restarts: its goroutines and memory are gone, its
\* job rows stay "running" with nobody behind them.
Crash ==
    /\ Fault("crash")
    /\ wk' = [w \in Workers |-> Idle]
    /\ sweep' = [s \in Sweeps |-> {}]
    /\ acks' = {}
    /\ job' = [i \in Invoices |-> [st |-> job[i].st, by |-> NoWorker]]
    /\ UNCHANGED <<invoiceVars, kra>>

-----------------------------------------------------------------------------
Submit(w) ==
    \/ Read(w) \/ ReadAtTheInstant(w)
    \/ GiveUp(w) \/ Claim(w) \/ ClaimSkipped(w)
    \/ CallWithoutDocument(w) \/ Recover(w) \/ LookupFails(w) \/ Replay(w) \/ File(w) \/ Refuse(w)
    \/ PersistAck(w) \/ PersistRetry(w) \/ PersistReview(w) \/ PersistRefused(w)
    \/ Finish(w)

River(i) == WakeUp(i) \/ Elapse(i) \/ RescueStuckJob(i)

Watchdog(s) ==
    \/ \E S \in SUBSET Invoices : ListStale(s, S)
    \/ \E r \in sweep[s] : Rescue(s, r)

People(i) == Retry(i) \/ RequeueInvoice(i) \/ ForceAcked(i)

Next ==
    \/ \E w \in Workers, i \in Invoices : Fetch(w, i)
    \/ \E w \in Workers : Submit(w) \/ ClaimFails(w) \/ PersistFails(w)
    \/ \E i \in Invoices : River(i) \/ People(i)
    \/ \E s \in Sweeps : Watchdog(s)
    \/ ActivateTaxPending
    \/ Crash

Spec == Init /\ [][Next]_vars

\* Weak fairness of what runs by itself: the queue hands out its jobs and wakes
\* them, a fetched job runs to its end, clocks advance, and the periodic
\* rescuer and watchdog come round again.  Faults, the merchant, the operator
\* and the configuration of eTIMS owe nothing.
Fairness ==
    /\ \A i \in Invoices :
        /\ WF_vars(\E w \in Workers : Fetch(w, i))
        /\ WF_vars(WakeUp(i) /\ due[i])
        /\ WF_vars(Elapse(i))
        /\ WF_vars(RescueStuckJob(i) /\ Quiet(i))
        /\ WF_vars(\E s \in Sweeps, S \in SUBSET Invoices :
                     i \in S /\ ListStale(s, S) /\ \A j \in S : Quiet(j))
    /\ \A w \in Workers : WF_vars(Submit(w))
    /\ \A s \in Sweeps : WF_vars(\E r \in sweep[s] : Rescue(s, r))

FairSpec == Spec /\ Fairness

-----------------------------------------------------------------------------
(* What is checked.                                                        *)

\* AckInvoice, SetInvoiceState, ResetInvoiceForRetry and the two admin updates:
\* once ACKED, an invoice stays ACKED, whatever a late worker, a sweep with an
\* old list, a merchant or an operator does.
AckedIsFinal == [][\A i \in Invoices : state[i] = "ACKED" => state'[i] = "ACKED"]_vars

\* The unique key on the submit job (jobs.go, InsertOpts): no two workers are
\* inside Submit for the same invoice, although the watchdog, the merchant and
\* ActivateTaxPending all enqueue without looking.
SingleFlight ==
    \A v, w \in Workers, i \in Invoices : Holds(v, i) /\ Holds(w, i) => v = w

\* BumpUsage and the buyer's receipt come with AckInvoice, which has no guard on
\* the state: an invoice is still billed at most once, and only when ACKED.
BilledOnce == \A i \in Invoices : usage[i] <= 1 /\ (usage[i] = 1 => state[i] = "ACKED")

\* An ACKED invoice carries a number KRA really gave out for it, unless an
\* operator typed one in: never a blank, and none before KRA registered it.
AckBacked ==
    \A i \in Invoices : state[i] = "ACKED" => kraNo[i] = ManualNo \/ kraNo[i] \in 1..kra[i]

\* Provider.SubmitInvoice "is idempotent by inv.ID": a document KRA has is not
\* registered a second time.  The oscu adapter remembers acknowledgements in
\* memory only, and none whose answer was lost.
FiledOnce == \A i \in Invoices : kra[i] <= 1

\* Whatever the adapter forgets, KRA does not register a document more often
\* than the invoice's attempt counter says it was tried: a worker that dies, a
\* persist that fails and a sweep that rescues leave no uncounted submission, so
\* MaxAttempts bounds the duplicates too.
FilingsCounted == \A i \in Invoices : kra[i] <= attempt[i]

\* The invoices a submit job has to come for.
Awaits(i) == state[i] \in {"QUEUED", "FAILED_RETRYABLE"}

\* Invoice and job are written in one transaction: an invoice that waits to be
\* submitted has a live job, which will run or is running.
AwaitingHasJob == \A i \in Invoices : Awaits(i) => job[i].st # "none"

\* The watchdog takes "invoices stuck in SUBMITTED": never one that a worker has
\* claimed and not concluded yet, which its compare-and-swap is to skip.  Two
\* sweeps that overlap break it.
RescuesOnlyStale ==
    [][\A i \in Invoices :
          state[i] = "SUBMITTED" /\ state'[i] = "FAILED_RETRYABLE" =>
             ~\E w \in Workers : wk[w].pc \in {"claimed", "called"} /\ wk[w].inv = i]_vars

\* The attempt counter that ends in NEEDS_REVIEW never goes back, except that
\* the merchant's retry starts again from zero.
AttemptsCount ==
    [][\A i \in Invoices :
          attempt'[i] >= attempt[i] \/ (state[i] = "NEEDS_REVIEW" /\ state'[i] = "QUEUED")]_vars

\* MaxAttempts bounds the submissions: a waiting invoice has attempts left or
\* is about to be parked, and no claim counts beyond the limit.
AttemptBound ==
    \A i \in Invoices :
        /\ attempt[i] <= MaxAttempts + 1
        /\ state[i] = "QUEUED" => attempt[i] < MaxAttempts
        /\ state[i] = "SUBMITTED" => attempt[i] <= MaxAttempts

\* fiscal_submissions holds one row for each call of the provider.
EveryCallRecorded == lost = {}

\* AckInvoice and ForceAcked leave the number of an ACKED invoice alone.
NumberFinal ==
    [][\A i \in Invoices : state[i] = "ACKED" => kraNo'[i] = kraNo[i]]_vars

\* A "duplicate" answer for a document KRA already has counts as success: the
\* lost acknowledgement is recovered, not reported as a defect of the invoice.
DuplicateIsSuccess == [][\A w \in Workers : Replay(w) => wk'[w].err = "none"]_vars

\* Whatever was given to the fiscal queue ends: acknowledged, or in front of
\* the merchant.
EventuallySettled ==
    \A i \in Invoices : (state[i] = "QUEUED") ~> (state[i] \in {"ACKED", "NEEDS_REVIEW"})

-----------------------------------------------------------------------------
(* What makes BilledOnce, AckBacked and the refinement inductive: a worker *)
(* owns the job row of its invoice, what it carries between two            *)
(* transactions is still true when it writes, and the adapter's cache      *)
(* remembers registered documents only.                                    *)

Owned ==
    \A w \in Workers : wk[w].pc # "idle" => job[wk[w].inv] = [st |-> "running", by |-> w]

Unbilled ==
    \A w \in Workers : wk[w].pc \in {"claimed", "called"} => usage[wk[w].inv] = 0

AnswersBacked ==
    /\ \A w \in Workers : wk[w].pc = "called" /\ wk[w].err = "none" => wk[w].no \in 1..kra[wk[w].inv]
    /\ \A i \in acks : kra[i] > 0

InFlightPending ==
    \A w \in Workers :
        /\ wk[w].pc \in {"fetched", "read"} => ~wk[w].doc
        /\ wk[w].pc = "read" => wk[w].st \in {"QUEUED", "FAILED_RETRYABLE"}
        /\ wk[w].pc \in {"claimed", "called"} /\ wk[w].doc =>
              state[wk[w].inv] \in {"QUEUED", "SUBMITTED", "FAILED_RETRYABLE"}
        /\ wk[w].pc = "called" /\ ~wk[w].doc => wk[w].err # "none"

(* What makes AttemptsCount, AttemptBound, FilingsCounted and              *)
(* AwaitingHasJob inductive, when no worker stalls and sweeps do not       *)
(* overlap: nobody else writes the invoice a worker is on, and nobody is on*)
(* the invoices a sweep has listed.                                        *)

CarriedBy(w) ==
    LET i == wk[w].inv
    IN  /\ wk[w].pc \in {"fetched", "read"} => ~wk[w].doc
        /\ wk[w].pc = "read" =>
              wk[w].att = attempt[i] /\ state[i] \in {"QUEUED", "FAILED_RETRYABLE", "ACKED"}
        /\ wk[w].pc \in {"claimed", "called"} /\ wk[w].doc =>
              wk[w].att = attempt[i] /\ state[i] \in {"SUBMITTED", "ACKED"}
        /\ wk[w].pc \in {"claimed", "called"} /\ ~wk[w].doc =>
              state[i] \in {"NEEDS_REVIEW", "QUEUED", "ACKED"}
        /\ wk[w].pc = "done" /\ wk[w].verdict \in {"snooze", "snooze0"} =>
              state[i] # "SUBMITTED"

Carried == \A w \in Workers : CarriedBy(w)

Unqueued(i) == job[i].st \in {"none", "running"}

SubmittedUnqueued == \A i \in Invoices : state[i] = "SUBMITTED" => Unqueued(i)

ListedStale ==
    \A s \in Sweeps : \A r \in sweep[s] :
        /\ state[r.inv] \in {"SUBMITTED", "ACKED"}
        /\ r.att = attempt[r.inv]
        /\ Unqueued(r.inv)
        /\ Quiet(r.inv)

InStep == Carried /\ SubmittedUnqueued /\ ListedStale

\* A worker about to call the provider has already counted the call.
Calling(w) == wk[w].pc = "claimed" /\ wk[w].doc

CallsCounted ==
    \A i \in Invoices :
        /\ kra[i] <= attempt[i]
        /\ \A w \in Workers : Calling(w) /\ wk[w].inv = i => kra[i] < attempt[i]

\* Neither DRAFT nor FAILED_TERMINAL survives the transaction that passes
\* through it, and a held invoice was never tried.
Resting ==
    \A i \in Invoices :
        /\ state[i] \notin {"DRAFT", "FAILED_TERMINAL"}
        /\ state[i] = "TAX_PENDING" => attempt[i] = 0

\* Without crash, skew, failed claims, retry and requeue: a running row has its
\* worker, a job that ends for good leaves nothing waiting, and the job of an
\* invoice that is not due sleeps or is about to.
AttendedJob(i) ==
    /\ job[i].st = "running" => ~Quiet(i)
    /\ state[i] = "TAX_PENDING" => job[i].st = "none" /\ due[i]
    /\ state[i] = "QUEUED" /\ ~due[i] =>
          \/ job[i].st = "scheduled"
          \/ \E w \in Workers : Holds(w, i) /\ wk[w].pc = "done" /\ wk[w].verdict = "snooze"

LeavesNone(w) ==
    LET i == wk[w].inv
    IN  /\ wk[w].pc = "read" => state[i] \in {wk[w].st, "ACKED"}
        /\ wk[w].pc \in {"claimed", "called"} /\ ~wk[w].doc => ~Awaits(i)
        /\ wk[w].pc = "done" /\ wk[w].verdict \in {"complete", "discard"} => ~Awaits(i)

Attended ==
    /\ \A i \in Invoices : AttendedJob(i)
    /\ \A w \in Workers : LeavesNone(w)

-----------------------------------------------------------------------------
(* Submission implements Filing.                                           *)

Phase(s) ==
    CASE s = "TAX_PENDING"                       -> "held"
      [] s \in {"NEEDS_REVIEW", "FAILED_TERMINAL"} -> "review"
      [] s = "ACKED"                             -> "acked"
      [] OTHER                                   -> "pending"

F == INSTANCE Filing WITH phase  <- [i \in Invoices |-> Phase(state[i])],
                          number <- kraNo,
                          billed <- usage

\* Jobs, sweeps, crashes and retries amount to Filing: an acknowledgement
\* happens once, from pending, with number and usage together.
ImplementsFiling == F!Spec
=============================================================================
