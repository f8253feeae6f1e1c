------------------------- MODULE SubmissionRecovery -------------------------
(***************************************************************************)
(* Theorems about what the submitter and the watchdog do after a failure:  *)
(* no submission uncounted, no attempt lost or counted beyond the limit, no*)
(* invoice forgotten.                                                      *)
(***************************************************************************)
EXTENDS SubmissionProofs

-----------------------------------------------------------------------------
(* Workers and sweeps stay in step with the invoices they are on.          *)

\* Submit writes the invoice of its own job and no other.
LEMMA WritesOwn ==
  ASSUME TypeOK, NEW w \in Workers, Submit(w) \/ ClaimFails(w) \/ PersistFails(w),
         NEW j \in Invoices, j # wk[w].inv
  PROVE  state'[j] = state[j] /\ attempt'[j] = attempt[j] /\ due'[j] = due[j]
BY DEF Submit, Read, ReadAtTheInstant, GiveUp, Claim, ClaimSkipped, ClaimFails,
   CallWithoutDocument, Recover, LookupFails, Replay, File, Refuse, PersistAck, PersistRetry,
   PersistReview, PersistRefused, PersistFails, Finish, invoiceVars, TypeOK, InvoicesOK

\* A worker that keeps what it carries true disturbs no other worker and no
\* sweep.
LEMMA WorkerInStep ==
  ASSUME TypeOK, Owned, InStep, NEW w \in Workers,
         Submit(w) \/ ClaimFails(w) \/ PersistFails(w), ~Finish(w), CarriedBy(w)'
  PROVE  InStep'
<1> DEFINE i == wk[w].inv
<1>0. /\ wk[w].pc # "idle" /\ i \in Invoices
      /\ wk'[w].pc # "idle" /\ wk'[w].inv = i
      /\ \A v \in Workers \ {w} : wk'[v] = wk[v]
      /\ UNCHANGED <<job, sweep>>
  BY SubmitKeepsInvoice
<1>1. \A j \in Invoices \ {i} : state'[j] = state[j] /\ attempt'[j] = attempt[j]
  BY WritesOwn
<1>2. Carried'
  <2> SUFFICES ASSUME NEW v \in Workers, v # w PROVE CarriedBy(v)'
    BY DEF Carried
  <2>1. CASE wk[v].pc = "idle"
    BY <2>1, <1>0 DEF CarriedBy
  <2>2. CASE wk[v].pc # "idle"
    <3>1. wk[v].inv \in Invoices /\ wk[v].inv # i
      BY <2>2, <1>0, WorksOn, OneWorker DEF SingleFlight, Holds
    <3> QED
      BY <1>0, <1>1, <3>1 DEF InStep, Carried, CarriedBy
  <2> QED
    BY <2>1, <2>2
<1>3. SubmittedUnqueued'
  <2>0. job[i] = [st |-> "running", by |-> w]
    BY <1>0 DEF Owned
  <2>1. job[i].st = "running"
    BY <2>0
  <2> QED
    BY <1>0, <1>1, <2>1 DEF InStep, SubmittedUnqueued, Unqueued
<1>4. ListedStale'
  <2> SUFFICES ASSUME NEW s \in Sweeps, NEW r \in sweep[s]
               PROVE  /\ state'[r.inv] \in {"SUBMITTED", "ACKED"}
                      /\ r.att = attempt'[r.inv]
                      /\ Unqueued(r.inv)'
                      /\ Quiet(r.inv)'
    BY <1>0 DEF ListedStale
  <2>1. r.inv \in Invoices /\ Quiet(r.inv)
    BY DEF InStep, ListedStale, TypeOK
  <2>2. r.inv # i
    BY <1>0, <2>1 DEF Quiet, Holds
  <2>3. Quiet(r.inv)'
    BY <1>0, <2>1, <2>2 DEF Quiet, Holds
  <2> QED
    BY <1>0, <1>1, <2>1, <2>2, <2>3 DEF InStep, ListedStale, Unqueued
<1> QED
  BY <1>2, <1>3, <1>4 DEF InStep

\* Each step of Submit keeps what its worker carries true of the invoice.
LEMMA SubmitCarries ==
  ASSUME TypeOK, Owned, InStep, NEW w \in Workers,
         Submit(w) \/ ClaimFails(w) \/ PersistFails(w), ~Finish(w)
  PROVE  CarriedBy(w)'
<1> DEFINE i == wk[w].inv
<1>0. /\ wk[w].pc # "idle" /\ i \in Invoices
      /\ wk'[w].pc # "idle" /\ wk'[w].inv = i
      /\ wk[w] \in WorkerStates
  BY SubmitKeepsInvoice, WorksOn
<1>c. CarriedBy(w)
  BY DEF InStep, Carried
<1>1. ASSUME NEW v, Return(w, v), v \in {"snooze", "snooze0"} => state'[i] # "SUBMITTED"
      PROVE  CarriedBy(w)'
  <2>1. wk'[w].pc = "done" /\ wk'[w].verdict = v
    BY <1>1 DEF Return, Becomes, Idle, TypeOK, WorkersOK
  <2> QED
    BY <1>0, <1>1, <2>1 DEF CarriedBy
<1>2. CASE \E v \in {"complete", "discard"} : Return(w, v)
  BY <1>1, <1>2
<1>3. CASE Read(w)
  <2>1. CASE Return(w, "snooze") /\ state[i] = "QUEUED"
    BY <1>1, <1>3, <2>1 DEF Read, invoiceVars
  <2>2. CASE Becomes(w, [wk[w] EXCEPT !.pc = "read", !.st = state[i], !.att = attempt[i]])
    <3>1. wk'[w].pc = "read" /\ wk'[w].att = attempt[i] /\ wk'[w].doc = wk[w].doc /\ ~wk[w].doc
      BY <1>0, <1>c, <1>3, <2>2 DEF Read, CarriedBy, Becomes, TypeOK, WorkersOK, WorkerStates
    <3>2. state[i] \in {"QUEUED", "FAILED_RETRYABLE"} \/ Return(w, "complete")
      BY <1>3 DEF Read
    <3> QED
      BY <1>0, <1>1, <1>3, <3>1, <3>2 DEF Read, CarriedBy, invoiceVars
  <2> QED
    BY <1>2, <1>3, <2>1, <2>2 DEF Read
<1>4. CASE GiveUp(w)
  <2>1. wk'[w].pc = "claimed" /\ wk'[w].doc = wk[w].doc /\ state'[i] = "NEEDS_REVIEW"
    BY <1>0, <1>4 DEF GiveUp, Becomes, TypeOK, WorkersOK, WorkerStates, InvoicesOK
  <2>2. ~wk[w].doc
    BY <1>4, <1>c DEF GiveUp, CarriedBy
  <2> QED
    BY <1>0, <2>1, <2>2 DEF CarriedBy
<1>5. CASE Claim(w)
  <2>1. /\ wk'[w].pc = "claimed" /\ wk'[w].doc /\ wk'[w].att = wk[w].att + 1
    BY <1>0, <1>5 DEF Claim, Becomes, TypeOK, WorkersOK, WorkerStates
  <2>2. state'[i] = "SUBMITTED" /\ attempt'[i] = wk[w].att + 1
    BY <1>0, <1>5 DEF Claim, TypeOK, InvoicesOK
  <2> QED
    BY <1>0, <2>1, <2>2 DEF CarriedBy
<1>6. CASE \/ CallWithoutDocument(w) \/ Recover(w) \/ LookupFails(w)
           \/ Replay(w) \/ File(w) \/ Refuse(w)
  <2>1. wk[w].pc = "claimed" /\ UNCHANGED <<state, attempt>> /\ \E e, n : Answered(w, e, n)
    BY <1>6 DEF CallWithoutDocument, Recover, LookupFails, Replay, File, Refuse, invoiceVars
  <2>2. wk'[w].pc = "called" /\ wk'[w].doc = wk[w].doc /\ wk'[w].att = wk[w].att
    BY <1>0, <2>1 DEF Answered, Becomes, TypeOK, WorkersOK, WorkerStates
  <2> QED
    BY <1>0, <1>c, <2>1, <2>2 DEF CarriedBy
<1>7. CASE PersistRetry(w) \/ PersistReview(w)
  <2>1. state'[i] # "SUBMITTED"
    BY <1>0, <1>7 DEF PersistRetry, PersistReview, TypeOK, InvoicesOK
  <2> QED
    BY <1>1, <1>7, <2>1 DEF PersistRetry, PersistReview
<1> QED
  BY <1>2, <1>3, <1>4, <1>5, <1>6, <1>7
  DEF Submit, ReadAtTheInstant, ClaimSkipped, ClaimFails, PersistAck, PersistRefused, PersistFails

\* What others write is an acknowledgement, or it queues an invoice that nobody
\* is between claim and outcome of: workers and sweeps need not notice.
LEMMA OutsideInStep ==
  ASSUME TypeOK, InStep, UNCHANGED <<wk, sweep>>,
         \A j \in Invoices :
            \/ state'[j] = state[j] /\ attempt'[j] = attempt[j]
            \/ state'[j] = "ACKED" /\ attempt'[j] = attempt[j]
            \/ /\ state[j] \notin {"SUBMITTED", "ACKED"} /\ state'[j] = "QUEUED"
               /\ attempt'[j] = attempt[j] \/ state[j] \in {"NEEDS_REVIEW", "FAILED_TERMINAL"},
         \A j \in Invoices : state[j] \in {"SUBMITTED", "ACKED"} /\ Unqueued(j) => Unqueued(j)'
  PROVE  InStep'
<1>1. Carried'
  <2> SUFFICES ASSUME NEW v \in Workers PROVE CarriedBy(v)'
    BY DEF Carried
  <2>1. CASE wk[v].pc = "idle"
    BY <2>1 DEF CarriedBy
  <2>2. CASE wk[v].pc # "idle"
    <3>1. wk[v].inv \in Invoices /\ CarriedBy(v)
      BY <2>2, WorksOn DEF InStep, Carried
    <3> QED
      BY <3>1 DEF CarriedBy
  <2> QED
    BY <2>1, <2>2
<1>2. SubmittedUnqueued'
  BY DEF InStep, SubmittedUnqueued
<1>3. ListedStale'
  <2> SUFFICES ASSUME NEW s \in Sweeps, NEW r \in sweep[s]
               PROVE  /\ state'[r.inv] \in {"SUBMITTED", "ACKED"}
                      /\ r.att = attempt'[r.inv]
                      /\ Unqueued(r.inv)'
                      /\ Quiet(r.inv)'
    BY DEF ListedStale
  <2>1. /\ r.inv \in Invoices /\ state[r.inv] \in {"SUBMITTED", "ACKED"}
        /\ r.att = attempt[r.inv] /\ Unqueued(r.inv) /\ Quiet(r.inv)
    BY DEF InStep, ListedStale, TypeOK
  <2>2. Quiet(r.inv)'
    BY <2>1 DEF Quiet, Holds
  <2> QED
    BY <2>1, <2>2
<1> QED
  BY <1>1, <1>2, <1>3 DEF InStep

\* River starts and ends jobs without touching an invoice.
LEMMA RiverInStep ==
  ASSUME TypeOK, Owned, InStep,
         \/ \E w \in Workers, i \in Invoices : Fetch(w, i)
         \/ \E w \in Workers : Finish(w)
         \/ \E i \in Invoices : River(i)
  PROVE  InStep'
<1>1. ASSUME NEW w \in Workers, NEW i \in Invoices, Fetch(w, i)
      PROVE  InStep'
  <2>1. /\ wk'[w].pc = "fetched" /\ wk'[w].inv = i /\ wk'[w].doc = FALSE
        /\ \A v \in Workers \ {w} : wk'[v] = wk[v]
        /\ job'[i].st = "running" /\ \A j \in Invoices \ {i} : job'[j] = job[j]
        /\ UNCHANGED <<state, attempt, sweep>>
    BY <1>1 DEF Fetch, Becomes, Idle, invoiceVars, TypeOK, WorkersOK, JobsOK
  <2>2. Carried'
    BY <2>1 DEF InStep, Carried, CarriedBy
  <2>3. SubmittedUnqueued'
    BY <2>1 DEF InStep, SubmittedUnqueued, Unqueued
  <2>4. \A s \in Sweeps : \A r \in sweep[s] : r.inv \in Invoices /\ r.inv # i
    <3>1. ~Unqueued(i)
      BY <1>1 DEF Fetch, Unqueued
    <3> QED
      BY <3>1 DEF InStep, ListedStale, TypeOK
  <2>5. ListedStale'
    BY <2>1, <2>4 DEF InStep, ListedStale, Unqueued, Quiet, Holds
  <2> QED
    BY <2>2, <2>3, <2>5 DEF InStep
<1>2. ASSUME NEW w \in Workers, Finish(w)
      PROVE  InStep'
  <2>i. wk[w].inv \in Invoices
    BY <1>2, WorksOn DEF Finish
  <2> PICK i \in Invoices : i = wk[w].inv
    BY <2>i
  <2>0. /\ wk[w].pc = "done" /\ wk[w].verdict \in Verdicts
        /\ UNCHANGED <<state, attempt, sweep>>
    BY <1>2, WorksOn DEF Finish, WorkerStates, invoiceVars
  <2>1. /\ wk'[w] = Idle
        /\ \A v \in Workers \ {w} : wk'[v] = wk[v]
        /\ \A j \in Invoices \ {i} : job'[j] = job[j]
    BY <1>2, <2>0 DEF Finish, Becomes, TypeOK, WorkersOK, JobsOK
  <2>2. Carried'
    BY <2>0, <2>1 DEF InStep, Carried, CarriedBy, Idle
  <2>3. state[i] = "SUBMITTED" => Unqueued(i)'
    <3> SUFFICES ASSUME state[i] = "SUBMITTED" PROVE Unqueued(i)'
      OBVIOUS
    <3>1. wk[w].verdict \in {"complete", "discard"}
      BY <2>0 DEF InStep, Carried, CarriedBy, Verdicts
    <3>2. Unqueued(i)
      BY <2>0 DEF InStep, SubmittedUnqueued
    <3>3. job'[i] = job[i] \/ job'[i] = NoJob
      BY <1>2, <2>0, <3>1 DEF Finish, TypeOK, JobsOK
    <3> QED
      BY <3>2, <3>3 DEF Unqueued, NoJob
  <2>4. SubmittedUnqueued'
    BY <2>0, <2>1, <2>3 DEF InStep, SubmittedUnqueued, Unqueued
  <2>5. \A s \in Sweeps : \A r \in sweep[s] : r.inv \in Invoices /\ r.inv # i
    BY <2>0 DEF InStep, ListedStale, Quiet, Holds, TypeOK
  <2>6. ListedStale'
    BY <2>0, <2>1, <2>5 DEF InStep, ListedStale, Unqueued, Quiet, Holds, Idle
  <2> QED
    BY <2>2, <2>4, <2>6 DEF InStep
<1>3. ASSUME NEW i \in Invoices, River(i)
      PROVE  InStep'
  <2>1. UNCHANGED <<wk, sweep, state, attempt>>
    BY <1>3 DEF River, WakeUp, Elapse, RescueStuckJob, invoiceVars
  <2>2. \A j \in Invoices : Unqueued(j) => Unqueued(j)'
    BY <1>3 DEF River, WakeUp, Elapse, RescueStuckJob, NoJob, Unqueued, TypeOK, JobsOK
  <2> QED
    BY <2>1, <2>2, OutsideInStep
<1> QED
  BY <1>1, <1>2, <1>3

\* Merchant, operator and ledger write only invoices that nobody has claimed,
\* or acknowledge them.
LEMMA PeopleInStep ==
  ASSUME TypeOK, InStep, (\E i \in Invoices : People(i)) \/ ActivateTaxPending
  PROVE  InStep'
<1>1. ASSUME NEW S, Enqueue(S), \A i \in S : i \in Invoices => state[i] \notin {"SUBMITTED", "ACKED"}
      PROVE  \A j \in Invoices : state[j] \in {"SUBMITTED", "ACKED"} /\ Unqueued(j) => Unqueued(j)'
  BY <1>1 DEF Enqueue, Unqueued
<1>2. ASSUME NEW i \in Invoices, Retry(i)
      PROVE  InStep'
  BY <1>1, <1>2, OutsideInStep DEF Retry, TypeOK, InvoicesOK
<1>3. ASSUME NEW i \in Invoices, RequeueInvoice(i)
      PROVE  InStep'
  BY <1>3, OutsideInStep DEF RequeueInvoice, TypeOK, InvoicesOK, Unqueued
<1>4. ASSUME NEW i \in Invoices, ForceAcked(i)
      PROVE  InStep'
  BY <1>4, OutsideInStep DEF ForceAcked, TypeOK, InvoicesOK, Unqueued
<1>5. CASE ActivateTaxPending
  BY <1>1, <1>5, OutsideInStep DEF ActivateTaxPending, TypeOK, InvoicesOK
<1> QED
  BY <1>2, <1>3, <1>4, <1>5 DEF People

\* The watchdog lists invoices that nobody is on, and rescues them before
\* anybody can be.
LEMMA WatchdogInStep ==
  ASSUME "stall" \notin Faults, \A s, t \in Sweeps : s = t,
         TypeOK, InStep, NEW s \in Sweeps, Watchdog(s)
  PROVE  InStep'
<1>1. ASSUME NEW S \in SUBSET Invoices, ListStale(s, S)
      PROVE  InStep'
  <2>1. /\ UNCHANGED <<wk, job, state, attempt>>
        /\ \A i \in S : state[i] = "SUBMITTED" /\ Quiet(i)
        /\ sweep'[s] = {[inv |-> i, att |-> attempt[i]] : i \in S}
    BY <1>1 DEF ListStale, TimedOut, Fault, invoiceVars, TypeOK
  <2>2. Carried' /\ SubmittedUnqueued'
    BY <2>1 DEF InStep, Carried, CarriedBy, SubmittedUnqueued, Unqueued
  <2>3. ASSUME NEW t \in Sweeps, NEW r \in sweep'[t]
        PROVE  /\ state'[r.inv] \in {"SUBMITTED", "ACKED"}
               /\ r.att = attempt'[r.inv]
               /\ Unqueued(r.inv)'
               /\ Quiet(r.inv)'
    <3>1. PICK i \in S : r = [inv |-> i, att |-> attempt[i]]
      BY <2>1, <2>3
    <3>2. r.inv = i /\ r.att = attempt[i]
      BY <3>1
    <3> QED
      BY <2>1, <3>2 DEF InStep, SubmittedUnqueued, Unqueued, Quiet, Holds
  <2> QED
    BY <2>2, <2>3 DEF InStep, ListedStale
<1>2. ASSUME NEW r \in sweep[s], Rescue(s, r)
      PROVE  InStep'
  <2> DEFINE i == r.inv
  <2>0. i \in Invoices /\ r.att \in Nat /\ Quiet(i) /\ r.att = attempt[i]
    BY DEF InStep, ListedStale, TypeOK
  <2>1. /\ UNCHANGED wk
        /\ \A j \in Invoices \ {i} : state'[j] = state[j] /\ attempt'[j] = attempt[j] /\ job'[j] = job[j]
        /\ state'[i] = "SUBMITTED" => Unqueued(i)'
    BY <1>2, <2>0 DEF Rescue, Swappable, Enqueue, InStep, SubmittedUnqueued, Unqueued,
       TypeOK, InvoicesOK, JobsOK
  <2>2. Carried'
    <3> SUFFICES ASSUME NEW v \in Workers PROVE CarriedBy(v)'
      BY DEF Carried
    <3>1. CASE wk[v].pc = "idle"
      BY <3>1, <2>1 DEF CarriedBy
    <3>2. CASE wk[v].pc # "idle"
      <4>1. wk[v].inv \in Invoices /\ wk[v].inv # i /\ CarriedBy(v)
        BY <3>2, <2>0, WorksOn DEF Quiet, Holds, InStep, Carried
      <4> QED
        BY <2>1, <4>1 DEF CarriedBy
    <3> QED
      BY <3>1, <3>2
  <2>3. SubmittedUnqueued'
    BY <2>1 DEF InStep, SubmittedUnqueued, Unqueued
  <2>4. ASSUME NEW t \in Sweeps, NEW q \in sweep'[t]
        PROVE  /\ state'[q.inv] \in {"SUBMITTED", "ACKED"}
               /\ q.att = attempt'[q.inv]
               /\ Unqueued(q.inv)'
               /\ Quiet(q.inv)'
    <3>1. q \in sweep[s] /\ q # r
      BY <1>2, <2>4 DEF Rescue, TypeOK
    <3>2. /\ q \in [inv: Invoices, att: Nat] /\ r \in [inv: Invoices, att: Nat]
          /\ q.att = attempt[q.inv] /\ state[q.inv] \in {"SUBMITTED", "ACKED"}
          /\ Unqueued(q.inv) /\ Quiet(q.inv)
      BY <3>1 DEF InStep, ListedStale, TypeOK
    <3>3. q.inv # i
      BY <2>0, <3>1, <3>2
    <3> QED
      BY <2>1, <3>2, <3>3 DEF Unqueued, Quiet, Holds
  <2> QED
    BY <2>2, <2>3, <2>4 DEF InStep, ListedStale
<1> QED
  BY <1>1, <1>2 DEF Watchdog

\* As long as no worker stalls and sweeps do not overlap, every step keeps
\* workers and sweeps in step with their invoices.
LEMMA InStepKept ==
  ASSUME "stall" \notin Faults, \A s, t \in Sweeps : s = t,
         TypeOK, Owned, InStep, Next
  PROVE  InStep'
<1>1. CASE Crash
  <2>1. SubmittedUnqueued'
    BY <1>1 DEF Crash, invoiceVars, InStep, SubmittedUnqueued, Unqueued
  <2>2. Carried' /\ ListedStale'
    BY <1>1 DEF Crash, Idle, Carried, CarriedBy, ListedStale
  <2> QED
    BY <2>1, <2>2 DEF InStep
<1>2. ASSUME NEW w \in Workers, Submit(w) \/ ClaimFails(w) \/ PersistFails(w), ~Finish(w)
      PROVE  InStep'
  BY <1>2, SubmitCarries, WorkerInStep
<1> QED
  BY <1>1, <1>2, RiverInStep, PeopleInStep, WatchdogInStep DEF Next

-----------------------------------------------------------------------------
(* What one step can do to one invoice.                                    *)

Untouched(i) == state'[i] = state[i] /\ attempt'[i] = attempt[i]

Claimed(i) ==
    /\ state[i] = "QUEUED" \/ (state[i] = "FAILED_RETRYABLE" /\ attempt[i] < MaxAttempts)
    /\ state'[i] = "SUBMITTED" /\ attempt'[i] = attempt[i] + 1

\* The acknowledgement, by KRA or by hand, and the ways into review.
Concluded(i) == state'[i] \in {"ACKED", "NEEDS_REVIEW"} /\ attempt'[i] = attempt[i]

Rescheduled(i) ==
    /\ state[i] = "SUBMITTED" /\ attempt[i] < MaxAttempts
    /\ state'[i] = "QUEUED" /\ attempt'[i] = attempt[i]

Rescued(i) ==
    /\ state[i] = "SUBMITTED" /\ Quiet(i)
    /\ state'[i] = "FAILED_RETRYABLE" /\ attempt'[i] = attempt[i] + 1

Retried(i) ==
    /\ "retry" \in Ops
    /\ state[i] = "NEEDS_REVIEW" /\ state'[i] = "QUEUED" /\ attempt'[i] = 0

Requeued(i) ==
    /\ "requeue" \in Ops
    /\ state[i] \in {"NEEDS_REVIEW", "FAILED_RETRYABLE"}
    /\ state'[i] = "QUEUED" /\ attempt'[i] = attempt[i]

Activated(i) == state[i] = "TAX_PENDING" /\ state'[i] = "QUEUED" /\ attempt'[i] = attempt[i]

Moves(i) ==
    \/ Untouched(i) \/ Claimed(i) \/ Concluded(i) \/ Rescheduled(i) \/ Rescued(i)
    \/ Retried(i) \/ Requeued(i) \/ Activated(i)

\* An attempt that is queued again was not the last one, nor was a rescued one
\* that is claimed again.
LEMMA AttemptsLeft ==
  ASSUME NEW n \in Nat, NEW e \in Error
  PROVE  /\ Resolve(n, e) = "QUEUED" => n < MaxAttempts
         /\ Resolve(n, "unknown") # "FAILED_TERMINAL" => n < MaxAttempts
BY MaxAttemptsAssumption DEF Resolve, Classify, Error

\* The moves a worker makes.
LEMMA WorkerMoves ==
  ASSUME TypeOK, InStep, NEW w \in Workers,
         Submit(w) \/ ClaimFails(w) \/ PersistFails(w), NEW j \in Invoices
  PROVE  Moves(j)
<1>1. CASE j # wk[w].inv
  BY <1>1, WritesOwn DEF Moves, Untouched
<1>2. CASE UNCHANGED <<state, attempt>>
  BY <1>2 DEF Moves, Untouched
<1>3. CASE j = wk[w].inv /\ ~UNCHANGED <<state, attempt>>
  <2>0. CarriedBy(w) /\ wk[w].att \in Nat /\ wk[w].err \in Error /\ wk[w].st \in State /\ wk[w].doc \in BOOLEAN
    BY DEF InStep, Carried, TypeOK, WorkersOK, WorkerStates
  <2>1. CASE GiveUp(w)
    BY <1>3, <2>1 DEF GiveUp, Moves, Concluded, TypeOK, InvoicesOK
  <2>2. CASE Claim(w)
    <3>1. state[j] = wk[w].st /\ wk[w].att = attempt[j] /\ state[j] \in {"QUEUED", "FAILED_RETRYABLE"}
      BY <1>3, <2>0, <2>2, ClaimableStates DEF Claim, Swappable, CarriedBy
    <3>2. state[j] = "FAILED_RETRYABLE" => attempt[j] < MaxAttempts
      BY <2>0, <2>2, <3>1, AttemptsLeft DEF Claim, Exhausted, Error
    <3>3. state'[j] = "SUBMITTED" /\ attempt'[j] = attempt[j] + 1
      BY <1>3, <2>2, <3>1 DEF Claim, TypeOK, InvoicesOK
    <3> QED
      BY <3>1, <3>2, <3>3 DEF Moves, Claimed
  <2>3. CASE PersistAck(w) \/ PersistReview(w)
    BY <1>3, <2>3 DEF PersistAck, PersistReview, Moves, Concluded, TypeOK, InvoicesOK
  <2>4. CASE PersistRetry(w)
    <3>1. state[j] = "SUBMITTED" /\ state'[j] = "QUEUED" /\ attempt'[j] = attempt[j]
      BY <1>3, <2>4 DEF PersistRetry, Swappable, TypeOK, InvoicesOK
    <3>2. wk[w].att = attempt[j]
      BY <1>3, <2>0, <2>4, <3>1 DEF PersistRetry, CarriedBy
    <3>3. attempt[j] < MaxAttempts
      BY <2>0, <2>4, <3>2, AttemptsLeft DEF PersistRetry, Outcome
    <3> QED
      BY <3>1, <3>3 DEF Moves, Rescheduled
  <2> QED
    BY <1>3, <2>1, <2>2, <2>3, <2>4
    DEF Submit, Read, ReadAtTheInstant, ClaimSkipped, ClaimFails, CallWithoutDocument, Recover,
        LookupFails, Replay, File, Refuse, PersistRefused, PersistFails, Finish, invoiceVars
<1> QED
  BY <1>1, <1>2, <1>3

\* The moves there are.
LEMMA InvoiceMoves ==
  ASSUME "stall" \notin Faults, TypeOK, InStep, Resting, Next, NEW j \in Invoices
  PROVE  Moves(j)
<1>1. ASSUME NEW i \in Invoices, People(i)
      PROVE  Moves(j)
  <2>1. CASE Retry(i)
    BY <2>1 DEF Retry, Op, Resting, Moves, Untouched, Retried, TypeOK, InvoicesOK
  <2>2. CASE RequeueInvoice(i)
    BY <2>2 DEF RequeueInvoice, Op, Resting, Moves, Untouched, Requeued, TypeOK, InvoicesOK
  <2>3. CASE ForceAcked(i)
    BY <2>3 DEF ForceAcked, Moves, Untouched, Concluded, TypeOK, InvoicesOK
  <2> QED
    BY <1>1, <2>1, <2>2, <2>3 DEF People
<1>2. ASSUME NEW s \in Sweeps, Watchdog(s)
      PROVE  Moves(j)
  <2>1. ASSUME NEW r \in sweep[s], Rescue(s, r)
        PROVE  Moves(j)
    <3>1. r.inv \in Invoices /\ Quiet(r.inv) /\ r.att = attempt[r.inv]
      BY DEF InStep, ListedStale, TypeOK
    <3> QED
      BY <2>1, <3>1 DEF Rescue, Swappable, Moves, Untouched, Rescued, TypeOK, InvoicesOK
  <2> QED
    BY <1>2, <2>1 DEF Watchdog, ListStale, invoiceVars, Moves, Untouched
<1>3. CASE ActivateTaxPending
  BY <1>3 DEF ActivateTaxPending, Moves, Untouched, Activated
<1>4. ASSUME \/ \E w \in Workers, i \in Invoices : Fetch(w, i)
             \/ \E i \in Invoices : River(i)
             \/ Crash
      PROVE  Moves(j)
  BY <1>4 DEF Fetch, River, WakeUp, Elapse, RescueStuckJob, Crash, invoiceVars, Moves, Untouched
<1> QED
  BY <1>1, <1>2, <1>3, <1>4, WorkerMoves DEF Next

Recovery == Owned /\ InStep /\ Resting

\* The invariant behind the theorems below.
LEMMA RecoveryHolds ==
  ASSUME "stall" \notin Faults, \A s, t \in Sweeps : s = t
  PROVE  Spec => []Recovery
<1>1. Init => Recovery
  <2> SUFFICES ASSUME Init PROVE Recovery
    OBVIOUS
  <2>1. Owned /\ Carried /\ ListedStale
    BY DEF Init, Owned, Carried, CarriedBy, ListedStale, Idle
  <2>2. SubmittedUnqueued /\ Resting
    BY DEF Init, SubmittedUnqueued, Resting
  <2> QED
    BY <2>1, <2>2 DEF Recovery, InStep
<1>2. TypeOK /\ Recovery /\ [Next]_vars => Recovery'
  <2> SUFFICES ASSUME TypeOK, Recovery, [Next]_vars PROVE Recovery'
    OBVIOUS
  <2>1. CASE Next
    <3>1. Owned' /\ InStep'
      BY <2>1, OwnedStep, InStepKept DEF Recovery
    <3>2. Resting'
      <4> SUFFICES ASSUME NEW i \in Invoices
                   PROVE  /\ state'[i] \notin {"DRAFT", "FAILED_TERMINAL"}
                          /\ state'[i] = "TAX_PENDING" => attempt'[i] = 0
        BY DEF Resting
      <4> QED
        BY <2>1, InvoiceMoves
        DEF Recovery, Resting, Moves, Untouched, Claimed, Concluded, Rescheduled, Rescued,
            Retried, Requeued, Activated
    <3> QED
      BY <3>1, <3>2 DEF Recovery
  <2>2. CASE UNCHANGED vars
    BY <2>2 DEF vars, Recovery, Owned, InStep, Carried, CarriedBy, SubmittedUnqueued, Unqueued,
       ListedStale, Quiet, Holds, Resting
  <2> QED
    BY <2>1, <2>2
<1> QED
  BY <1>1, <1>2, TypeCorrect, PTL DEF Spec

\* The attempt counter never goes back except by the merchant's retry of an
\* invoice in review, whatever crashes, fails or is forced, as long as no
\* worker outlives the timeouts and sweeps do not overlap: the number a
\* watchdog or a worker writes is the one it read, plus one.
THEOREM AttemptsCountHolds ==
  ASSUME "stall" \notin Faults, \A s, t \in Sweeps : s = t
  PROVE  Spec => AttemptsCount
<1>1. ASSUME TypeOK, Recovery, Next, NEW i \in Invoices
      PROVE  attempt'[i] >= attempt[i] \/ (state[i] = "NEEDS_REVIEW" /\ state'[i] = "QUEUED")
  <2>1. attempt[i] \in Nat /\ Moves(i)
    BY <1>1, InvoiceMoves DEF Recovery, TypeOK, InvoicesOK
  <2> QED
    BY <2>1 DEF Moves, Untouched, Claimed, Concluded, Rescheduled, Rescued, Retried, Requeued, Activated
<1>2. TypeOK /\ Recovery /\ [Next]_vars =>
         [\A i \in Invoices :
             attempt'[i] >= attempt[i] \/ (state[i] = "NEEDS_REVIEW" /\ state'[i] = "QUEUED")]_vars
  BY <1>1
<1> QED
  BY <1>2, TypeCorrect, RecoveryHolds, PTL DEF Spec, AttemptsCount

\* Unless an operator requeues without resetting the counter, MaxAttempts
\* bounds the submissions: rescues and retries included, a waiting invoice has
\* attempts left and no claim counts beyond the limit.
THEOREM AttemptBoundHolds ==
  ASSUME "stall" \notin Faults, \A s, t \in Sweeps : s = t, "requeue" \notin Ops
  PROVE  Spec => []AttemptBound
<1>1. Init => AttemptBound
  BY MaxAttemptsAssumption DEF Init, AttemptBound
<1>2. TypeOK /\ Recovery /\ AttemptBound /\ [Next]_vars => AttemptBound'
  <2> SUFFICES ASSUME TypeOK, Recovery, AttemptBound, [Next]_vars, NEW i \in Invoices
               PROVE  /\ attempt'[i] <= MaxAttempts + 1
                      /\ state'[i] = "QUEUED" => attempt'[i] < MaxAttempts
                      /\ state'[i] = "SUBMITTED" => attempt'[i] <= MaxAttempts
    BY DEF AttemptBound
  <2>1. CASE Next
    <3>1. /\ attempt[i] \in Nat /\ Moves(i)
          /\ attempt[i] <= MaxAttempts + 1
          /\ state[i] = "QUEUED" => attempt[i] < MaxAttempts
          /\ state[i] = "SUBMITTED" => attempt[i] <= MaxAttempts
          /\ state[i] = "TAX_PENDING" => attempt[i] = 0
      BY <2>1, InvoiceMoves DEF Recovery, Resting, AttemptBound, TypeOK, InvoicesOK
    <3> QED
      BY <3>1, MaxAttemptsAssumption
      DEF Moves, Untouched, Claimed, Concluded, Rescheduled, Rescued, Retried, Requeued, Activated
  <2>2. CASE UNCHANGED vars
    BY <2>2 DEF vars, AttemptBound
  <2> QED
    BY <2>1, <2>2
<1> QED
  BY <1>1, <1>2, TypeCorrect, RecoveryHolds, PTL DEF Spec

\* KRA registers a document in File alone, which the attempt counter has
\* already been raised for, and nobody else is on that invoice.
LEMMA CallsCountedStep ==
  ASSUME "stall" \notin Faults, "retry" \notin Ops,
         TypeOK, Recovery, CallsCounted, Next
  PROVE  CallsCounted'
<1>0. \A i \in Invoices : attempt[i] \in Nat /\ attempt'[i] \in Nat /\ attempt'[i] >= attempt[i] /\ kra[i] \in Nat
  <2> SUFFICES ASSUME NEW i \in Invoices
               PROVE  attempt[i] \in Nat /\ attempt'[i] \in Nat /\ attempt'[i] >= attempt[i] /\ kra[i] \in Nat
    OBVIOUS
  <2>1. attempt[i] \in Nat /\ kra[i] \in Nat /\ Moves(i)
    BY InvoiceMoves DEF Recovery, TypeOK, InvoicesOK
  <2> QED
    BY <2>1 DEF Moves, Untouched, Claimed, Concluded, Rescheduled, Rescued, Retried, Requeued, Activated
<1>1. ASSUME NEW w \in Workers, File(w)
      PROVE  CallsCounted'
  <2> DEFINE i == wk[w].inv
  <2>1. i \in Invoices /\ wk[w].pc = "claimed" /\ wk[w].doc
    BY <1>1, WorksOn DEF File
  <2>2. kra[i] < attempt[i]
    BY <2>1 DEF CallsCounted, Calling
  <2>a. PICK e, n : Answered(w, e, n)
    BY <1>1 DEF File
  <2>b. wk'[w].pc = "called" /\ \A v \in Workers \ {w} : wk'[v] = wk[v]
    BY <2>a DEF Answered, Becomes, TypeOK, WorkersOK, WorkerStates
  <2>3. /\ wk'[w].pc = "called" /\ \A v \in Workers \ {w} : wk'[v] = wk[v]
        /\ kra'[i] = kra[i] + 1 /\ \A j \in Invoices \ {i} : kra'[j] = kra[j]
        /\ UNCHANGED attempt
    BY <1>1, <2>1, <2>b DEF File, invoiceVars, TypeOK
  <2>4. \A v \in Workers : Calling(v) /\ wk[v].inv = i => v = w
    BY <2>1, OneWorker DEF Recovery, SingleFlight, Holds, Calling
  <2>5. \A v \in Workers : Calling(v)' => Calling(v) /\ v # w /\ wk'[v].inv = wk[v].inv
    BY <2>3 DEF Calling
  <2> QED
    BY <1>0, <2>1, <2>2, <2>3, <2>4, <2>5 DEF CallsCounted
<1>2. ASSUME NEW w \in Workers, Claim(w)
      PROVE  CallsCounted'
  <2> DEFINE i == wk[w].inv
  <2>1. i \in Invoices /\ wk[w].pc = "read" /\ wk[w].att \in Nat
    BY <1>2, WorksOn DEF Claim, WorkerStates
  <2>2. wk[w].att = attempt[i]
    BY <2>1 DEF Recovery, InStep, Carried, CarriedBy
  <2>3. /\ attempt'[i] = attempt[i] + 1 /\ UNCHANGED kra /\ wk'[w].inv = i
        /\ \A v \in Workers \ {w} : wk'[v] = wk[v]
    BY <1>2, <2>1, <2>2 DEF Claim, Becomes, TypeOK, InvoicesOK, WorkersOK, WorkerStates
  <2>4. \A v \in Workers : Calling(v)' => v = w \/ (Calling(v) /\ wk'[v].inv = wk[v].inv)
    BY <2>3 DEF Calling
  <2> QED
    BY <1>0, <2>1, <2>3, <2>4 DEF CallsCounted
<1>3. ASSUME UNCHANGED kra, \A v \in Workers : Calling(v)' => Calling(v) /\ wk'[v].inv = wk[v].inv
      PROVE  CallsCounted'
  BY <1>0, <1>3 DEF CallsCounted
<1>4. ASSUME NEW w \in Workers, \/ Submit(w) /\ ~File(w) /\ ~Claim(w)
                                \/ ClaimFails(w) \/ PersistFails(w)
      PROVE  CallsCounted'
  <2>1. UNCHANGED kra
    BY <1>4 DEF Submit, Read, ReadAtTheInstant, GiveUp, ClaimSkipped, ClaimFails,
       CallWithoutDocument, Recover, LookupFails, Replay, Refuse, PersistAck, PersistRetry,
       PersistReview, PersistRefused, PersistFails, Finish
  <2>2. \A v \in Workers \ {w} : wk'[v] = wk[v]
    BY <1>4 DEF Submit, Read, ReadAtTheInstant, GiveUp, ClaimSkipped, ClaimFails,
       CallWithoutDocument, Recover, LookupFails, Replay, Refuse, PersistAck, PersistRetry,
       PersistReview, PersistRefused, PersistFails, Finish, Return, Answered, Becomes, TypeOK, WorkersOK
  <2>3. ~Calling(w)'
    <3>1. CASE GiveUp(w)
      BY <3>1 DEF GiveUp, Becomes, Calling, TypeOK, WorkersOK, WorkerStates, Recovery, InStep, Carried, CarriedBy
    <3>2. CASE ~GiveUp(w)
      <4>0. \/ \E v : Return(w, v)
            \/ \E e, n : Answered(w, e, n)
            \/ Becomes(w, [wk[w] EXCEPT !.pc = "read", !.st = state[wk[w].inv], !.att = attempt[wk[w].inv]])
            \/ Becomes(w, Idle)
        BY <1>4, <3>2 DEF Submit, Read, ReadAtTheInstant, ClaimSkipped, ClaimFails,
           CallWithoutDocument, Recover, LookupFails, Replay, Refuse, PersistAck, PersistRetry,
           PersistReview, PersistRefused, PersistFails, Finish
      <4>1. wk'[w].pc # "claimed"
        <5>1. CASE \E v : Return(w, v)
          BY <5>1 DEF Return, Becomes, Idle, TypeOK, WorkersOK
        <5>2. CASE \E e, n : Answered(w, e, n)
          BY <5>2 DEF Answered, Becomes, TypeOK, WorkersOK, WorkerStates
        <5>3. CASE Becomes(w, [wk[w] EXCEPT !.pc = "read", !.st = state[wk[w].inv], !.att = attempt[wk[w].inv]])
          BY <5>3 DEF Becomes, TypeOK, WorkersOK, WorkerStates
        <5>4. CASE Becomes(w, Idle)
          BY <5>4 DEF Becomes, Idle, TypeOK, WorkersOK
        <5> QED
          BY <4>0, <5>1, <5>2, <5>3, <5>4
      <4> QED
        BY <4>1 DEF Calling
    <3> QED
      BY <3>1, <3>2
  <2> QED
    BY <1>3, <2>1, <2>2, <2>3 DEF Calling
<1>5. ASSUME NEW w \in Workers, NEW i \in Invoices, Fetch(w, i)
      PROVE  CallsCounted'
  BY <1>3, <1>5 DEF Fetch, Becomes, Idle, Calling, TypeOK, WorkersOK
<1>6. CASE Crash
  BY <1>3, <1>6 DEF Crash, Idle, Calling
<1>7. ASSUME \/ \E i \in Invoices : River(i) \/ People(i)
             \/ \E s \in Sweeps : Watchdog(s)
             \/ ActivateTaxPending
      PROVE  CallsCounted'
  <2>1. UNCHANGED <<kra, wk>>
    BY <1>7 DEF River, WakeUp, Elapse, RescueStuckJob, People, Retry, RequeueInvoice,
       ForceAcked, Watchdog, ListStale, Rescue, ActivateTaxPending
  <2> QED
    BY <1>3, <2>1 DEF Calling
<1> QED
  BY <1>1, <1>2, <1>4, <1>5, <1>6, <1>7 DEF Next

\* With any adapter, the one that forgets included: however workers die, answers
\* are lost, persists fail and sweeps rescue, KRA registers an invoice at most
\* as often as its attempts were counted, as long as no worker outlives the
\* timeouts, sweeps do not overlap and the merchant does not restart the count.
THEOREM FilingsCountedHolds ==
  ASSUME "stall" \notin Faults, \A s, t \in Sweeps : s = t, "retry" \notin Ops
  PROVE  Spec => []FilingsCounted
<1>1. Init => CallsCounted
  BY DEF Init, CallsCounted, Calling, Idle
<1>2. TypeOK /\ Recovery /\ CallsCounted /\ [Next]_vars => CallsCounted'
  <2>1. CASE UNCHANGED vars
    BY <2>1 DEF vars, CallsCounted, Calling
  <2> QED
    BY <2>1, CallsCountedStep
<1>3. CallsCounted => FilingsCounted
  BY DEF CallsCounted, FilingsCounted
<1> QED
  BY <1>1, <1>2, <1>3, TypeCorrect, RecoveryHolds, PTL DEF Spec

-----------------------------------------------------------------------------
(* Nothing that waits is forgotten.                                        *)

\* A worker that has not returned yet is on an invoice whose time has come.
LEMMA PickedUp ==
  ASSUME TypeOK, Owned, Attended, NEW w \in Workers, wk[w].pc \notin {"idle", "done"}
  PROVE  /\ wk[w].inv \in Invoices /\ job[wk[w].inv].st = "running"
         /\ state[wk[w].inv] # "TAX_PENDING"
         /\ state[wk[w].inv] = "QUEUED" => due[wk[w].inv]
<1>1. wk[w].inv \in Invoices
  BY WorksOn
<1>2. job[wk[w].inv] = [st |-> "running", by |-> w]
  BY DEF Owned
<1>3. job[wk[w].inv].st = "running"
  BY <1>2
<1>4. \A v \in Workers : Holds(v, wk[w].inv) => v = w
  BY <1>1, OneWorker DEF SingleFlight, Holds
<1> QED
  BY <1>1, <1>3, <1>4 DEF Attended, AttendedJob

\* What a worker leaves behind when it returns to River does not wait for a
\* job, unless River is asked to run this one again.
LEMMA WorkerLeaves ==
  ASSUME Faults \subseteq {"persist_err"}, TypeOK, Owned, InStep, Attended, NEW w \in Workers,
         Submit(w) \/ ClaimFails(w) \/ PersistFails(w), ~Finish(w), NEW i, i = wk[w].inv
  PROVE  /\ LeavesNone(w)'
         /\ state'[i] # "TAX_PENDING"
         /\ state'[i] = "QUEUED" /\ ~due'[i] => wk'[w].pc = "done" /\ wk'[w].verdict = "snooze"
<1>0. /\ wk[w].pc \notin {"idle", "done"} /\ i \in Invoices
      /\ wk'[w].pc # "idle" /\ wk'[w].inv = i
      /\ wk[w] \in WorkerStates
  BY SubmitKeepsInvoice, WorksOn
  DEF Submit, Read, ReadAtTheInstant, GiveUp, Claim, ClaimSkipped, ClaimFails,
      CallWithoutDocument, Recover, LookupFails, Replay, File, Refuse,
      PersistAck, PersistRetry, PersistReview, PersistRefused, PersistFails
<1>1. state[i] # "TAX_PENDING" /\ (state[i] = "QUEUED" => due[i])
  BY <1>0, PickedUp
<1>2. CarriedBy(w) /\ LeavesNone(w)
  BY DEF InStep, Carried, Attended
<1>3. ASSUME NEW v, Return(w, v) PROVE wk'[w].pc = "done" /\ wk'[w].verdict = v
  BY <1>3 DEF Return, Becomes, Idle, TypeOK, WorkersOK
<1>4. CASE Read(w)
  <2>1. UNCHANGED <<state, due>>
    BY <1>4 DEF Read, invoiceVars
  <2>2. CASE state[i] \notin {"QUEUED", "FAILED_RETRYABLE"} /\ Return(w, "complete")
    BY <1>0, <1>1, <1>3, <2>1, <2>2 DEF LeavesNone, Awaits
  <2>3. CASE Becomes(w, [wk[w] EXCEPT !.pc = "read", !.st = state[i], !.att = attempt[i]])
    <3>1. wk'[w].pc = "read" /\ wk'[w].st = state[i]
      BY <1>0, <2>3 DEF Becomes, TypeOK, WorkersOK, WorkerStates
    <3> QED
      BY <1>0, <1>1, <2>1, <3>1 DEF LeavesNone
  <2> QED
    BY <1>1, <1>4, <2>2, <2>3 DEF Read
<1>5. CASE GiveUp(w)
  <2>1. wk'[w].pc = "claimed" /\ state'[i] = "NEEDS_REVIEW"
    BY <1>0, <1>5 DEF GiveUp, Becomes, TypeOK, WorkersOK, WorkerStates, InvoicesOK
  <2> QED
    BY <1>0, <2>1 DEF LeavesNone, Awaits
<1>6. CASE Claim(w)
  <2>1. wk'[w].pc = "claimed" /\ state'[i] = "SUBMITTED"
    BY <1>0, <1>6 DEF Claim, Becomes, TypeOK, WorkersOK, WorkerStates, InvoicesOK
  <2> QED
    BY <1>0, <2>1 DEF LeavesNone, Awaits
<1>7. CASE ClaimSkipped(w) \/ PersistRefused(w) \/ PersistFails(w)
  <2>1. ~Awaits(i) /\ UNCHANGED <<state, due>>
    BY <1>0, <1>2, <1>7 DEF ClaimSkipped, PersistRefused, PersistFails, Swappable, CarriedBy,
       LeavesNone, Awaits, invoiceVars, WorkerStates
  <2>2. wk'[w].pc = "done"
    BY <1>3, <1>7 DEF ClaimSkipped, PersistRefused, PersistFails
  <2> QED
    BY <1>0, <1>1, <2>1, <2>2 DEF LeavesNone, Awaits
<1>8. CASE \/ CallWithoutDocument(w) \/ Recover(w) \/ LookupFails(w)
           \/ Replay(w) \/ File(w) \/ Refuse(w)
  <2>1. wk[w].pc = "claimed" /\ UNCHANGED <<state, due>> /\ \E e, n : Answered(w, e, n)
    BY <1>8 DEF CallWithoutDocument, Recover, LookupFails, Replay, File, Refuse, invoiceVars
  <2>2. wk'[w].pc = "called" /\ wk'[w].doc = wk[w].doc
    BY <1>0, <2>1, AnsweredFacts
  <2> QED
    BY <1>0, <1>1, <1>2, <2>1, <2>2 DEF LeavesNone, Awaits
<1>9. CASE PersistAck(w) \/ PersistReview(w)
  <2>1. state'[i] \in {"ACKED", "NEEDS_REVIEW"} /\ wk'[w].pc = "done"
    BY <1>0, <1>3, <1>9 DEF PersistAck, PersistReview, TypeOK, InvoicesOK
  <2> QED
    BY <1>0, <2>1 DEF LeavesNone, Awaits
<1>10. CASE PersistRetry(w)
  <2>1. state'[i] = "QUEUED" /\ wk'[w].pc = "done" /\ wk'[w].verdict = "snooze"
    BY <1>0, <1>3, <1>10 DEF PersistRetry, TypeOK, InvoicesOK
  <2> QED
    BY <1>0, <2>1 DEF LeavesNone
<1>11. ~ReadAtTheInstant(w) /\ ~ClaimFails(w)
  BY <1>1 DEF ReadAtTheInstant, ClaimFails, Fault
<1> QED
  BY <1>4, <1>5, <1>6, <1>7, <1>8, <1>9, <1>10, <1>11 DEF Submit

\* A step of Submit leaves every invoice attended.
LEMMA WorkerAttends ==
  ASSUME Faults \subseteq {"persist_err"}, TypeOK, Owned, InStep, Attended, AwaitingHasJob,
         NEW w \in Workers, Submit(w) \/ ClaimFails(w) \/ PersistFails(w), ~Finish(w)
  PROVE  Attended' /\ AwaitingHasJob'
<1>0. /\ wk[w].pc # "idle" /\ wk[w].inv \in Invoices
      /\ wk'[w].pc # "idle" /\ wk'[w].inv = wk[w].inv
      /\ \A v \in Workers \ {w} : wk'[v] = wk[v]
      /\ UNCHANGED <<job, sweep>>
  BY SubmitKeepsInvoice
<1> PICK i \in Invoices : i = wk[w].inv
  BY <1>0
<1>1. \A j \in Invoices \ {i} : state'[j] = state[j] /\ due'[j] = due[j]
  BY WritesOwn
<1>2. /\ LeavesNone(w)'
      /\ state'[i] # "TAX_PENDING"
      /\ state'[i] = "QUEUED" /\ ~due'[i] => wk'[w].pc = "done" /\ wk'[w].verdict = "snooze"
  BY WorkerLeaves
<1>3. job[i] = [st |-> "running", by |-> w]
  BY <1>0 DEF Owned
<1>4. job[i].st = "running"
  BY <1>3
<1>5. ASSUME NEW j \in Invoices PROVE AttendedJob(j)'
  <2>1. CASE j = i
    BY <2>1, <1>0, <1>2, <1>4 DEF AttendedJob, Quiet, Holds
  <2>2. CASE j # i
    <3>1. AttendedJob(j)
      BY DEF Attended
    <3>2. \A v \in Workers : (Holds(v, j) <=> Holds(v, j)') /\ (Holds(v, j) => wk'[v] = wk[v])
      BY <2>2, <1>0 DEF Holds
    <3> QED
      BY <2>2, <1>0, <1>1, <3>1, <3>2 DEF AttendedJob, Quiet
  <2> QED
    BY <2>1, <2>2
<1>6. ASSUME NEW v \in Workers PROVE LeavesNone(v)'
  <2>1. CASE v = w
    BY <2>1, <1>2
  <2>2. CASE v # w /\ wk[v].pc # "idle"
    <3>1. wk[v].inv \in Invoices /\ wk[v].inv # i /\ LeavesNone(v) /\ wk'[v] = wk[v]
      BY <2>2, <1>0, WorksOn, OneWorker DEF SingleFlight, Holds, Attended
    <3> QED
      BY <1>1, <3>1 DEF LeavesNone, Awaits
  <2>3. CASE v # w /\ wk[v].pc = "idle"
    BY <2>3, <1>0 DEF LeavesNone
  <2> QED
    BY <2>1, <2>2, <2>3
<1>7. AwaitingHasJob'
  BY <1>0, <1>1, <1>4 DEF AwaitingHasJob, Awaits
<1> QED
  BY <1>5, <1>6, <1>7 DEF Attended

\* River's own steps leave every invoice attended: a job ends for good only
\* when nothing waits for it.
LEMMA RiverAttends ==
  ASSUME Faults \subseteq {"persist_err"}, TypeOK, Owned, Attended, AwaitingHasJob,
         \/ \E w \in Workers, i \in Invoices : Fetch(w, i)
         \/ \E w \in Workers : Finish(w)
         \/ \E i \in Invoices : River(i)
  PROVE  Attended' /\ AwaitingHasJob'
<1>0. \A v \in Workers : wk[v].pc # "idle" => wk[v].inv \in Invoices /\ job[wk[v].inv].st = "running"
  <2> SUFFICES ASSUME NEW v \in Workers, wk[v].pc # "idle"
               PROVE  wk[v].inv \in Invoices /\ job[wk[v].inv].st = "running"
    OBVIOUS
  <2>1. job[wk[v].inv] = [st |-> "running", by |-> v]
    BY DEF Owned
  <2> QED
    BY <2>1, WorksOn
<1>1. ASSUME NEW w \in Workers, NEW i \in Invoices, Fetch(w, i)
      PROVE  Attended' /\ AwaitingHasJob'
  <2>1. /\ wk'[w].pc = "fetched" /\ wk'[w].inv = i /\ wk[w].pc = "idle"
        /\ \A v \in Workers \ {w} : wk'[v] = wk[v]
        /\ job[i].st = "available" /\ job'[i].st = "running"
        /\ \A j \in Invoices \ {i} : job'[j] = job[j]
        /\ UNCHANGED <<state, due>>
    BY <1>1 DEF Fetch, Becomes, Idle, invoiceVars, TypeOK, WorkersOK, JobsOK
  <2>2. state[i] # "TAX_PENDING" /\ (state[i] = "QUEUED" => due[i])
    BY <1>0, <2>1 DEF Attended, AttendedJob, Holds
  <2>3. ASSUME NEW j \in Invoices PROVE AttendedJob(j)'
    <3>1. CASE j = i
      BY <3>1, <2>1, <2>2 DEF AttendedJob, Quiet, Holds
    <3>2. CASE j # i
      <4>1. AttendedJob(j)
        BY DEF Attended
      <4>2. \A v \in Workers : (Holds(v, j) <=> Holds(v, j)') /\ (Holds(v, j) => wk'[v] = wk[v])
        BY <3>2, <2>1 DEF Holds
      <4> QED
        BY <3>2, <2>1, <4>1, <4>2 DEF AttendedJob, Quiet
    <3> QED
      BY <3>1, <3>2
  <2>4. \A v \in Workers : LeavesNone(v)'
    BY <2>1 DEF Attended, LeavesNone, Awaits
  <2>5. AwaitingHasJob'
    BY <2>1 DEF AwaitingHasJob, Awaits
  <2> QED
    BY <2>3, <2>4, <2>5 DEF Attended
<1>2. ASSUME NEW w \in Workers, Finish(w)
      PROVE  Attended' /\ AwaitingHasJob'
  <2>0. wk[w].pc = "done" /\ wk[w].inv \in Invoices /\ wk[w].verdict \in Verdicts
    BY <1>2, WorksOn DEF Finish, WorkerStates
  <2> PICK i \in Invoices : i = wk[w].inv
    BY <2>0
  <2>1. /\ wk'[w] = Idle
        /\ \A v \in Workers \ {w} : wk'[v] = wk[v]
        /\ \A j \in Invoices \ {i} : job'[j] = job[j]
        /\ UNCHANGED <<state, due>>
    BY <1>2 DEF Finish, Becomes, TypeOK, WorkersOK, JobsOK, invoiceVars
  <2>2. job[i] = [st |-> "running", by |-> w]
    BY <2>0 DEF Owned
  <2>3. \/ wk[w].verdict \in {"complete", "discard"} /\ job'[i].st = "none"
        \/ wk[w].verdict = "snooze" /\ job'[i].st = "scheduled"
        \/ wk[w].verdict = "snooze0" /\ job'[i].st = "available"
    BY <1>2, <2>0, <2>2 DEF Finish, NoJob, Verdicts, TypeOK, JobsOK
  <2>4. \A v \in Workers : Holds(v, i) => v = w
    BY <2>0, OneWorker DEF SingleFlight, Holds
  <2>5. job[i].st = "running" /\ AttendedJob(i) /\ LeavesNone(w)
    BY <2>2 DEF Attended
  <2>6. wk[w].verdict \in {"complete", "discard"} => ~Awaits(i)
    BY <2>0, <2>5 DEF LeavesNone
  <2>7. AttendedJob(i)'
    BY <2>0, <2>1, <2>3, <2>4, <2>5, <2>6 DEF AttendedJob, Awaits
  <2>8. ASSUME NEW j \in Invoices, j # i PROVE AttendedJob(j)'
    <3>1. AttendedJob(j)
      BY DEF Attended
    <3>2. \A v \in Workers : (Holds(v, j) <=> Holds(v, j)') /\ (Holds(v, j) => wk'[v] = wk[v])
      BY <2>8, <2>1 DEF Holds, Idle
    <3> QED
      BY <2>8, <2>1, <3>1, <3>2 DEF AttendedJob, Quiet
  <2>9. \A v \in Workers : LeavesNone(v)'
    BY <2>1 DEF Attended, LeavesNone, Awaits, Idle
  <2>10. AwaitingHasJob'
    BY <2>1, <2>3, <2>6 DEF AwaitingHasJob, Awaits
  <2> QED
    BY <2>7, <2>8, <2>9, <2>10 DEF Attended
<1>3. ASSUME NEW i \in Invoices, River(i)
      PROVE  Attended' /\ AwaitingHasJob'
  <2>1. UNCHANGED <<wk, state>>
    BY <1>3 DEF River, WakeUp, Elapse, RescueStuckJob, invoiceVars
  <2>2. ~RescueStuckJob(i)
    BY DEF RescueStuckJob, TimedOut, Fault, Attended, AttendedJob
  <2>3. /\ \A j \in Invoices : due[j] => due'[j]
        /\ \A j \in Invoices : \/ job'[j] = job[j]
                               \/ job[j].st = "scheduled" /\ due[j] /\ job'[j].st = "available"
    BY <1>3, <2>2 DEF River, WakeUp, Elapse, Fault, invoiceVars, TypeOK, JobsOK, InvoicesOK
  <2>4. ASSUME NEW j \in Invoices PROVE AttendedJob(j)'
    BY <2>1, <2>3 DEF Attended, AttendedJob, Quiet, Holds
  <2>5. \A v \in Workers : LeavesNone(v)'
    BY <2>1 DEF Attended, LeavesNone, Awaits
  <2>6. AwaitingHasJob'
    BY <2>1, <2>3 DEF AwaitingHasJob, Awaits
  <2> QED
    BY <2>4, <2>5, <2>6 DEF Attended
<1> QED
  BY <1>1, <1>2, <1>3

\* Merchant, operator, ledger and watchdog leave every invoice attended: who
\* queues an invoice gives it a job, unless it has one.
LEMMA OthersAttend ==
  ASSUME Faults \subseteq {"persist_err"}, Ops \subseteq {"force"}, \A s, t \in Sweeps : s = t,
         TypeOK, Owned, InStep, Attended, AwaitingHasJob,
         \/ \E i \in Invoices : People(i)
         \/ \E s \in Sweeps : Watchdog(s)
         \/ ActivateTaxPending
         \/ Crash
  PROVE  Attended' /\ AwaitingHasJob'
<1>1. ASSUME UNCHANGED <<wk, job, due>>,
             \A j \in Invoices : state'[j] = state[j] \/ state'[j] = "ACKED"
      PROVE  Attended' /\ AwaitingHasJob'
  <2>1. \A j \in Invoices : AttendedJob(j)'
    BY <1>1 DEF Attended, AttendedJob, Quiet, Holds
  <2>2. \A v \in Workers : wk[v].pc # "idle" => wk[v].inv \in Invoices
    BY WorksOn
  <2>3. \A v \in Workers : LeavesNone(v)'
    BY <1>1, <2>2 DEF Attended, LeavesNone, Awaits
  <2>4. AwaitingHasJob'
    BY <1>1 DEF AwaitingHasJob, Awaits
  <2> QED
    BY <2>1, <2>3, <2>4 DEF Attended
<1>2. ASSUME NEW i \in Invoices, People(i)
      PROVE  Attended' /\ AwaitingHasJob'
  <2>1. ForceAcked(i)
    BY <1>2 DEF People, Retry, RequeueInvoice, Op
  <2> QED
    BY <1>1, <2>1 DEF ForceAcked, TypeOK, InvoicesOK
<1>3. ASSUME NEW S \in SUBSET Invoices,
             \A i \in S : Quiet(i) /\ job[i].st = "none" /\ due'[i],
             Enqueue(S), UNCHANGED wk,
             \A j \in Invoices : due[j] => due'[j],
             \A j \in S : state'[j] \in {"QUEUED", "FAILED_RETRYABLE"},
             \A j \in Invoices \ S : state'[j] = state[j]
      PROVE  Attended' /\ AwaitingHasJob'
  <2>1. /\ \A j \in S : job'[j].st = "available"
        /\ \A j \in Invoices \ S : job'[j] = job[j]
    BY <1>3 DEF Enqueue, UniqueStates
  <2>2. \A j \in Invoices : AttendedJob(j)'
    BY <1>3, <2>1 DEF Attended, AttendedJob, Quiet, Holds
  <2>3. \A v \in Workers : wk[v].pc # "idle" => wk[v].inv \in Invoices \ S
    BY <1>3, WorksOn DEF Quiet, Holds
  <2>4. \A v \in Workers : LeavesNone(v)'
    BY <1>3, <2>3 DEF Attended, LeavesNone, Awaits
  <2>5. AwaitingHasJob'
    BY <1>3, <2>1 DEF AwaitingHasJob, Awaits
  <2> QED
    BY <2>2, <2>4, <2>5 DEF Attended
<1>4. ASSUME NEW s \in Sweeps, Watchdog(s)
      PROVE  Attended' /\ AwaitingHasJob'
  <2>1. ASSUME NEW S \in SUBSET Invoices, ListStale(s, S)
        PROVE  Attended' /\ AwaitingHasJob'
    BY <1>1, <2>1 DEF ListStale, invoiceVars
  <2>2. ASSUME NEW r \in sweep[s], Rescue(s, r)
        PROVE  Attended' /\ AwaitingHasJob'
    <3>1. r.inv \in Invoices /\ Quiet(r.inv) /\ Unqueued(r.inv)
      BY DEF InStep, ListedStale, TypeOK
    <3>2. job[r.inv].st = "none"
      BY <3>1 DEF Unqueued, Attended, AttendedJob
    <3>3. CASE Swappable(r.inv, "SUBMITTED")
      BY <1>3, <2>2, <3>1, <3>2, <3>3 DEF Rescue, TypeOK, InvoicesOK
    <3>4. CASE ~Swappable(r.inv, "SUBMITTED")
      BY <1>1, <2>2, <3>4 DEF Rescue
    <3> QED
      BY <3>3, <3>4
  <2> QED
    BY <1>4, <2>1, <2>2 DEF Watchdog
<1>5. CASE ActivateTaxPending
  <2> DEFINE S == {i \in Invoices : state[i] = "TAX_PENDING"}
  <2>1. \A i \in S : job[i].st = "none" /\ due[i]
    BY DEF Attended, AttendedJob
  <2>2. \A i \in S : Quiet(i)
    <3> SUFFICES ASSUME NEW i \in S, NEW v \in Workers, Holds(v, i) PROVE FALSE
      BY DEF Quiet
    <3>1. job[i] = [st |-> "running", by |-> v]
      BY DEF Owned, Holds
    <3> QED
      BY <2>1, <3>1
  <2> QED
    BY <1>3, <1>5, <2>1, <2>2 DEF ActivateTaxPending, TypeOK, InvoicesOK
<1>6. ~Crash
  BY DEF Crash, Fault
<1> QED
  BY <1>2, <1>4, <1>5, <1>6

\* When the database fails only while an outcome is persisted and the operator
\* does no more than force an acknowledgement, an invoice that waits to be
\* submitted has a live job: the watchdog and the snoozes lose none.
THEOREM AwaitingHasJobHolds ==
  ASSUME Faults \subseteq {"persist_err"}, Ops \subseteq {"force"}, \A s, t \in Sweeps : s = t
  PROVE  Spec => []AwaitingHasJob
<1>0. "stall" \notin Faults
  OBVIOUS
<1>1. Init => Attended /\ AwaitingHasJob
  <2> SUFFICES ASSUME Init PROVE Attended /\ AwaitingHasJob
    OBVIOUS
  <2>1. \A w \in Workers : wk[w].pc = "idle"
    BY DEF Init, Idle
  <2>2. /\ \A i \in Invoices : due[i] /\ job[i].st # "running"
        /\ \A i \in Invoices : state[i] = "QUEUED" => job[i].st = "available"
        /\ \A i \in Invoices : state[i] = "TAX_PENDING" => job[i].st = "none"
        /\ \A i \in Invoices : state[i] \in {"QUEUED", "TAX_PENDING"}
    BY DEF Init, NoJob
  <2> QED
    BY <2>1, <2>2 DEF Attended, AttendedJob, LeavesNone, AwaitingHasJob, Awaits
<1>2. TypeOK /\ Recovery /\ Attended /\ AwaitingHasJob /\ [Next]_vars
         => Attended' /\ AwaitingHasJob'
  <2> SUFFICES ASSUME TypeOK, Recovery, Attended, AwaitingHasJob, [Next]_vars
               PROVE  Attended' /\ AwaitingHasJob'
    OBVIOUS
  <2>1. CASE Next
    BY <2>1, WorkerAttends, RiverAttends, OthersAttend DEF Next, Recovery
  <2>2. CASE UNCHANGED vars
    BY <2>2 DEF vars, Attended, AttendedJob, LeavesNone, AwaitingHasJob, Awaits, Quiet, Holds
  <2> QED
    BY <2>1, <2>2
<1> QED
  BY <1>0, <1>1, <1>2, TypeCorrect, RecoveryHolds, PTL DEF Spec
=============================================================================
