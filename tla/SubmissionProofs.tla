-------------------------- MODULE SubmissionProofs --------------------------
(* Theorems about Submission, for every value of its constants.            *)
EXTENDS Submission, TLAPS

\* A worker that moves to a well-formed state leaves all workers well formed.
LEMMA BecomesOK ==
  ASSUME WorkersOK, NEW w \in Workers, NEW r \in WorkerStates,
         r.pc # "idle" => r.inv \in Invoices, Becomes(w, r)
  PROVE  WorkersOK'
BY DEF WorkersOK, Becomes

\* Work returns to River with one of its verdicts.
LEMMA ReturnOK ==
  ASSUME WorkersOK, NEW w \in Workers, wk[w].pc # "idle",
         NEW v \in Verdicts, Return(w, v)
  PROVE  WorkersOK'
<1> DEFINE r == [Idle EXCEPT !.pc = "done", !.inv = wk[w].inv, !.verdict = v]
<1>1. r \in WorkerStates /\ r.inv \in Invoices
  BY DEF WorkersOK, WorkerStates, Idle, State, Error, Verdicts
<1>2. Becomes(w, r)
  BY DEF Return
<1> QED
  BY <1>1, <1>2, BecomesOK

\* The provider's answer is recorded in the worker.
LEMMA AnsweredOK ==
  ASSUME WorkersOK, NEW w \in Workers, wk[w].pc # "idle",
         NEW err \in Error, NEW no \in Nat, Answered(w, err, no)
  PROVE  WorkersOK'
<1> DEFINE r == [wk[w] EXCEPT !.pc = "called", !.err = err, !.no = no]
<1>1. r \in WorkerStates /\ r.inv \in Invoices
  BY DEF WorkersOK, WorkerStates
<1>2. Becomes(w, r)
  BY DEF Answered
<1> QED
  BY <1>1, <1>2, BecomesOK

\* Every worker that is not idle works on an invoice.
LEMMA WorksOn ==
  ASSUME TypeOK, NEW w \in Workers, wk[w].pc # "idle"
  PROVE  wk[w].inv \in Invoices /\ wk[w] \in WorkerStates /\ wk[w].att \in Nat /\ wk[w].no \in Nat
BY DEF TypeOK, WorkersOK, WorkerStates

\* The claim transaction keeps the types.
LEMMA ClaimTypes ==
  ASSUME TypeOK, NEW w \in Workers,
         \/ Read(w) \/ ReadAtTheInstant(w) \/ GiveUp(w) \/ Claim(w)
         \/ ClaimSkipped(w) \/ ClaimFails(w)
  PROVE  TypeOK'
<1> DEFINE i == wk[w].inv
<1> USE DEF TypeOK
<1>0. wk[w].pc # "idle" /\ i \in Invoices /\ wk[w] \in WorkerStates /\ wk[w].att \in Nat
  BY WorksOn DEF Read, ReadAtTheInstant, GiveUp, Claim, ClaimSkipped, ClaimFails
<1>1. CASE Read(w)
  <2> DEFINE r == [wk[w] EXCEPT !.pc = "read", !.st = state[i], !.att = attempt[i]]
  <2>1. r \in WorkerStates /\ r.inv \in Invoices
    BY <1>0 DEF InvoicesOK, WorkerStates
  <2>2. WorkersOK'
    <3>1. CASE Becomes(w, r)
      BY <3>1, <2>1, BecomesOK
    <3>2. CASE \E v \in Verdicts : Return(w, v)
      BY <3>2, <1>0, ReturnOK
    <3> QED
      BY <1>1, <3>1, <3>2 DEF Read, Verdicts
  <2> QED
    BY <1>1, <2>2 DEF Read, InvoicesOK, JobsOK, BoundsOK, invoiceVars, bounds
<1>2. CASE ReadAtTheInstant(w)
  <2>1. WorkersOK'
    BY <1>0, <1>2, ReturnOK DEF ReadAtTheInstant, Verdicts
  <2> QED
    BY <1>0, <1>2, <2>1 DEF ReadAtTheInstant, InvoicesOK, JobsOK, BoundsOK, bounds
<1>3. CASE GiveUp(w)
  <2> DEFINE r == [wk[w] EXCEPT !.pc = "claimed", !.att = 0]
  <2>1. r \in WorkerStates /\ r.inv \in Invoices
    BY <1>0 DEF WorkerStates
  <2>2. WorkersOK'
    BY <1>3, <2>1, BecomesOK DEF GiveUp
  <2> QED
    BY <1>0, <1>3, <2>2 DEF GiveUp, InvoicesOK, JobsOK, BoundsOK, State, bounds
<1>4. CASE Claim(w)
  <2> DEFINE r == [wk[w] EXCEPT !.pc = "claimed", !.att = wk[w].att + 1,
                                !.retry = wk[w].att > 0, !.doc = TRUE]
  <2>0. (wk[w].att > 0) \in BOOLEAN /\ wk[w].att + 1 \in Nat
    BY <1>0
  <2>1. r \in WorkerStates /\ r.inv \in Invoices
    BY <1>0, <2>0 DEF WorkerStates
  <2>2. WorkersOK'
    BY <1>4, <2>1, BecomesOK DEF Claim
  <2> QED
    BY <1>0, <1>4, <2>0, <2>2 DEF Claim, InvoicesOK, JobsOK, BoundsOK, State, bounds
<1>5. CASE ClaimSkipped(w)
  <2>1. WorkersOK'
    BY <1>0, <1>5, ReturnOK DEF ClaimSkipped, Verdicts
  <2> QED
    BY <1>5, <2>1 DEF ClaimSkipped, InvoicesOK, JobsOK, BoundsOK, invoiceVars, bounds
<1>6. CASE ClaimFails(w)
  <2>1. WorkersOK'
    BY <1>0, <1>6, ReturnOK DEF ClaimFails, Verdicts
  <2>2. BoundsOK'
    BY <1>6, SubmissionAssumption DEF ClaimFails, Fault, BoundsOK
  <2> QED
    BY <1>6, <2>1, <2>2 DEF ClaimFails, InvoicesOK, JobsOK, invoiceVars
<1> QED
  BY <1>1, <1>2, <1>3, <1>4, <1>5, <1>6

\* The provider call keeps the types.
LEMMA CallTypes ==
  ASSUME TypeOK, NEW w \in Workers,
         \/ CallWithoutDocument(w) \/ Recover(w) \/ LookupFails(w)
         \/ Replay(w) \/ File(w) \/ Refuse(w)
  PROVE  TypeOK'
<1> DEFINE i == wk[w].inv
<1>0. wk[w].pc # "idle" /\ i \in Invoices /\ kra[i] \in Nat
  BY WorksOn DEF CallWithoutDocument, Recover, LookupFails, Replay, File, Refuse, TypeOK
<1>1. \E err \in Error, no \in Nat : Answered(w, err, no)
  <2>1. CASE CallWithoutDocument(w)
    BY <2>1 DEF CallWithoutDocument, Error
  <2>2. CASE Recover(w)
    BY <2>2, <1>0 DEF Recover, Error
  <2>3. CASE LookupFails(w)
    BY <2>3 DEF LookupFails, Error
  <2>4. CASE Replay(w)
    BY <2>4, <1>0 DEF Replay, ReplayError, Error
  <2>5. CASE File(w)
    BY <2>5, <1>0 DEF File, Error
  <2>6. CASE Refuse(w)
    BY <2>6 DEF Refuse, Error
  <2> QED
    BY <2>1, <2>2, <2>3, <2>4, <2>5, <2>6
<1>2. WorkersOK'
  BY <1>0, <1>1, AnsweredOK DEF TypeOK
<1>3. CASE File(w)
  BY <1>0, <1>2, <1>3 DEF File, TypeOK, InvoicesOK, JobsOK, BoundsOK, invoiceVars, bounds
<1>4. CASE ~File(w)
  BY <1>2, <1>4 DEF CallWithoutDocument, Recover, LookupFails, Replay, Refuse, TypeOK,
                    InvoicesOK, JobsOK, BoundsOK, invoiceVars, bounds
<1> QED
  BY <1>3, <1>4

\* The persist transaction keeps the types.
LEMMA PersistTypes ==
  ASSUME TypeOK, NEW w \in Workers,
         \/ PersistAck(w) \/ PersistRetry(w) \/ PersistReview(w)
         \/ PersistRefused(w) \/ PersistFails(w)
  PROVE  TypeOK'
<1> DEFINE i == wk[w].inv
<1>0. wk[w].pc # "idle" /\ i \in Invoices /\ wk[w].no \in Nat /\ usage[i] \in Nat
  BY WorksOn DEF PersistAck, PersistRetry, PersistReview, PersistRefused, PersistFails,
                 TypeOK, InvoicesOK
<1>1. WorkersOK'
  BY <1>0, ReturnOK DEF PersistAck, PersistRetry, PersistReview, PersistRefused, PersistFails,
                        TypeOK, Verdicts
<1>2. JobsOK' /\ BoundsOK'
  BY SubmissionAssumption
  DEF PersistAck, PersistRetry, PersistReview, PersistRefused, PersistFails, Fault,
      TypeOK, JobsOK, BoundsOK, bounds
<1>3. InvoicesOK'
  <2>1. CASE PersistAck(w)
    BY <2>1, <1>0 DEF PersistAck, TypeOK, InvoicesOK, State
  <2>2. CASE PersistRetry(w)
    BY <2>2, <1>0 DEF PersistRetry, TypeOK, InvoicesOK, State
  <2>3. CASE PersistReview(w)
    BY <2>3, <1>0 DEF PersistReview, TypeOK, InvoicesOK, State
  <2>4. CASE PersistRefused(w)
    BY <2>4, <1>0 DEF PersistRefused, TypeOK, InvoicesOK
  <2>5. CASE PersistFails(w)
    BY <2>5 DEF PersistFails, TypeOK, InvoicesOK, invoiceVars
  <2> QED
    BY <2>1, <2>2, <2>3, <2>4, <2>5
<1> QED
  BY <1>1, <1>2, <1>3
  DEF PersistAck, PersistRetry, PersistReview, PersistRefused, PersistFails, TypeOK

\* River's own steps keep the types.
LEMMA RiverTypes ==
  ASSUME TypeOK, \/ \E w \in Workers, i \in Invoices : Fetch(w, i)
                 \/ \E w \in Workers : Finish(w)
                 \/ \E i \in Invoices : River(i)
  PROVE  TypeOK'
<1> USE DEF TypeOK
<1>1. ASSUME NEW w \in Workers, NEW i \in Invoices, Fetch(w, i)
      PROVE  TypeOK'
  <2> DEFINE r == [Idle EXCEPT !.pc = "fetched", !.inv = i]
  <2>1. r \in WorkerStates /\ r.inv \in Invoices
    BY DEF WorkerStates, Idle, State, Error, Verdicts
  <2>2. WorkersOK'
    BY <1>1, <2>1, BecomesOK DEF Fetch
  <2> QED
    BY <1>1, <2>2 DEF Fetch, InvoicesOK, JobsOK, JobStates, BoundsOK, invoiceVars, bounds
<1>2. ASSUME NEW w \in Workers, Finish(w)
      PROVE  TypeOK'
  <2>1. Idle \in WorkerStates /\ Idle.pc = "idle"
    BY DEF WorkerStates, Idle, State, Error, Verdicts
  <2>2. WorkersOK'
    BY <1>2, <2>1, BecomesOK DEF Finish
  <2>3. wk[w].inv \in Invoices /\ wk[w].verdict \in Verdicts
    BY <1>2 DEF Finish, WorkersOK, WorkerStates
  <2>4. JobsOK'
    BY <1>2, <2>3 DEF Finish, JobsOK, JobStates, NoJob, Verdicts
  <2> QED
    BY <1>2, <2>2, <2>4 DEF Finish, InvoicesOK, BoundsOK, invoiceVars, bounds
<1>3. ASSUME NEW i \in Invoices, WakeUp(i)
      PROVE  TypeOK'
  BY <1>3, SubmissionAssumption
  DEF WakeUp, Fault, InvoicesOK, JobsOK, JobStates, WorkersOK, BoundsOK, invoiceVars, bounds
<1>4. ASSUME NEW i \in Invoices, Elapse(i)
      PROVE  TypeOK'
  BY <1>4 DEF Elapse, InvoicesOK, JobsOK, WorkersOK, BoundsOK, bounds
<1>5. ASSUME NEW i \in Invoices, RescueStuckJob(i)
      PROVE  TypeOK'
  BY <1>5, SubmissionAssumption
  DEF RescueStuckJob, TimedOut, Fault, NoJob, InvoicesOK, JobsOK, JobStates, WorkersOK,
      BoundsOK, invoiceVars, bounds
<1> QED
  BY <1>1, <1>2, <1>3, <1>4, <1>5 DEF River

\* Enqueueing keeps the job table well formed.
LEMMA EnqueueTypes ==
  ASSUME JobsOK, NEW S, Enqueue(S)
  PROVE  JobsOK'
BY DEF Enqueue, JobsOK, JobStates

\* The watchdog keeps the types.
LEMMA WatchdogTypes ==
  ASSUME TypeOK, NEW s \in Sweeps, Watchdog(s)
  PROVE  TypeOK'
<1> USE DEF TypeOK
<1>1. ASSUME NEW S \in SUBSET Invoices, ListStale(s, S)
      PROVE  TypeOK'
  <2>1. {[inv |-> i, att |-> attempt[i]] : i \in S} \in SUBSET [inv: Invoices, att: Nat]
    BY DEF InvoicesOK
  <2>2. sweep' \in [Sweeps -> SUBSET [inv: Invoices, att: Nat]]
    BY <1>1, <2>1 DEF ListStale
  <2>3. BoundsOK'
    BY <1>1, SubmissionAssumption DEF ListStale, TimedOut, Fault, BoundsOK, bounds
  <2> QED
    BY <1>1, <2>2, <2>3 DEF ListStale, InvoicesOK, JobsOK, WorkersOK, invoiceVars
<1>2. ASSUME NEW r \in sweep[s], Rescue(s, r)
      PROVE  TypeOK'
  <2>1. r.inv \in Invoices /\ r.att \in Nat
    OBVIOUS
  <2>2. sweep' \in [Sweeps -> SUBSET [inv: Invoices, att: Nat]]
    BY <1>2 DEF Rescue
  <2>3. JobsOK'
    BY <1>2, EnqueueTypes DEF Rescue, JobsOK
  <2>4. InvoicesOK'
    <3>1. CASE Swappable(r.inv, "SUBMITTED")
      <4>1. /\ state' = [state EXCEPT ![r.inv] = "FAILED_RETRYABLE"]
            /\ attempt' = [attempt EXCEPT ![r.inv] = r.att + 1]
            /\ due' = [due EXCEPT ![r.inv] = TRUE]
            /\ UNCHANGED <<kraNo, usage, lost>>
        BY <1>2, <3>1 DEF Rescue
      <4>2. "FAILED_RETRYABLE" \in State /\ r.att + 1 \in Nat
        BY <2>1 DEF State
      <4> QED
        BY <4>1, <4>2 DEF InvoicesOK
    <3>2. CASE ~Swappable(r.inv, "SUBMITTED")
      BY <1>2, <3>2 DEF Rescue, InvoicesOK
    <3> QED
      BY <3>1, <3>2
  <2> QED
    BY <1>2, <2>2, <2>3, <2>4 DEF Rescue, WorkersOK, BoundsOK, bounds
<1> QED
  BY <1>1, <1>2 DEF Watchdog

\* Merchant, operator, ledger and the end of the process keep the types.
LEMMA OutsideTypes ==
  ASSUME TypeOK, \/ \E i \in Invoices : People(i)
                 \/ ActivateTaxPending
                 \/ Crash
  PROVE  TypeOK'
<1> USE DEF TypeOK
<1>1. ASSUME NEW i \in Invoices, Retry(i)
      PROVE  TypeOK'
  BY <1>1, EnqueueTypes, SubmissionAssumption
  DEF Retry, Op, InvoicesOK, State, WorkersOK, BoundsOK
<1>2. ASSUME NEW i \in Invoices, RequeueInvoice(i)
      PROVE  TypeOK'
  BY <1>2, SubmissionAssumption
  DEF RequeueInvoice, Op, InvoicesOK, State, JobsOK, WorkersOK, BoundsOK
<1>3. ASSUME NEW i \in Invoices, ForceAcked(i)
      PROVE  TypeOK'
  BY <1>3, SubmissionAssumption
  DEF ForceAcked, Op, InvoicesOK, State, JobsOK, WorkersOK, BoundsOK
<1>4. CASE ActivateTaxPending
  BY <1>4, EnqueueTypes
  DEF ActivateTaxPending, InvoicesOK, State, WorkersOK, BoundsOK, bounds
<1>5. CASE Crash
  <2>1. WorkersOK'
    BY <1>5 DEF Crash, WorkersOK, WorkerStates, Idle, State, Error, Verdicts
  <2>2. JobsOK' /\ BoundsOK'
    BY <1>5, SubmissionAssumption DEF Crash, Fault, JobsOK, BoundsOK
  <2> QED
    BY <1>5, <2>1, <2>2 DEF Crash, InvoicesOK, invoiceVars
<1> QED
  BY <1>1, <1>2, <1>3, <1>4, <1>5 DEF People

\* Every state of every behaviour is well formed: the attempt counters, the
\* job rows and the local variables of Submit keep their types whatever the
\* workers, the watchdog, merchant, operator and faults do.
THEOREM TypeCorrect == Spec => []TypeOK
<1>1. Init => TypeOK
  <2> SUFFICES ASSUME Init PROVE TypeOK
    OBVIOUS
  <2>1. InvoicesOK /\ BoundsOK
    BY SubmissionAssumption DEF Init, InvoicesOK, BoundsOK, State
  <2>2. JobsOK
    BY DEF Init, JobsOK, JobStates, NoJob
  <2>3. WorkersOK
    BY DEF Init, WorkersOK, WorkerStates, Idle, State, Error, Verdicts
  <2> QED
    BY <2>1, <2>2, <2>3 DEF Init, TypeOK
<1>2. TypeOK /\ [Next]_vars => TypeOK'
  <2> SUFFICES ASSUME TypeOK, [Next]_vars PROVE TypeOK'
    OBVIOUS
  <2>1. CASE Next
    BY <2>1, ClaimTypes, CallTypes, PersistTypes, RiverTypes, WatchdogTypes, OutsideTypes
    DEF Next, Submit
  <2>2. CASE UNCHANGED vars
    BY <2>2 DEF vars, TypeOK, InvoicesOK, JobsOK, WorkersOK, BoundsOK
  <2> QED
    BY <2>1, <2>2
<1> QED
  BY <1>1, <1>2, PTL DEF Spec

-----------------------------------------------------------------------------
(* ACKED is final.                                                         *)

\* Only the two open states lead to SUBMITTED.
LEMMA ClaimableStates ==
  ASSUME NEW s \in State, CanTransition(s, "SUBMITTED")
  PROVE  s \in {"QUEUED", "FAILED_RETRYABLE"}
BY DEF CanTransition, transitions, State

\* Resolve sends an attempt to ACKED exactly when the provider gave no error.
LEMMA AckedMeansNoError ==
  ASSUME NEW n \in Nat, NEW e \in Error
  PROVE  Resolve(n, e) = "ACKED" <=> e = "none"
BY DEF Resolve, Classify, Error

\* One step never takes an invoice out of ACKED: every write but AckInvoice
\* and ForceAcked names the state it expects, and none of them names ACKED.
LEMMA AckedStep ==
  ASSUME TypeOK, Next, NEW i \in Invoices, state[i] = "ACKED"
  PROVE  state'[i] = "ACKED"
<1> USE DEF TypeOK, InvoicesOK
<1>1. ASSUME NEW w \in Workers, Submit(w) \/ ClaimFails(w) \/ PersistFails(w)
      PROVE  state'[i] = "ACKED"
  <2>1. CASE GiveUp(w)
    BY <2>1 DEF GiveUp, Exhausted, Swappable
  <2>2. CASE Claim(w)
    <3>1. wk[w].st \in State
      BY DEF WorkersOK, WorkerStates
    <3>2. wk[w].st # "ACKED"
      BY <2>2, <3>1, ClaimableStates DEF Claim
    <3> QED
      BY <2>2, <3>2 DEF Claim, Swappable
  <2>3. CASE PersistAck(w)
    BY <2>3 DEF PersistAck
  <2>4. CASE PersistRetry(w) \/ PersistReview(w)
    BY <2>4 DEF PersistRetry, PersistReview, Swappable
  <2>5. CASE state' = state
    BY <2>5
  <2> QED
    BY <1>1, <2>1, <2>2, <2>3, <2>4, <2>5
    DEF Submit, Read, ReadAtTheInstant, ClaimSkipped, ClaimFails, CallWithoutDocument,
        Recover, LookupFails, Replay, File, Refuse, PersistRefused, PersistFails, Finish,
        invoiceVars
<1>2. ASSUME NEW j \in Invoices, People(j)
      PROVE  state'[i] = "ACKED"
  BY <1>2 DEF People, Retry, RequeueInvoice, ForceAcked
<1>3. ASSUME NEW s \in Sweeps, Watchdog(s)
      PROVE  state'[i] = "ACKED"
  BY <1>3 DEF Watchdog, ListStale, Rescue, Swappable, invoiceVars
<1>4. CASE ActivateTaxPending
  BY <1>4 DEF ActivateTaxPending
<1>5. ASSUME \/ \E w \in Workers, j \in Invoices : Fetch(w, j)
             \/ \E j \in Invoices : River(j)
             \/ Crash
      PROVE  state'[i] = "ACKED"
  BY <1>5 DEF Fetch, River, WakeUp, Elapse, RescueStuckJob, Crash, invoiceVars
<1> QED
  BY <1>1, <1>2, <1>3, <1>4, <1>5 DEF Next

\* Whatever a late worker, a sweep with an old list, the merchant or the
\* operator does, an ACKED invoice stays ACKED.
THEOREM AckedIsFinalHolds == Spec => AckedIsFinal
<1>1. TypeOK /\ [Next]_vars => [\A i \in Invoices : state[i] = "ACKED" => state'[i] = "ACKED"]_vars
  BY AckedStep
<1> QED
  BY <1>1, TypeCorrect, PTL DEF Spec, AckedIsFinal

-----------------------------------------------------------------------------
(* Numbers come from KRA.                                                  *)

Backed == AckBacked /\ AnswersBacked

\* An answer changes the called worker alone.
LEMMA AnsweredFacts ==
  ASSUME TypeOK, NEW w \in Workers, wk[w].pc # "idle",
         NEW err, NEW no, Answered(w, err, no)
  PROVE  /\ \A v \in Workers \ {w} : wk'[v] = wk[v]
         /\ wk'[w].pc = "called" /\ wk'[w].inv = wk[w].inv /\ wk'[w].doc = wk[w].doc
         /\ wk'[w].err = err /\ wk'[w].no = no
BY DEF TypeOK, WorkersOK, WorkerStates, Answered, Becomes

\* Returning changes the worker alone, which then waits for the completer.
LEMMA ReturnFacts ==
  ASSUME TypeOK, NEW w \in Workers, wk[w].pc # "idle", NEW v, Return(w, v)
  PROVE  /\ \A x \in Workers \ {w} : wk'[x] = wk[x]
         /\ wk'[w].pc = "done" /\ wk'[w].inv = wk[w].inv
BY DEF TypeOK, WorkersOK, WorkerStates, Return, Becomes, Idle

\* Answers already given stay backed, and so do numbers, when KRA registers
\* nothing, nobody gets a new answer and nothing becomes ACKED but by hand.
LEMMA StillBacked ==
  ASSUME TypeOK, Backed, UNCHANGED kra, acks' \subseteq acks,
         \A i \in Invoices : state'[i] = "ACKED" =>
            (state[i] = "ACKED" /\ kraNo'[i] = kraNo[i]) \/ kraNo'[i] = ManualNo,
         \A v \in Workers : wk'[v] = wk[v] \/ wk'[v].pc # "called"
  PROVE  Backed'
BY DEF Backed, AckBacked, AnswersBacked

\* The claim and the failed or refused persists give no number.
LEMMA BackedQuietSteps ==
  ASSUME TypeOK, Backed, NEW w \in Workers,
         \/ Read(w) \/ ReadAtTheInstant(w) \/ GiveUp(w) \/ Claim(w) \/ ClaimSkipped(w)
         \/ ClaimFails(w) \/ PersistRetry(w) \/ PersistReview(w) \/ PersistRefused(w)
         \/ PersistFails(w) \/ Finish(w)
  PROVE  Backed'
<1>1. wk[w].pc # "idle" /\ wk[w].inv \in Invoices
  BY WorksOn DEF Read, ReadAtTheInstant, GiveUp, Claim, ClaimSkipped, ClaimFails,
                 PersistRetry, PersistReview, PersistRefused, PersistFails, Finish
<1>2. \A v \in Workers : wk'[v] = wk[v] \/ wk'[v].pc # "called"
  <2>1. ASSUME NEW x, Return(w, x) PROVE \A v \in Workers : wk'[v] = wk[v] \/ wk'[v].pc # "called"
    BY <2>1, <1>1, ReturnFacts
  <2>2. ASSUME NEW r, Becomes(w, r), r.pc # "called"
        PROVE  \A v \in Workers : wk'[v] = wk[v] \/ wk'[v].pc # "called"
    BY <2>2 DEF Becomes, TypeOK, WorkersOK
  <2>3. CASE GiveUp(w) \/ Claim(w)
    BY <2>3, <2>2 DEF GiveUp, Claim, TypeOK, WorkersOK, WorkerStates
  <2>4. CASE Read(w)
    BY <2>4, <2>1, <2>2 DEF Read, TypeOK, WorkersOK, WorkerStates
  <2>5. CASE Finish(w)
    BY <2>5, <2>2 DEF Finish, Idle
  <2> QED
    BY <2>1, <2>3, <2>4, <2>5
    DEF ReadAtTheInstant, ClaimSkipped, ClaimFails, PersistRetry, PersistReview,
        PersistRefused, PersistFails
<1>3. UNCHANGED <<kra, kraNo, acks>>
  BY DEF Read, ReadAtTheInstant, GiveUp, Claim, ClaimSkipped, ClaimFails, PersistRetry,
         PersistReview, PersistRefused, PersistFails, Finish, invoiceVars
<1>4. \A i \in Invoices : state'[i] = "ACKED" => state[i] = "ACKED"
  BY <1>1 DEF Read, ReadAtTheInstant, GiveUp, Claim, ClaimSkipped, ClaimFails, PersistRetry,
         PersistReview, PersistRefused, PersistFails, Finish, invoiceVars, TypeOK, InvoicesOK
<1> QED
  BY <1>2, <1>3, <1>4, StillBacked

\* An answer without an error carries a number that KRA gave out.
LEMMA BackedCalls ==
  ASSUME TypeOK, Backed, NEW w \in Workers,
         \/ CallWithoutDocument(w) \/ Recover(w) \/ LookupFails(w)
         \/ Replay(w) \/ File(w) \/ Refuse(w)
  PROVE  Backed'
<1> DEFINE i == wk[w].inv
<1>1. wk[w].pc # "idle" /\ i \in Invoices /\ kra[i] \in Nat
  BY WorksOn DEF CallWithoutDocument, Recover, LookupFails, Replay, File, Refuse, TypeOK
<1>2. \E err \in Error, no \in Nat : Answered(w, err, no) /\ (err = "none" => no \in 1..kra'[i])
  <2>1. LookupFinds(i) => kra[i] > 0
    BY <1>1, SubmissionAssumption DEF LookupFinds, Adapters, Backed, AnswersBacked
  <2>2. CASE CallWithoutDocument(w)
    BY <2>2 DEF CallWithoutDocument, Error
  <2>3. CASE Recover(w)
    BY <2>3, <2>1, <1>1 DEF Recover, Error
  <2>4. CASE LookupFails(w)
    BY <2>4 DEF LookupFails, Error
  <2>5. CASE Replay(w)
    BY <2>5, <2>1, <1>1 DEF Replay, Replays, ReplayError, Error
  <2>6. CASE File(w)
    <3>1. kra'[i] = kra[i] + 1
      BY <2>6, <1>1 DEF File, TypeOK
    <3> QED
      BY <2>6, <3>1, <1>1 DEF File, Error
  <2>7. CASE Refuse(w)
    BY <2>7 DEF Refuse, Error
  <2> QED
    BY <2>2, <2>3, <2>4, <2>5, <2>6, <2>7
<1>3. \A j \in Invoices : kra'[j] \in Nat /\ kra[j] <= kra'[j]
  BY <1>1 DEF CallWithoutDocument, Recover, LookupFails, Replay, File, Refuse, TypeOK
<1>4. UNCHANGED <<state, kraNo>>
  BY DEF CallWithoutDocument, Recover, LookupFails, Replay, File, Refuse, invoiceVars
<1>5. \A j \in acks' : kra'[j] > 0
  <2>1. CASE File(w)
    BY <2>1, <1>1 DEF File, TypeOK, Backed, AnswersBacked
  <2>2. CASE ~File(w)
    BY <2>2 DEF CallWithoutDocument, Recover, LookupFails, Replay, Refuse, Backed, AnswersBacked
  <2> QED
    BY <2>1, <2>2
<1>6. AckBacked'
  BY <1>3, <1>4 DEF Backed, AckBacked, TypeOK
<1>7. ASSUME NEW v \in Workers, wk'[v].pc = "called", wk'[v].err = "none"
      PROVE  wk'[v].no \in 1..kra'[wk'[v].inv]
  <2>1. CASE v = w
    BY <2>1, <1>1, <1>2, <1>7, AnsweredFacts
  <2>2. CASE v # w
    <3>1. wk'[v] = wk[v]
      BY <2>2, <1>1, <1>2, AnsweredFacts
    <3>2. wk[v].inv \in Invoices /\ wk[v].no \in 1..kra[wk[v].inv]
      BY <3>1, <1>7, WorksOn DEF Backed, AnswersBacked
    <3> QED
      BY <3>1, <3>2, <1>3 DEF TypeOK
  <2> QED
    BY <2>1, <2>2
<1> QED
  BY <1>5, <1>6, <1>7 DEF Backed, AnswersBacked

\* No step leaves a number unbacked.
LEMMA BackedStep ==
  ASSUME TypeOK, Backed, [Next]_vars
  PROVE  Backed'
<1>1. ASSUME NEW w \in Workers, PersistAck(w)
      PROVE  Backed'
  <2>1. wk[w].pc # "idle" /\ wk[w].inv \in Invoices /\ wk[w].err \in Error /\ wk[w].att \in Nat
    BY <1>1, WorksOn DEF PersistAck, WorkerStates
  <2>2. wk[w].no \in 1..kra[wk[w].inv]
    BY <1>1, <2>1, AckedMeansNoError DEF PersistAck, Outcome, Backed, AnswersBacked
  <2>3. AckBacked'
    BY <1>1, <2>1, <2>2 DEF PersistAck, Backed, AckBacked, TypeOK, InvoicesOK
  <2>4. AnswersBacked'
    BY <1>1, <2>1, ReturnFacts DEF PersistAck, Backed, AnswersBacked
  <2> QED
    BY <2>3, <2>4 DEF Backed
<1>2. ASSUME NEW i \in Invoices, People(i)
      PROVE  Backed'
  BY <1>2, StillBacked
  DEF People, Retry, RequeueInvoice, ForceAcked, TypeOK, InvoicesOK
<1>3. ASSUME NEW s \in Sweeps, Watchdog(s)
      PROVE  Backed'
  BY <1>3, StillBacked DEF Watchdog, ListStale, Rescue, invoiceVars, TypeOK, InvoicesOK
<1>4. CASE ActivateTaxPending
  BY <1>4, StillBacked DEF ActivateTaxPending
<1>5. CASE Crash
  BY <1>5, StillBacked DEF Crash, Idle, invoiceVars
<1>6. ASSUME NEW w \in Workers, NEW i \in Invoices, Fetch(w, i)
      PROVE  Backed'
  BY <1>6, StillBacked DEF Fetch, Becomes, Idle, invoiceVars, TypeOK, WorkersOK
<1>7. ASSUME NEW i \in Invoices, River(i)
      PROVE  Backed'
  BY <1>7, StillBacked DEF River, WakeUp, Elapse, RescueStuckJob, invoiceVars
<1>8. CASE UNCHANGED vars
  BY <1>8, StillBacked DEF vars
<1> QED
  BY <1>1, <1>2, <1>3, <1>4, <1>5, <1>6, <1>7, <1>8, BackedQuietSteps, BackedCalls
  DEF Next, Submit

\* An ACKED invoice carries a number KRA gave out for it, or an operator's, on
\* every adapter and under every fault.
THEOREM AckBackedHolds == Spec => []AckBacked
<1>1. Init => Backed
  BY DEF Init, Backed, AckBacked, AnswersBacked, Idle
<1>2. TypeOK /\ Backed /\ [Next]_vars => Backed'
  BY BackedStep
<1>3. Backed => AckBacked
  BY DEF Backed
<1> QED
  BY <1>1, <1>2, <1>3, TypeCorrect, PTL DEF Spec

-----------------------------------------------------------------------------
(* One worker per invoice, and one bill.                                   *)

\* A worker keeps its invoice from Fetch to Finish.
LEMMA SubmitKeepsInvoice ==
  ASSUME TypeOK, NEW w \in Workers,
         Submit(w) \/ ClaimFails(w) \/ PersistFails(w), ~Finish(w)
  PROVE  /\ wk[w].pc # "idle" /\ wk[w].inv \in Invoices
         /\ wk'[w].pc # "idle" /\ wk'[w].inv = wk[w].inv
         /\ \A v \in Workers \ {w} : wk'[v] = wk[v]
         /\ UNCHANGED <<job, sweep>>
<1>1. wk[w].pc # "idle" /\ wk[w].inv \in Invoices
  BY WorksOn DEF Submit, Read, ReadAtTheInstant, GiveUp, Claim, ClaimSkipped, ClaimFails,
     CallWithoutDocument, Recover, LookupFails, Replay, File, Refuse,
     PersistAck, PersistRetry, PersistReview, PersistRefused, PersistFails
<1> DEFINE Kept == /\ wk'[w].pc # "idle" /\ wk'[w].inv = wk[w].inv
                   /\ \A v \in Workers \ {w} : wk'[v] = wk[v]
<1>2. ASSUME NEW x, Return(w, x) PROVE Kept
  BY <1>1, <1>2, ReturnFacts
<1>3. ASSUME NEW e, NEW n, Answered(w, e, n) PROVE Kept
  BY <1>1, <1>3, AnsweredFacts
<1>4. CASE GiveUp(w) \/ Claim(w)
  <2>1. CASE GiveUp(w)
    BY <1>1, <2>1 DEF GiveUp, Becomes, TypeOK, WorkersOK, WorkerStates
  <2>2. CASE Claim(w)
    BY <1>1, <2>2 DEF Claim, Becomes, TypeOK, WorkersOK, WorkerStates
  <2> QED
    BY <1>4, <2>1, <2>2
<1>5. CASE Read(w)
  BY <1>1, <1>2, <1>5 DEF Read, Becomes, TypeOK, WorkersOK, WorkerStates
<1>6. CASE \/ CallWithoutDocument(w) \/ Recover(w) \/ LookupFails(w)
           \/ Replay(w) \/ File(w) \/ Refuse(w)
  <2>1. \E e, n : Answered(w, e, n)
    BY <1>6 DEF CallWithoutDocument, Recover, LookupFails, Replay, File, Refuse
  <2>2. UNCHANGED <<job, sweep>>
    BY <1>6 DEF CallWithoutDocument, Recover, LookupFails, Replay, File, Refuse
  <2> QED
    BY <1>1, <1>3, <2>1, <2>2
<1>7. CASE \/ ReadAtTheInstant(w) \/ ClaimSkipped(w) \/ ClaimFails(w) \/ PersistAck(w)
           \/ PersistRetry(w) \/ PersistReview(w) \/ PersistRefused(w) \/ PersistFails(w)
  <2>1. \E x : Return(w, x)
    BY <1>7 DEF ReadAtTheInstant, ClaimSkipped, ClaimFails, PersistAck, PersistRetry,
                PersistReview, PersistRefused, PersistFails
  <2>2. UNCHANGED <<job, sweep>>
    BY <1>7 DEF ReadAtTheInstant, ClaimSkipped, ClaimFails, PersistAck, PersistRetry,
                PersistReview, PersistRefused, PersistFails
  <2> QED
    BY <1>1, <1>2, <2>1, <2>2
<1> QED
  BY <1>4, <1>5, <1>6, <1>7 DEF Submit

\* Unless a worker stalls, whoever works on an invoice owns its running row.
LEMMA OwnedStep ==
  ASSUME "stall" \notin Faults, TypeOK, Owned, Next
  PROVE  Owned'
<1> USE DEF Owned
<1>0. \A v \in Workers : wk[v].pc # "idle" => wk[v].inv \in Invoices /\ job[wk[v].inv].st = "running"
  <2> SUFFICES ASSUME NEW v \in Workers, wk[v].pc # "idle"
               PROVE  wk[v].inv \in Invoices /\ job[wk[v].inv].st = "running"
    OBVIOUS
  <2>1. job[wk[v].inv] = [st |-> "running", by |-> v]
    OBVIOUS
  <2>2. job[wk[v].inv].st = "running"
    BY <2>1
  <2> QED
    BY <2>2, WorksOn
<1>1. ASSUME NEW w \in Workers, Submit(w) \/ ClaimFails(w) \/ PersistFails(w), ~Finish(w)
      PROVE  Owned'
  BY <1>1, SubmitKeepsInvoice
<1>2. ASSUME NEW w \in Workers, Finish(w)
      PROVE  Owned'
  <2>1. wk'[w] = Idle /\ \A v \in Workers \ {w} : wk'[v] = wk[v]
    BY <1>2 DEF Finish, Becomes, TypeOK, WorkersOK
  <2>2. wk[w].inv \in Invoices /\ job[wk[w].inv].by = w
    BY <1>2, WorksOn DEF Finish
  <2>3. \A j \in Invoices \ {wk[w].inv} : job'[j] = job[j]
    BY <1>2, <2>2 DEF Finish, TypeOK, JobsOK
  <2>4. ASSUME NEW v \in Workers, wk'[v].pc # "idle"
        PROVE  job'[wk'[v].inv] = [st |-> "running", by |-> v]
    <3>1. v # w
      BY <2>1, <2>4 DEF Idle
    <3>2. wk[v].inv \in Invoices /\ job[wk[v].inv] = [st |-> "running", by |-> v]
      BY <2>1, <2>4, <3>1, WorksOn
    <3>3. wk[v].inv # wk[w].inv
      BY <2>2, <3>1, <3>2
    <3> QED
      BY <2>1, <2>3, <3>1, <3>2, <3>3
  <2> QED
    BY <2>4
<1>3. ASSUME NEW w \in Workers, NEW i \in Invoices, Fetch(w, i)
      PROVE  Owned'
  <2>1. \A v \in Workers : wk[v].pc # "idle" => wk[v].inv \in Invoices /\ wk[v].inv # i
    BY <1>0, <1>3 DEF Fetch
  <2> QED
    BY <1>3, <2>1 DEF Fetch, Becomes, Idle, TypeOK, WorkersOK, JobsOK
<1>4. ASSUME NEW S, Enqueue(S), UNCHANGED wk
      PROVE  Owned'
  <2>1. \A j \in Invoices : job[j].st = "running" => job'[j] = job[j]
    BY <1>4 DEF Enqueue, UniqueStates
  <2> QED
    BY <1>4, <2>1, WorksOn
<1>5. ASSUME NEW i \in Invoices, River(i)
      PROVE  Owned'
  <2>1. \A j \in Invoices : ~Quiet(j) => job'[j] = job[j]
    <3>1. CASE WakeUp(i)
      BY <1>0, <3>1 DEF WakeUp, Quiet, Holds, TypeOK, JobsOK
    <3>2. CASE Elapse(i)
      BY <3>2 DEF Elapse
    <3>3. CASE RescueStuckJob(i)
      BY <3>3 DEF RescueStuckJob, TimedOut, Fault, Quiet, TypeOK, JobsOK
    <3> QED
      BY <1>5, <3>1, <3>2, <3>3 DEF River
  <2>2. UNCHANGED wk
    BY <1>5 DEF River, WakeUp, Elapse, RescueStuckJob
  <2> QED
    BY <2>1, <2>2, WorksOn DEF Quiet, Holds
<1>6. ASSUME NEW i \in Invoices, People(i)
      PROVE  Owned'
  BY <1>4, <1>6 DEF People, Retry, RequeueInvoice, ForceAcked
<1>7. ASSUME NEW s \in Sweeps, Watchdog(s)
      PROVE  Owned'
  BY <1>4, <1>7 DEF Watchdog, ListStale, Rescue
<1>8. CASE ActivateTaxPending
  BY <1>4, <1>8 DEF ActivateTaxPending
<1>9. CASE Crash
  BY <1>9 DEF Crash, Idle
<1> QED
  BY <1>1, <1>2, <1>3, <1>5, <1>6, <1>7, <1>8, <1>9 DEF Next

\* A row has one owner, so an invoice has one worker.
LEMMA OneWorker ==
  ASSUME TypeOK, Owned
  PROVE  SingleFlight
<1> SUFFICES ASSUME NEW v \in Workers, NEW w \in Workers, NEW i \in Invoices,
                    Holds(v, i), Holds(w, i)
             PROVE  v = w
  BY DEF SingleFlight
<1>1. job[i] = [st |-> "running", by |-> v] /\ job[i] = [st |-> "running", by |-> w]
  BY DEF Holds, Owned
<1> QED
  BY <1>1

\* The unique key does its work as long as no worker outlives the timeouts: no
\* two workers are inside Submit for one invoice.
THEOREM SingleFlightHolds ==
  ASSUME "stall" \notin Faults
  PROVE  Spec => []SingleFlight
<1>1. Init => Owned
  BY DEF Init, Owned, Idle
<1>2. TypeOK /\ Owned /\ [Next]_vars => Owned'
  <2>1. CASE UNCHANGED vars
    BY <2>1 DEF vars, Owned
  <2> QED
    BY <2>1, OwnedStep
<1>3. TypeOK /\ Owned => SingleFlight
  BY OneWorker
<1> QED
  BY <1>1, <1>2, <1>3, TypeCorrect, PTL DEF Spec

Billing == BilledOnce /\ Unbilled

\* A step that bills nobody keeps the billing right if workers between claim
\* and outcome keep their invoice, or claim one that is not ACKED.
LEMMA BillsNobody ==
  ASSUME TypeOK, Billing, UNCHANGED usage,
         \A i \in Invoices : state[i] = "ACKED" => state'[i] = "ACKED",
         \A v \in Workers : wk'[v].pc \in {"claimed", "called"} =>
            \/ wk[v].pc \in {"claimed", "called"} /\ wk'[v].inv = wk[v].inv
            \/ wk'[v].inv \in Invoices /\ state[wk'[v].inv] # "ACKED"
  PROVE  Billing'
<1>1. BilledOnce'
  BY DEF Billing, BilledOnce
<1>2. ASSUME NEW v \in Workers, wk'[v].pc \in {"claimed", "called"}
      PROVE  usage'[wk'[v].inv] = 0
  <2>1. CASE wk[v].pc \in {"claimed", "called"} /\ wk'[v].inv = wk[v].inv
    BY <2>1 DEF Billing, Unbilled
  <2>2. CASE wk'[v].inv \in Invoices /\ state[wk'[v].inv] # "ACKED"
    BY <2>2 DEF Billing, BilledOnce, TypeOK, InvoicesOK
  <2> QED
    BY <1>2, <2>1, <2>2
<1> QED
  BY <1>1, <1>2 DEF Billing, Unbilled

\* A claim takes an invoice that is not ACKED.
LEMMA ClaimsOpen ==
  ASSUME TypeOK, NEW w \in Workers, GiveUp(w) \/ Claim(w)
  PROVE  state[wk[w].inv] \in {"QUEUED", "FAILED_RETRYABLE"}
<1>1. wk[w].st \in State
  BY DEF TypeOK, WorkersOK, WorkerStates
<1> QED
  BY <1>1, ClaimableStates DEF GiveUp, Claim, Exhausted, Swappable

\* No step bills an invoice twice, or one that a worker may still bill.
LEMMA BillingStep ==
  ASSUME TypeOK, Owned, Billing, Next
  PROVE  Billing'
<1>0. \A i \in Invoices : state[i] = "ACKED" => state'[i] = "ACKED"
  BY AckedStep
<1>1. ASSUME NEW w \in Workers, PersistAck(w)
      PROVE  Billing'
  <2> DEFINE i == wk[w].inv
  <2>1. wk[w].pc = "called" /\ i \in Invoices /\ usage[i] = 0
    BY <1>1, WorksOn DEF PersistAck, Billing, Unbilled
  <2>2. /\ usage' = [usage EXCEPT ![i] = 1]
        /\ state' = [state EXCEPT ![i] = "ACKED"]
    BY <1>1, <2>1 DEF PersistAck
  <2>3. BilledOnce'
    BY <2>1, <2>2 DEF Billing, BilledOnce, TypeOK, InvoicesOK
  <2>4. ASSUME NEW v \in Workers, wk'[v].pc \in {"claimed", "called"}
        PROVE  usage'[wk'[v].inv] = 0
    <3>1. v # w /\ wk'[v] = wk[v]
      BY <1>1, <2>1, <2>4, ReturnFacts DEF PersistAck
    <3>2. wk[v].inv \in Invoices /\ wk[v].inv # i
      BY <2>1, <2>4, <3>1, WorksOn, OneWorker DEF SingleFlight, Holds
    <3> QED
      BY <2>2, <2>4, <3>1, <3>2 DEF Billing, Unbilled, TypeOK, InvoicesOK
  <2> QED
    BY <2>3, <2>4 DEF Billing, Unbilled
<1>2. ASSUME NEW w \in Workers, GiveUp(w) \/ Claim(w)
      PROVE  Billing'
  <2>1. /\ wk'[w].inv = wk[w].inv /\ wk[w].inv \in Invoices
        /\ \A v \in Workers \ {w} : wk'[v] = wk[v]
    BY <1>2, SubmitKeepsInvoice DEF Submit, GiveUp, Claim, Finish
  <2>2. UNCHANGED usage
    BY <1>2 DEF GiveUp, Claim
  <2> QED
    BY <1>0, <1>2, <2>1, <2>2, ClaimsOpen, BillsNobody
<1>3. ASSUME NEW w \in Workers,
             \/ CallWithoutDocument(w) \/ Recover(w) \/ LookupFails(w)
             \/ Replay(w) \/ File(w) \/ Refuse(w)
      PROVE  Billing'
  <2>1. /\ wk'[w].inv = wk[w].inv
        /\ \A v \in Workers \ {w} : wk'[v] = wk[v]
    BY <1>3, SubmitKeepsInvoice
    DEF Submit, Finish, CallWithoutDocument, Recover, LookupFails, Replay, File, Refuse
  <2>2. wk[w].pc = "claimed" /\ UNCHANGED usage
    BY <1>3 DEF CallWithoutDocument, Recover, LookupFails, Replay, File, Refuse, invoiceVars
  <2> QED
    BY <1>0, <2>1, <2>2, BillsNobody
<1>4. ASSUME NEW w \in Workers,
             \/ Read(w) \/ ReadAtTheInstant(w) \/ ClaimSkipped(w) \/ ClaimFails(w)
             \/ PersistRetry(w) \/ PersistReview(w) \/ PersistRefused(w) \/ PersistFails(w)
             \/ Finish(w)
      PROVE  Billing'
  <2>1. UNCHANGED usage
    BY <1>4 DEF Read, ReadAtTheInstant, ClaimSkipped, ClaimFails, PersistRetry, PersistReview,
                PersistRefused, PersistFails, Finish, invoiceVars
  <2>2. \A v \in Workers : wk'[v] = wk[v] \/ wk'[v].pc \notin {"claimed", "called"}
    <3>1. CASE Read(w)
      BY <3>1, ReturnFacts DEF Read, Becomes, TypeOK, WorkersOK, WorkerStates
    <3>2. CASE Finish(w)
      BY <3>2 DEF Finish, Becomes, Idle, TypeOK, WorkersOK
    <3>3. CASE ~Read(w) /\ ~Finish(w)
      <4>1. wk[w].pc # "idle" /\ \E x : Return(w, x)
        BY <1>4, <3>3 DEF ReadAtTheInstant, ClaimSkipped, ClaimFails, PersistRetry, PersistReview,
                          PersistRefused, PersistFails
      <4> QED
        BY <4>1, ReturnFacts
    <3> QED
      BY <3>1, <3>2, <3>3
  <2> QED
    BY <1>0, <2>1, <2>2, BillsNobody
<1>5. ASSUME NEW w \in Workers, NEW i \in Invoices, Fetch(w, i)
      PROVE  Billing'
  BY <1>0, <1>5, BillsNobody DEF Fetch, Becomes, Idle, invoiceVars, TypeOK, WorkersOK
<1>6. ASSUME \/ \E i \in Invoices : River(i) \/ People(i)
             \/ \E s \in Sweeps : Watchdog(s)
             \/ ActivateTaxPending
      PROVE  Billing'
  <2>1. UNCHANGED <<usage, wk>>
    BY <1>6 DEF River, WakeUp, Elapse, RescueStuckJob, People, Retry, RequeueInvoice, ForceAcked,
                Watchdog, ListStale, Rescue, ActivateTaxPending, invoiceVars
  <2> QED
    BY <1>0, <2>1, BillsNobody
<1>7. CASE Crash
  BY <1>0, <1>7, BillsNobody DEF Crash, Idle, invoiceVars
<1> QED
  BY <1>1, <1>2, <1>3, <1>4, <1>5, <1>6, <1>7 DEF Next, Submit

\* AckInvoice has no guard, and yet an invoice is billed at most once, and
\* only when it is ACKED, as long as no worker stalls.
THEOREM BilledOnceHolds ==
  ASSUME "stall" \notin Faults
  PROVE  Spec => []BilledOnce
<1>1. Init => Owned /\ Billing
  BY DEF Init, Owned, Billing, BilledOnce, Unbilled, Idle
<1>2. TypeOK /\ Owned /\ Billing /\ [Next]_vars => Owned' /\ Billing'
  <2>1. CASE UNCHANGED vars
    BY <2>1 DEF vars, Owned, Billing, BilledOnce, Unbilled
  <2> QED
    BY <2>1, OwnedStep, BillingStep
<1>3. Billing => BilledOnce
  BY DEF Billing
<1> QED
  BY <1>1, <1>2, <1>3, TypeCorrect, PTL DEF Spec

-----------------------------------------------------------------------------
(* Submission implements Filing when no worker stalls and no operator      *)
(* forces an acknowledgement.  The step that matters is PersistAck, which  *)
(* writes ACKED whatever it finds.  It is an Acknowledge as the worker     *)
(* owns the invoice's job row from Fetch to Finish, so between its claim   *)
(* and its outcome nobody else parks, acknowledges or bills the invoice    *)
(* (Owned, Billing, InFlightPending).                                      *)

Pending == {"QUEUED", "SUBMITTED", "FAILED_RETRYABLE"}

\* A step of others leaves a worker in flight where it is, if the invoices of
\* such workers stay pending.
LEMMA FlightFrame ==
  ASSUME TypeOK, InFlightPending, UNCHANGED wk,
         \A i \in Invoices : state[i] \in Pending => state'[i] \in Pending
  PROVE  InFlightPending'
BY WorksOn DEF InFlightPending, Pending

\* A step of worker w changes at most the state of its own invoice, which no
\* other worker holds.
LEMMA FlightOfOthers ==
  ASSUME TypeOK, Owned, InFlightPending, NEW w \in Workers, wk[w].pc # "idle",
         \A i \in Invoices \ {wk[w].inv} : state'[i] = state[i],
         NEW v \in Workers \ {w}, wk'[v] = wk[v]
  PROVE  /\ wk'[v].pc \in {"fetched", "read"} => ~wk'[v].doc
         /\ wk'[v].pc = "read" => wk'[v].st \in {"QUEUED", "FAILED_RETRYABLE"}
         /\ wk'[v].pc \in {"claimed", "called"} /\ wk'[v].doc => state'[wk'[v].inv] \in Pending
         /\ wk'[v].pc = "called" /\ ~wk'[v].doc => wk'[v].err # "none"
<1>1. wk[v].pc # "idle" => wk[v].inv \in Invoices \ {wk[w].inv}
  BY WorksOn, OneWorker DEF SingleFlight, Holds
<1> QED
  BY <1>1 DEF InFlightPending, Pending

\* A worker step changes the state of its own invoice only.
LEMMA OwnInvoiceOnly ==
  ASSUME TypeOK, NEW w \in Workers, Submit(w) \/ ClaimFails(w) \/ PersistFails(w)
  PROVE  /\ wk[w].pc # "idle"
         /\ \A v \in Workers \ {w} : wk'[v] = wk[v]
         /\ \A i \in Invoices \ {wk[w].inv} : state'[i] = state[i]
<1>1. CASE Finish(w)
  BY <1>1 DEF Finish, Becomes, invoiceVars, TypeOK, WorkersOK
<1>2. CASE ~Finish(w)
  <2>1. wk[w].pc # "idle" /\ \A v \in Workers \ {w} : wk'[v] = wk[v]
    BY <1>2, SubmitKeepsInvoice
  <2>2. \A i \in Invoices \ {wk[w].inv} : state'[i] = state[i]
    BY <1>2 DEF Submit, Read, ReadAtTheInstant, GiveUp, Claim, ClaimSkipped, ClaimFails,
       CallWithoutDocument, Recover, LookupFails, Replay, File, Refuse, PersistAck, PersistRetry,
       PersistReview, PersistRefused, PersistFails, invoiceVars, TypeOK, InvoicesOK
  <2> QED
    BY <2>1, <2>2
<1> QED
  BY <1>1, <1>2

\* What worker w itself looks like after its step.
LEMMA FlightOfOne ==
  ASSUME TypeOK, InFlightPending, NEW w \in Workers,
         Submit(w) \/ ClaimFails(w) \/ PersistFails(w)
  PROVE  /\ wk'[w].pc \in {"fetched", "read"} => ~wk'[w].doc
         /\ wk'[w].pc = "read" => wk'[w].st \in {"QUEUED", "FAILED_RETRYABLE"}
         /\ wk'[w].pc \in {"claimed", "called"} /\ wk'[w].doc => state'[wk'[w].inv] \in Pending
         /\ wk'[w].pc = "called" /\ ~wk'[w].doc => wk'[w].err # "none"
<1> USE DEF InFlightPending
<1>1. CASE Finish(w)
  BY <1>1 DEF Finish, Becomes, Idle, TypeOK, WorkersOK
<1>2. CASE \/ ReadAtTheInstant(w) \/ ClaimSkipped(w) \/ ClaimFails(w) \/ PersistAck(w)
           \/ PersistRetry(w) \/ PersistReview(w) \/ PersistRefused(w) \/ PersistFails(w)
  <2>1. wk[w].pc # "idle" /\ \E x : Return(w, x)
    BY <1>2 DEF ReadAtTheInstant, ClaimSkipped, ClaimFails, PersistAck, PersistRetry,
                PersistReview, PersistRefused, PersistFails
  <2> QED
    BY <2>1, ReturnFacts
<1>3. CASE Read(w)
  <2>1. CASE \E x : Return(w, x)
    BY <1>3, <2>1, ReturnFacts DEF Read
  <2>2. CASE ~\E x : Return(w, x)
    <3>1. PICK q : q = [wk[w] EXCEPT !.pc = "read", !.st = state[wk[w].inv], !.att = attempt[wk[w].inv]]
      OBVIOUS
    <3>2. /\ wk' = [wk EXCEPT ![w] = q] /\ wk[w].pc = "fetched"
          /\ state[wk[w].inv] \in {"QUEUED", "FAILED_RETRYABLE"}
      BY <1>3, <2>2, <3>1 DEF Read, Becomes
    <3>3. wk \in [Workers -> WorkerStates]
      BY DEF TypeOK, WorkersOK
    <3>4. wk'[w] = q /\ wk[w] \in WorkerStates
      BY <3>2, <3>3
    <3>5. q.pc = "read" /\ q.st = state[wk[w].inv] /\ q.doc = wk[w].doc
      BY <3>1, <3>4 DEF WorkerStates
    <3> QED
      BY <3>2, <3>4, <3>5
  <2> QED
    BY <2>1, <2>2
<1>4. CASE GiveUp(w)
  <2>1. wk[w].pc = "read" /\ ~wk[w].doc
    BY <1>4 DEF GiveUp
  <2> QED
    BY <1>4, <2>1 DEF GiveUp, Becomes, TypeOK, WorkersOK, WorkerStates
<1>5. CASE Claim(w)
  <2>1. wk[w].inv \in Invoices /\ wk'[w].pc = "claimed" /\ wk'[w].inv = wk[w].inv
    BY <1>5, WorksOn DEF Claim, Becomes, TypeOK, WorkersOK, WorkerStates
  <2>2. state'[wk[w].inv] = "SUBMITTED"
    BY <1>5, <2>1 DEF Claim, TypeOK, InvoicesOK
  <2> QED
    BY <2>1, <2>2 DEF Pending
<1>6. CASE CallWithoutDocument(w)
  <2>1. wk[w].pc # "idle" /\ ~wk[w].doc
    BY <1>6 DEF CallWithoutDocument
  <2>2. PICK err : err # "none" /\ Answered(w, err, 0)
    BY <1>6 DEF CallWithoutDocument
  <2> QED
    BY <2>1, <2>2, AnsweredFacts
<1>7. CASE Recover(w) \/ LookupFails(w) \/ Replay(w) \/ File(w) \/ Refuse(w)
  <2>1. wk[w].pc = "claimed" /\ wk[w].doc /\ UNCHANGED state
    BY <1>7 DEF Recover, LookupFails, Replay, File, Refuse, invoiceVars
  <2>2. PICK err, no : Answered(w, err, no)
    BY <1>7 DEF Recover, LookupFails, Replay, File, Refuse
  <2>3. wk'[w].pc = "called" /\ wk'[w].inv = wk[w].inv /\ wk'[w].doc = wk[w].doc
    BY <2>1, <2>2, AnsweredFacts
  <2> QED
    BY <2>1, <2>3 DEF Pending
<1> QED
  BY <1>1, <1>2, <1>3, <1>4, <1>5, <1>6, <1>7 DEF Submit

\* Without an operator's override no step takes the invoice of a worker in
\* flight out of the pending states.
LEMMA FlightStep ==
  ASSUME "force" \notin Ops, TypeOK, Owned, InFlightPending, Next
  PROVE  InFlightPending'
<1>1. ASSUME NEW w \in Workers, Submit(w) \/ ClaimFails(w) \/ PersistFails(w)
      PROVE  InFlightPending'
  <2>1. ASSUME NEW v \in Workers
        PROVE  /\ wk'[v].pc \in {"fetched", "read"} => ~wk'[v].doc
               /\ wk'[v].pc = "read" => wk'[v].st \in {"QUEUED", "FAILED_RETRYABLE"}
               /\ wk'[v].pc \in {"claimed", "called"} /\ wk'[v].doc => state'[wk'[v].inv] \in Pending
               /\ wk'[v].pc = "called" /\ ~wk'[v].doc => wk'[v].err # "none"
    <3>1. CASE v = w
      BY <1>1, <3>1, FlightOfOne
    <3>2. CASE v # w
      BY <1>1, <3>2, OwnInvoiceOnly, FlightOfOthers
    <3> QED
      BY <3>1, <3>2
  <2> QED
    BY <2>1 DEF InFlightPending, Pending
<1>2. ASSUME NEW w \in Workers, NEW i \in Invoices, Fetch(w, i)
      PROVE  InFlightPending'
  BY <1>2 DEF Fetch, Becomes, Idle, invoiceVars, TypeOK, WorkersOK, InFlightPending
<1>3. ASSUME \/ \E i \in Invoices : River(i) \/ People(i)
             \/ \E s \in Sweeps : Watchdog(s)
             \/ ActivateTaxPending
      PROVE  InFlightPending'
  <2>1. UNCHANGED wk
    BY <1>3 DEF River, WakeUp, Elapse, RescueStuckJob, People, Retry, RequeueInvoice, ForceAcked,
                Watchdog, ListStale, Rescue, ActivateTaxPending, invoiceVars
  <2>2. \A i \in Invoices : state[i] \in Pending => state'[i] \in Pending
    <3>0. state \in [Invoices -> State]
      BY DEF TypeOK, InvoicesOK
    <3>1. CASE \E i \in Invoices : River(i)
      BY <3>1 DEF River, WakeUp, Elapse, RescueStuckJob, invoiceVars
    <3>2. CASE \E i \in Invoices : People(i)
      BY <3>0, <3>2 DEF People, Retry, RequeueInvoice, ForceAcked, Op, Pending
    <3>3. CASE \E s \in Sweeps : Watchdog(s)
      BY <3>0, <3>3 DEF Watchdog, ListStale, Rescue, invoiceVars, Pending
    <3>4. CASE ActivateTaxPending
      BY <3>4 DEF ActivateTaxPending, Pending
    <3> QED
      BY <1>3, <3>1, <3>2, <3>3, <3>4
  <2> QED
    BY <2>1, <2>2, FlightFrame
<1>4. CASE Crash
  BY <1>4 DEF Crash, Idle, InFlightPending
<1> QED
  BY <1>1, <1>2, <1>3, <1>4 DEF Next

-----------------------------------------------------------------------------
(* Steps of Submission as steps of Filing.                                 *)

phases == [i \in Invoices |-> Phase(state[i])]

\* A step inside a phase is a stutter.
LEMMA Stutters ==
  ASSUME \A i \in Invoices : Phase(state'[i]) = Phase(state[i]), UNCHANGED <<kraNo, usage>>
  PROVE  UNCHANGED F!filingVars
BY DEF F!filingVars

\* Writing one row moves one invoice's phase.
LEMMA OnePhase ==
  ASSUME TypeOK, NEW i \in Invoices, NEW s, state' = [state EXCEPT ![i] = s]
  PROVE  phases' = [phases EXCEPT ![i] = Phase(s)]
BY DEF phases, TypeOK, InvoicesOK

\* GiveUp and PersistReview are Filing's Park.
LEMMA Parks ==
  ASSUME TypeOK, NEW i \in Invoices, state[i] \in Pending,
         state' = [state EXCEPT ![i] = "NEEDS_REVIEW"], UNCHANGED <<kraNo, usage>>
  PROVE  F!Park(i)
<1>1. phases' = [phases EXCEPT ![i] = Phase("NEEDS_REVIEW")] /\ Phase("NEEDS_REVIEW") = "review"
  <2>1. phases' = [phases EXCEPT ![i] = Phase("NEEDS_REVIEW")]
    BY OnePhase
  <2>2. Phase("NEEDS_REVIEW") = "review"
    BY DEF Phase
  <2> QED
    BY <2>1, <2>2
<1>2. phases[i] = "pending"
  <2>1. phases[i] = Phase(state[i])
    BY DEF phases
  <2> QED
    BY <2>1 DEF Phase, Pending
<1> QED
  BY <1>1, <1>2 DEF F!Park, phases

\* The merchant's retry and the operator's requeue are Filing's Reopen.
LEMMA Reopens ==
  ASSUME TypeOK, NEW i \in Invoices, state[i] \in {"NEEDS_REVIEW", "FAILED_TERMINAL"},
         state' = [state EXCEPT ![i] = "QUEUED"], UNCHANGED <<kraNo, usage>>
  PROVE  F!Reopen(i)
<1>1. phases' = [phases EXCEPT ![i] = Phase("QUEUED")] /\ Phase("QUEUED") = "pending"
  <2>1. phases' = [phases EXCEPT ![i] = Phase("QUEUED")]
    BY OnePhase
  <2>2. Phase("QUEUED") = "pending"
    BY DEF Phase
  <2> QED
    BY <2>1, <2>2
<1>2. phases[i] = "review"
  <2>1. phases[i] = Phase(state[i])
    BY DEF phases
  <2> QED
    BY <2>1 DEF Phase
<1> QED
  BY <1>1, <1>2 DEF F!Reopen, phases

\* PersistAck, which has no guard of its own, is Filing's Acknowledge.
LEMMA Acknowledges ==
  ASSUME TypeOK, Backed, Unbilled, InFlightPending, NEW w \in Workers, PersistAck(w)
  PROVE  wk[w].inv \in Invoices /\ F!Acknowledge(wk[w].inv)
<1> DEFINE i == wk[w].inv
<1>1. wk[w].pc = "called" /\ i \in Invoices /\ wk[w].err \in Error /\ wk[w].att \in Nat
  BY WorksOn DEF PersistAck, WorkerStates
<1>2. wk[w].err = "none"
  BY <1>1, AckedMeansNoError DEF PersistAck, Outcome
<1>3. state[i] \in Pending
  BY <1>1, <1>2 DEF InFlightPending, Pending
<1>4. wk[w].no \in Nat \ {0} /\ usage[i] = 0
  BY <1>1, <1>2 DEF Backed, AnswersBacked, Unbilled, TypeOK
<1>5. phases' = [phases EXCEPT ![i] = "acked"] /\ phases[i] = "pending"
  <2>1. phases' = [phases EXCEPT ![i] = Phase("ACKED")]
    BY <1>1, OnePhase DEF PersistAck
  <2>2. Phase("ACKED") = "acked"
    BY DEF Phase
  <2>3. phases[i] = Phase(state[i])
    BY <1>1 DEF phases
  <2>4. Phase(state[i]) = "pending"
    BY <1>3 DEF Phase, Pending
  <2> QED
    BY <2>1, <2>2, <2>3, <2>4
<1>6. kraNo' = [kraNo EXCEPT ![i] = kraNo'[i]] /\ kraNo'[i] = wk[w].no
  BY <1>1 DEF PersistAck, TypeOK, InvoicesOK
<1>7. usage' = [usage EXCEPT ![i] = 1]
  BY <1>1, <1>4 DEF PersistAck
<1> QED
  BY <1>1, <1>4, <1>5, <1>6, <1>7 DEF F!Acknowledge, phases

\* ActivateTaxPending is Filing's Release.
LEMMA Releases ==
  ASSUME TypeOK, ActivateTaxPending
  PROVE  F!Release
<1>1. \E i \in Invoices : phases[i] = "held"
  BY DEF ActivateTaxPending, phases, Phase
<1>2. phases' = [i \in Invoices |-> IF phases[i] = "held" THEN "pending" ELSE phases[i]]
  <2>1. \A i \in Invoices : Phase(state'[i]) = IF Phase(state[i]) = "held" THEN "pending" ELSE Phase(state[i])
    BY DEF ActivateTaxPending, Phase
  <2> QED
    BY <2>1 DEF phases
<1> QED
  BY <1>1, <1>2 DEF F!Release, phases, ActivateTaxPending

\* Every step of Submission is a step of Filing or a stutter.
LEMMA FilingStep ==
  ASSUME "force" \notin Ops, TypeOK, Backed, Unbilled, InFlightPending, Next
  PROVE  F!Next \/ UNCHANGED F!filingVars
<1>1. ASSUME NEW w \in Workers, Submit(w) \/ ClaimFails(w) \/ PersistFails(w)
      PROVE  F!Next \/ UNCHANGED F!filingVars
  <2>1. CASE GiveUp(w)
    <3>1. wk[w].inv \in Invoices /\ state[wk[w].inv] \in Pending
      BY <2>1, WorksOn, ClaimsOpen DEF GiveUp, Pending
    <3> QED
      BY <2>1, <3>1, Parks DEF GiveUp, F!Next
  <2>2. CASE PersistReview(w)
    <3>1. wk[w].inv \in Invoices /\ state[wk[w].inv] \in Pending
      BY <2>2, WorksOn DEF PersistReview, Swappable, Pending
    <3> QED
      BY <2>2, <3>1, Parks DEF PersistReview, F!Next
  <2>3. CASE PersistAck(w)
    BY <2>3, Acknowledges DEF F!Next
  <2>4. CASE Claim(w)
    <3>1. \A i \in Invoices : Phase(state'[i]) = Phase(state[i])
      BY <2>4, ClaimsOpen DEF Claim, Phase, TypeOK, InvoicesOK
    <3> QED
      BY <2>4, <3>1, Stutters DEF Claim
  <2>5. CASE PersistRetry(w)
    <3>1. \A i \in Invoices : Phase(state'[i]) = Phase(state[i])
      BY <2>5 DEF PersistRetry, Swappable, Phase, TypeOK, InvoicesOK
    <3> QED
      BY <2>5, <3>1, Stutters DEF PersistRetry
  <2>6. CASE UNCHANGED <<state, kraNo, usage>>
    BY <2>6, Stutters
  <2> QED
    BY <1>1, <2>1, <2>2, <2>3, <2>4, <2>5, <2>6
    DEF Submit, Read, ReadAtTheInstant, ClaimSkipped, ClaimFails, CallWithoutDocument, Recover,
        LookupFails, Replay, File, Refuse, PersistRefused, PersistFails, Finish, invoiceVars
<1>2. ASSUME NEW i \in Invoices, People(i)
      PROVE  F!Next \/ UNCHANGED F!filingVars
  <2>1. CASE state[i] \in {"NEEDS_REVIEW", "FAILED_TERMINAL"}
    BY <1>2, <2>1, Reopens DEF People, Retry, RequeueInvoice, ForceAcked, Op, F!Next
  <2>2. CASE state[i] \notin {"NEEDS_REVIEW", "FAILED_TERMINAL"}
    <3>1. state[i] = "FAILED_RETRYABLE" /\ RequeueInvoice(i)
      BY <1>2, <2>2 DEF People, Retry, RequeueInvoice, ForceAcked, Op
    <3>2. \A j \in Invoices : Phase(state'[j]) = Phase(state[j])
      BY <3>1 DEF RequeueInvoice, Phase, TypeOK, InvoicesOK
    <3> QED
      BY <3>1, <3>2, Stutters DEF RequeueInvoice
  <2> QED
    BY <2>1, <2>2
<1>3. ASSUME NEW s \in Sweeps, Watchdog(s)
      PROVE  UNCHANGED F!filingVars
  <2>1. \A i \in Invoices : Phase(state'[i]) = Phase(state[i])
    <3>1. CASE UNCHANGED state
      BY <3>1
    <3>2. ASSUME NEW i, Swappable(i, "SUBMITTED"), state' = [state EXCEPT ![i] = "FAILED_RETRYABLE"]
          PROVE  \A j \in Invoices : Phase(state'[j]) = Phase(state[j])
      <4>1. \A j \in Invoices : state'[j] = state[j] \/ (state[j] = "SUBMITTED" /\ state'[j] = "FAILED_RETRYABLE")
        BY <3>2 DEF Swappable, TypeOK, InvoicesOK
      <4>2. Phase("SUBMITTED") = "pending" /\ Phase("FAILED_RETRYABLE") = "pending"
        BY DEF Phase
      <4> QED
        BY <4>1, <4>2
    <3> QED
      BY <1>3, <3>1, <3>2 DEF Watchdog, ListStale, Rescue, invoiceVars
  <2> QED
    BY <1>3, <2>1, Stutters DEF Watchdog, ListStale, Rescue, invoiceVars
<1>4. CASE ActivateTaxPending
  BY <1>4, Releases DEF F!Next
<1>5. ASSUME \/ \E w \in Workers, i \in Invoices : Fetch(w, i)
             \/ \E i \in Invoices : River(i)
             \/ Crash
      PROVE  UNCHANGED F!filingVars
  BY <1>5, Stutters DEF Fetch, River, WakeUp, Elapse, RescueStuckJob, Crash, invoiceVars
<1> QED
  BY <1>1, <1>2, <1>3, <1>4, <1>5 DEF Next

\* Jobs, sweeps, crashes, lost answers and retries amount to Filing: each
\* invoice is acknowledged at most once, from pending, and number and usage
\* change in that step together and never again.
THEOREM ImplementsFilingHolds ==
  ASSUME "stall" \notin Faults, "force" \notin Ops
  PROVE  Spec => ImplementsFiling
<1> DEFINE Inv == Owned /\ Billing /\ Backed /\ InFlightPending
<1>1. Init => Inv
  BY DEF Init, Owned, Billing, BilledOnce, Unbilled, Backed, AckBacked, AnswersBacked,
         InFlightPending, Idle
<1>2. TypeOK /\ Inv /\ [Next]_vars => Inv'
  <2> SUFFICES ASSUME TypeOK, Inv, [Next]_vars PROVE Inv'
    OBVIOUS
  <2>1. CASE UNCHANGED vars
    BY <2>1 DEF vars, Owned, Billing, BilledOnce, Unbilled, Backed, AckBacked, AnswersBacked,
                InFlightPending
  <2>2. CASE Next
    BY <2>2, OwnedStep, BillingStep, BackedStep, FlightStep
  <2> QED
    BY <2>1, <2>2
<1>3. TypeOK /\ Inv /\ [Next]_vars => [F!Next]_(F!filingVars)
  <2> SUFFICES ASSUME TypeOK, Inv, [Next]_vars PROVE [F!Next]_(F!filingVars)
    OBVIOUS
  <2>1. CASE UNCHANGED vars
    BY <2>1, Stutters DEF vars
  <2>2. CASE Next
    BY <2>2, FilingStep DEF Billing
  <2> QED
    BY <2>1, <2>2
<1>4. Init => F!Init
  BY DEF Init, F!Init, Phase
<1> QED
  BY <1>1, <1>2, <1>3, <1>4, TypeCorrect, PTL DEF Spec, ImplementsFiling, F!Spec
=============================================================================
