--------------------------- MODULE ReceiptsProofs ---------------------------
(* Theorems about Receipts, for every value of its constants.              *)
EXTENDS Receipts, FiniteSetTheorems, SequenceTheorems, TLAPS

\* The rows of the job table and of the notification table.
LEMMA Tables ==
  ASSUME TypeOK
  PROVE  /\ jobs \in Seq(JobRecords) /\ rows \in Seq(Statuses)
         /\ Len(jobs) \in Nat /\ Len(rows) = Len(jobs)
         /\ DOMAIN jobs = 1 .. Len(jobs) /\ DOMAIN rows = 1 .. Len(jobs)
         /\ \A j \in DOMAIN jobs : jobs[j] \in JobRecords /\ rows[j] \in Statuses
BY LenProperties DEF TypeOK, Statuses

\* A job that moves on leaves the other jobs alone.
LEMMA SetsFacts ==
  ASSUME TypeOK, NEW j \in DOMAIN jobs, NEW rec \in JobRecords, Sets(j, rec)
  PROVE  /\ jobs' \in Seq(JobRecords) /\ Len(jobs') = Len(jobs) /\ DOMAIN jobs' = DOMAIN jobs
         /\ jobs'[j] = rec
         /\ \A k \in DOMAIN jobs \ {j} : jobs'[k] = jobs[k]
BY Tables, ExceptSeq DEF Sets

\* A new job comes last.
LEMMA EnqueueFacts ==
  ASSUME TypeOK, NEW t \in Templates, Enqueue(t)
  PROVE  /\ jobs' \in Seq(JobRecords) /\ Len(jobs') = Len(jobs) + 1
         /\ DOMAIN jobs' = DOMAIN jobs \cup {Len(jobs) + 1} /\ Len(jobs) + 1 \notin DOMAIN jobs
         /\ jobs'[Len(jobs) + 1] = Job(t)
         /\ \A k \in DOMAIN jobs : jobs'[k] = jobs[k]
<1>1. Job(t) \in JobRecords
  BY ReceiptsAssumption DEF Job, JobRecords
<1>2. jobs' \in Seq(JobRecords) /\ Len(jobs') = Len(jobs) + 1
  BY <1>1, Tables, AppendProperties DEF Enqueue
<1>3. DOMAIN jobs' = 1 .. Len(jobs) + 1
  BY <1>2, LenProperties
<1> QED
  BY <1>1, <1>2, <1>3, Tables, AppendProperties DEF Enqueue

\* A job that ends or waits for its next attempt forgets number and answer.
LEMMA EndsFacts ==
  ASSUME TypeOK, NEW j \in DOMAIN jobs,
         NEW pc \in {"ready", "done", "cancelled", "discarded"}, Ends(j, pc)
  PROVE  /\ jobs' \in Seq(JobRecords) /\ Len(jobs') = Len(jobs) /\ DOMAIN jobs' = DOMAIN jobs
         /\ jobs'[j].template = jobs[j].template /\ jobs'[j].pc = pc
         /\ jobs'[j].attempt = jobs[j].attempt /\ jobs'[j].answer = "none"
         /\ \A k \in DOMAIN jobs \ {j} : jobs'[k] = jobs[k]
<1> DEFINE rec == [jobs[j] EXCEPT !.pc = pc, !.numbered = FALSE, !.answer = "none"]
<1>1. /\ rec \in JobRecords /\ rec.template = jobs[j].template /\ rec.pc = pc
      /\ rec.attempt = jobs[j].attempt /\ rec.answer = "none"
  BY Tables DEF JobRecords
<1>2. Sets(j, rec)
  BY DEF Ends
<1> HIDE DEF rec
<1> QED
  BY <1>1, <1>2, SetsFacts

\* AfterError gives a job another attempt only when it has one left.
LEMMA AfterErrorFacts ==
  ASSUME NEW j
  PROVE  /\ AfterError(j) \in {"ready", "discarded"}
         /\ AfterError(j) = "ready" => jobs[j].attempt < MaxAttempts
BY DEF AfterError

\* The rows of a template are cleared, the others kept.
LEMMA WithoutFacts ==
  ASSUME TypeOK, NEW t
  PROVE  /\ WithoutTemplate(t) \in Seq(Statuses) /\ Len(WithoutTemplate(t)) = Len(rows)
         /\ \A j \in DOMAIN jobs :
               WithoutTemplate(t)[j] = IF jobs[j].template = t THEN "none" ELSE rows[j]
<1>1. WithoutTemplate(t) \in [1 .. Len(jobs) -> Statuses]
  BY Tables DEF WithoutTemplate, Statuses
<1>2. WithoutTemplate(t) \in Seq(Statuses) /\ Len(WithoutTemplate(t)) = Len(jobs)
  BY <1>1, Tables
<1> QED
  BY <1>2, Tables DEF WithoutTemplate

-----------------------------------------------------------------------------
(* Types.                                                                  *)

\* A transition of one job, with what it does to the job's own row.
Moves(j, pc, answer) ==
    /\ jobs' \in Seq(JobRecords) /\ Len(jobs') = Len(jobs) /\ DOMAIN jobs' = DOMAIN jobs
    /\ jobs'[j].template = jobs[j].template /\ jobs'[j].pc = pc /\ jobs'[j].answer = answer
    /\ \A k \in DOMAIN jobs \ {j} : jobs'[k] = jobs[k]

\* The first transaction, once it found something to send.
LEMMA InsertMoves ==
  ASSUME TypeOK, NEW j \in DOMAIN jobs, jobs[j].pc = "ready",
         Sets(j, [jobs[j] EXCEPT !.pc = "insert", !.attempt = @ + 1, !.numbered = (inv = "ACKED")])
  PROVE  Moves(j, "insert", jobs[j].answer)
<1> DEFINE rec == [jobs[j] EXCEPT !.pc = "insert", !.attempt = @ + 1, !.numbered = (inv = "ACKED")]
<1>0. jobs[j] \in JobRecords /\ jobs[j].attempt \in 0 .. MaxAttempts /\ jobs[j].attempt < MaxAttempts
  BY Tables DEF TypeOK, JobOK, JobRecords
<1>1. jobs[j].attempt + 1 \in 0 .. MaxAttempts
  BY <1>0, ReceiptsAssumption
<1>b. (inv = "ACKED") \in BOOLEAN
  OBVIOUS
<1>2. rec \in JobRecords /\ rec.template = jobs[j].template /\ rec.pc = "insert" /\ rec.answer = jobs[j].answer
  BY <1>0, <1>1, <1>b DEF JobRecords
<1> HIDE DEF rec
<1> QED
  BY <1>2, SetsFacts DEF Moves, rec

\* The row is written and the message goes out.
LEMMA SendMoves ==
  ASSUME TypeOK, NEW j \in DOMAIN jobs, Sets(j, [jobs[j] EXCEPT !.pc = "send"])
  PROVE  Moves(j, "send", jobs[j].answer)
<1> DEFINE rec == [jobs[j] EXCEPT !.pc = "send"]
<1>1. rec \in JobRecords /\ rec.template = jobs[j].template /\ rec.pc = "send" /\ rec.answer = jobs[j].answer
  BY Tables DEF JobRecords
<1> HIDE DEF rec
<1> QED
  BY <1>1, SetsFacts DEF Moves, rec

\* The gateway has answered.
LEMMA MarkMoves ==
  ASSUME TypeOK, NEW j \in DOMAIN jobs, NEW answer \in {"ok", "permanent", "transient"},
         Sets(j, [jobs[j] EXCEPT !.pc = "mark", !.answer = answer])
  PROVE  Moves(j, "mark", answer)
<1> DEFINE rec == [jobs[j] EXCEPT !.pc = "mark", !.answer = answer]
<1>1. rec \in JobRecords /\ rec.template = jobs[j].template /\ rec.pc = "mark" /\ rec.answer = answer
  BY Tables DEF JobRecords
<1> HIDE DEF rec
<1> QED
  BY <1>1, SetsFacts DEF Moves, rec

\* The job ends, or waits for its next attempt.
LEMMA EndMoves ==
  ASSUME TypeOK, NEW j \in DOMAIN jobs,
         NEW pc \in {"ready", "done", "cancelled", "discarded"}, Ends(j, pc)
  PROVE  Moves(j, pc, "none")
BY EndsFacts DEF Moves

\* What each step of a job does to the job and to its row.
JobSteps(j) ==
    \/ /\ jobs[j].pc = "ready" /\ UNCHANGED <<rows, gateway, usage, crossed, faults>>
       /\ \E pc \in {"done", "cancelled"} : Ends(j, pc) /\ Moves(j, pc, "none")
    \/ /\ jobs[j].pc = "ready" /\ UNCHANGED <<rows, gateway, usage, crossed, faults>>
       /\ Moves(j, "insert", jobs[j].answer)
    \/ /\ CreateNotification(j) /\ Moves(j, "send", jobs[j].answer)
    \/ /\ jobs[j].pc = "send" /\ UNCHANGED <<rows, usage, crossed, faults>>
       /\ \/ Moves(j, "mark", "ok") /\ (Accepted(j, "ok") \/ Misread(j))
          \/ \E a \in {"permanent", "transient"} : Moves(j, "mark", a) /\ UNCHANGED gateway
          \/ Moves(j, "mark", "transient") /\ Accepted(j, "transient")
    \/ /\ MarkNotificationSent(j) /\ Moves(j, "done", "none")
    \/ /\ MarkNotificationFailed(j)
       /\ \/ Moves(j, "ready", "none") /\ jobs'[j].attempt < MaxAttempts
          \/ Moves(j, "cancelled", "none") \/ Moves(j, "discarded", "none")
    \/ /\ jobs[j].pc \in {"insert", "send", "mark"} /\ UNCHANGED <<rows, gateway, usage, crossed>>
       /\ faults' = faults + 1 /\ faults < MaxFaults
       /\ \/ Moves(j, "ready", "none") /\ jobs'[j].attempt < MaxAttempts
          \/ Moves(j, "discarded", "none")

\* These are all the steps of a job.
LEMMA StepsOfJobs ==
  ASSUME TypeOK, NEW j \in DOMAIN jobs, Step(j) \/ MarkFails(j) \/ Crash(j)
  PROVE  JobSteps(j) /\ UNCHANGED <<inv, phone, resends>>
<1>1. CASE SendReceipt(j)
  BY <1>1, EndMoves, InsertMoves DEF SendReceipt, JobSteps
<1>2. CASE CreateNotification(j)
  BY <1>2, SendMoves DEF CreateNotification, JobSteps
<1>3. CASE SendSMS(j)
  <2>1. PICK answer \in {"ok", "permanent", "transient"} :
          /\ jobs[j].pc = "send"
          /\ Sets(j, [jobs[j] EXCEPT !.pc = "mark", !.answer = answer])
          /\ \/ answer = "ok" /\ (Accepted(j, answer) \/ Misread(j))
             \/ answer # "ok" /\ UNCHANGED gateway
             \/ answer = "transient" /\ "lost" \in Faults /\ Accepted(j, answer)
          /\ UNCHANGED <<inv, phone, rows, usage, crossed, resends, faults>>
    BY <1>3 DEF SendSMS
  <2>2. Moves(j, "mark", answer)
    BY <2>1, MarkMoves
  <2> QED
    BY <2>1, <2>2 DEF JobSteps
<1>4. CASE MarkNotificationSent(j)
  BY <1>4, EndMoves DEF MarkNotificationSent, JobSteps
<1>5. ASSUME NEW pc, Ends(j, pc), pc = AfterError(j)
      PROVE  \/ Moves(j, "ready", "none") /\ jobs'[j].attempt < MaxAttempts
             \/ Moves(j, "discarded", "none")
  BY <1>5, AfterErrorFacts, EndsFacts DEF Moves
<1>6. CASE MarkNotificationFailed(j)
  <2>1. CASE jobs[j].answer = "permanent"
    BY <1>6, <2>1, EndMoves DEF MarkNotificationFailed, JobSteps
  <2>2. CASE jobs[j].answer # "permanent"
    BY <1>5, <1>6, <2>2 DEF MarkNotificationFailed, JobSteps
  <2> QED
    BY <2>1, <2>2
<1>7. CASE MarkFails(j)
  BY <1>5, <1>7 DEF MarkFails, Strikes, JobSteps
<1>8. CASE Crash(j)
  BY <1>5, <1>8 DEF Crash, Strikes, JobSteps
<1> QED
  BY <1>1, <1>2, <1>3, <1>4, <1>6, <1>7, <1>8 DEF Step

\* Recording a result changes the job's own row, if it is still there.
LEMMA MarkedFacts ==
  ASSUME TypeOK, NEW j \in DOMAIN jobs, NEW x \in Statuses, rows' = Marked(j, x)
  PROVE  /\ rows' \in Seq(Statuses) /\ Len(rows') = Len(rows)
         /\ rows'[j] = IF rows[j] = "queued" THEN x ELSE rows[j]
         /\ \A k \in DOMAIN jobs \ {j} : rows'[k] = rows[k]
BY Tables, ExceptSeq DEF Marked

\* A step of a job keeps the tables well formed.
LEMMA JobTypes ==
  ASSUME TypeOK, NEW j \in DOMAIN jobs, JobSteps(j), UNCHANGED <<inv, phone, resends>>
  PROVE  TypeOK'
<1> USE DEF Moves
<1>1. /\ jobs' \in Seq(JobRecords) /\ Len(jobs') = Len(jobs) /\ DOMAIN jobs' = DOMAIN jobs
      /\ \A k \in DOMAIN jobs \ {j} : jobs'[k] = jobs[k]
  BY DEF JobSteps
<1>2. /\ rows' \in Seq(Statuses) /\ Len(rows') = Len(rows)
      /\ \A k \in DOMAIN jobs \ {j} : rows'[k] = rows[k]
  <2>0. {"queued", "sent", "failed"} \subseteq Statuses
    BY DEF Statuses
  <2>1. CASE CreateNotification(j)
    BY <2>0, <2>1, Tables, ExceptSeq DEF CreateNotification
  <2>2. CASE MarkNotificationSent(j) \/ MarkNotificationFailed(j)
    BY <2>0, <2>2, MarkedFacts DEF MarkNotificationSent, MarkNotificationFailed
  <2>3. CASE UNCHANGED rows
    BY <2>3, Tables
  <2> QED
    BY <2>1, <2>2, <2>3 DEF JobSteps
<1>3. JobOK(j)'
  <2>1. JobOK(j) /\ jobs[j] \in JobRecords
    BY Tables DEF TypeOK
  <2>2. CASE CreateNotification(j) /\ Moves(j, "send", jobs[j].answer)
    <3>1. rows'[j] = "queued"
      BY <2>2, Tables, ExceptSeq DEF CreateNotification, Statuses
    <3> QED
      BY <2>2, <3>1 DEF JobOK
  <2>3. CASE jobs[j].pc \in {"ready", "send"} /\ UNCHANGED rows
    BY <2>1, <2>3 DEF JobSteps, JobOK, CreateNotification, MarkNotificationSent, MarkNotificationFailed
  <2>4. CASE jobs'[j].pc \in {"ready", "done", "cancelled", "discarded"}
    BY <2>1, <2>4 DEF JobSteps, JobOK, CreateNotification, MarkNotificationSent
  <2> QED
    BY <2>2, <2>3, <2>4 DEF JobSteps
<1>4. \A k \in DOMAIN jobs' : JobOK(k)'
  BY <1>1, <1>2, <1>3 DEF TypeOK, JobOK
<1>5. /\ sms' \in [Templates -> Nat] /\ lost' \in [Templates -> Nat]
      /\ misread' \in [Templates -> Nat] /\ told' \subseteq BOOLEAN
  <2>1. jobs[j].template \in Templates /\ jobs[j].numbered \in BOOLEAN
    BY Tables DEF JobRecords
  <2>2. /\ sms \in [Templates -> Nat] /\ lost \in [Templates -> Nat]
        /\ misread \in [Templates -> Nat] /\ told \subseteq BOOLEAN
    BY DEF TypeOK
  <2>3. ASSUME NEW a, Accepted(j, a)
        PROVE  /\ sms' \in [Templates -> Nat] /\ lost' \in [Templates -> Nat]
               /\ misread' \in [Templates -> Nat] /\ told' \subseteq BOOLEAN
    <3>1. sms' \in [Templates -> Nat]
      BY <2>1, <2>2, <2>3 DEF Accepted
    <3>2. lost' \in [Templates -> Nat]
      BY <2>1, <2>2, <2>3 DEF Accepted
    <3>3. misread' \in [Templates -> Nat] /\ told' \subseteq BOOLEAN
      BY <2>1, <2>2, <2>3 DEF Accepted
    <3> QED
      BY <3>1, <3>2, <3>3
  <2>4. CASE Misread(j)
    BY <2>1, <2>2, <2>4 DEF Misread
  <2>5. CASE UNCHANGED gateway
    BY <2>2, <2>5 DEF gateway
  <2> QED
    BY <2>3, <2>4, <2>5 DEF JobSteps, CreateNotification, MarkNotificationSent, MarkNotificationFailed
<1>6. usage' \in Nat /\ crossed' \subseteq Templates /\ faults' \in 0 .. MaxFaults
  <2>1. jobs[j].template \in Templates
    BY Tables DEF JobRecords
  <2>2. usage \in Nat /\ crossed \subseteq Templates /\ faults \in 0 .. MaxFaults /\ MaxFaults \in Nat
    BY ReceiptsAssumption DEF TypeOK
  <2>3. usage' = usage \/ usage' = usage + 1
    BY DEF JobSteps, CreateNotification, MarkNotificationSent, MarkNotificationFailed
  <2>4. crossed' = crossed \/ crossed' = crossed \cup {jobs[j].template}
    BY DEF JobSteps, CreateNotification, MarkNotificationSent, MarkNotificationFailed
  <2>5. faults' = faults \/ (faults' = faults + 1 /\ faults < MaxFaults)
    BY DEF JobSteps, CreateNotification, MarkNotificationSent, MarkNotificationFailed
  <2> QED
    BY <2>1, <2>2, <2>3, <2>4, <2>5
<1> QED
  BY <1>1, <1>2, <1>4, <1>5, <1>6, Tables DEF TypeOK, Statuses

\* A new job comes with no row of its own.
LEMMA NewJobTypes ==
  ASSUME TypeOK, AckInvoice \/ resendInvoice
  PROVE  TypeOK'
<1>1. PICK old \in Seq(Statuses) :
         /\ Len(old) = Len(rows) /\ rows' = Append(old, "none")
         /\ \A j \in DOMAIN jobs : old[j] = rows[j] \/ (old[j] = "none" /\ resends' > 0)
  <2>1. CASE AckInvoice
    BY <2>1, Tables DEF AckInvoice
  <2>2. CASE resendInvoice
    <3>1. resends' > 0 /\ rows' = Append(WithoutTemplate("receipt_acked"), "none")
      BY <2>2 DEF resendInvoice, TypeOK
    <3> QED
      BY <3>1, WithoutFacts
  <2> QED
    BY <2>1, <2>2
<1>2. /\ rows' \in Seq(Statuses) /\ Len(rows') = Len(rows) + 1
      /\ \A j \in DOMAIN jobs : rows'[j] = rows[j] \/ (rows'[j] = "none" /\ resends' > 0)
      /\ rows'[Len(jobs) + 1] = "none"
  <2>1. "none" \in Statuses
    BY DEF Statuses
  <2> QED
    BY <1>1, <2>1, Tables, AppendProperties
<1>3. /\ jobs' \in Seq(JobRecords) /\ Len(jobs') = Len(jobs) + 1
      /\ DOMAIN jobs' = DOMAIN jobs \cup {Len(jobs) + 1}
      /\ jobs'[Len(jobs) + 1] = Job("receipt_acked")
      /\ \A k \in DOMAIN jobs : jobs'[k] = jobs[k]
  BY EnqueueFacts DEF AckInvoice, resendInvoice, Templates
<1>4. resends' \in 0 .. MaxResends /\ resends' >= resends
  BY ReceiptsAssumption DEF AckInvoice, resendInvoice, TypeOK
<1>5. ASSUME NEW k \in DOMAIN jobs' PROVE JobOK(k)'
  <2>1. CASE k \in DOMAIN jobs
    <3>1. JobOK(k) /\ resends \in 0 .. MaxResends
      BY <2>1 DEF TypeOK
    <3>2. resends > 0 => resends' > 0
      BY <1>4, <3>1, ReceiptsAssumption
    <3> QED
      BY <2>1, <1>2, <1>3, <3>1, <3>2 DEF JobOK
  <2>2. CASE k = Len(jobs) + 1
    BY <2>2, <1>3, ReceiptsAssumption DEF JobOK, Job
  <2> QED
    BY <2>1, <2>2, <1>3
<1>6. /\ inv' \in {"QUEUED", "ACKED", "NEEDS_REVIEW"} /\ phone' \in BOOLEAN
      /\ UNCHANGED <<sms, lost, misread, told, usage, crossed, faults>>
  BY DEF AckInvoice, resendInvoice, gateway, TypeOK
<1> QED
  BY <1>2, <1>3, <1>4, <1>5, <1>6, Tables DEF TypeOK, Statuses

\* Whatever crashes, fails or is resent, a job that may run has an attempt
\* left, and a job about to record an answer still has its row or lost it to a
\* resend.
THEOREM TypeCorrect == Spec => []TypeOK
<1>1. Init => TypeOK
  <2> SUFFICES ASSUME Init PROVE TypeOK
    OBVIOUS
  <2>1. Job("receipt_pending") \in JobRecords
    BY ReceiptsAssumption DEF Job, JobRecords, Templates
  <2>2. /\ jobs \in Seq(JobRecords) /\ rows \in Seq(Statuses) /\ Len(rows) = Len(jobs)
        /\ DOMAIN jobs = {1} /\ jobs[1] = Job("receipt_pending")
    BY <2>1 DEF Init, Statuses
  <2>3. JobOK(1)
    BY <2>2, ReceiptsAssumption DEF JobOK, Job
  <2> QED
    BY <2>2, <2>3, ReceiptsAssumption DEF Init, TypeOK, Statuses
<1>2. TypeOK /\ [Next]_vars => TypeOK'
  <2> SUFFICES ASSUME TypeOK, [Next]_vars PROVE TypeOK'
    OBVIOUS
  <2>1. CASE ParkInvoice
    BY <2>1 DEF ParkInvoice, gateway, TypeOK, JobOK
  <2>2. CASE UNCHANGED vars
    BY <2>2 DEF vars, gateway, TypeOK, JobOK
  <2> QED
    BY <2>1, <2>2, NewJobTypes, StepsOfJobs, JobTypes DEF Next
<1> QED
  BY <1>1, <1>2, PTL DEF Spec

-----------------------------------------------------------------------------
(* What the merchant is charged.                                           *)

\* A set of jobs is finite, and its size is a number.
LEMMA JobSetsFinite ==
  ASSUME TypeOK, NEW S \in SUBSET DOMAIN jobs
  PROVE  IsFiniteSet(S) /\ Cardinality(S) \in Nat
<1>1. IsFiniteSet(DOMAIN jobs)
  BY Tables, FS_Interval
<1> QED
  BY <1>1, FS_Subset, FS_CardinalityType

\* The counters of the gateway are numbers.
LEMMA CountersType ==
  ASSUME TypeOK
  PROVE  /\ Accounted \in Nat /\ LostAnswers \in Nat /\ Misreads \in Nat /\ usage \in Nat
         /\ Owed \in SUBSET DOMAIN jobs /\ Cardinality(Owed) \in Nat
<1>1. Owed \in SUBSET DOMAIN jobs
  BY DEF Owed
<1> QED
  BY <1>1, JobSetsFinite DEF TypeOK, Accounted, LostAnswers, Misreads, Templates

\* A message the gateway accepted and answered for counts once, one whose answer
\* was lost counts on both sides.
LEMMA AcceptedCounts ==
  ASSUME TypeOK, NEW j \in DOMAIN jobs, NEW a \in {"ok", "transient"}, Accepted(j, a)
  PROVE  /\ Accounted' = Accounted + 1 /\ Misreads' = Misreads
         /\ LostAnswers' = IF a = "ok" THEN LostAnswers ELSE LostAnswers + 1
<1>1. jobs[j].template \in {"receipt_pending", "receipt_acked"}
  BY Tables DEF JobRecords, Templates
<1>2. /\ sms \in [Templates -> Nat] /\ lost \in [Templates -> Nat]
      /\ sms' = [sms EXCEPT ![jobs[j].template] = @ + 1]
      /\ lost' = IF a = "ok" THEN lost ELSE [lost EXCEPT ![jobs[j].template] = @ + 1]
      /\ misread' = misread
  BY DEF Accepted, TypeOK
<1>3. CASE jobs[j].template = "receipt_pending"
  BY <1>2, <1>3 DEF Accounted, LostAnswers, Misreads, Templates
<1>4. CASE jobs[j].template = "receipt_acked"
  BY <1>2, <1>4 DEF Accounted, LostAnswers, Misreads, Templates
<1> QED
  BY <1>1, <1>3, <1>4

\* A refusal taken for success counts as one.
LEMMA MisreadCounts ==
  ASSUME TypeOK, NEW j \in DOMAIN jobs, Misread(j)
  PROVE  Misreads' = Misreads + 1 /\ Accounted' = Accounted /\ LostAnswers' = LostAnswers
<1>1. jobs[j].template \in {"receipt_pending", "receipt_acked"}
  BY Tables DEF JobRecords, Templates
<1>2. /\ misread \in [Templates -> Nat]
      /\ misread' = [misread EXCEPT ![jobs[j].template] = @ + 1]
      /\ UNCHANGED <<sms, lost>>
  BY DEF Misread, TypeOK
<1>3. CASE jobs[j].template = "receipt_pending"
  BY <1>2, <1>3 DEF Accounted, LostAnswers, Misreads, Templates
<1>4. CASE jobs[j].template = "receipt_acked"
  BY <1>2, <1>4 DEF Accounted, LostAnswers, Misreads, Templates
<1> QED
  BY <1>1, <1>3, <1>4

\* A step of a job keeps charges and accepted messages together.
LEMMA JobCharged ==
  ASSUME TypeOK, Charged, NEW j \in DOMAIN jobs, JobSteps(j)
  PROVE  Charged'
<1> USE DEF Moves
<1>0. /\ Accounted \in Nat /\ LostAnswers \in Nat /\ Misreads \in Nat /\ usage \in Nat /\ faults \in Nat
      /\ IsFiniteSet(Owed) /\ Cardinality(Owed) \in Nat
  BY CountersType, JobSetsFinite, ReceiptsAssumption DEF TypeOK
<1>1. /\ DOMAIN jobs' = DOMAIN jobs
      /\ \A k \in DOMAIN jobs \ {j} : jobs'[k] = jobs[k]
  BY DEF JobSteps
<1>2. CASE /\ jobs'[j].pc = "mark" /\ jobs'[j].answer = "ok" /\ jobs[j].pc = "send"
           /\ Accepted(j, "ok") \/ Misread(j)
           /\ UNCHANGED <<usage, faults>>
  <2>1. Owed' = Owed \cup {j} /\ j \notin Owed
    BY <1>1, <1>2 DEF Owed
  <2>2. Cardinality(Owed') = Cardinality(Owed) + 1
    BY <1>0, <2>1, FS_AddElement
  <2>3. Accounted' + Misreads' = Accounted + Misreads + 1 /\ LostAnswers' = LostAnswers
    BY <1>0, <1>2, AcceptedCounts, MisreadCounts
  <2> QED
    BY <1>0, <1>2, <2>2, <2>3 DEF Charged
<1>3. CASE /\ jobs'[j].pc = "mark" /\ jobs'[j].answer = "transient" /\ jobs[j].pc = "send"
           /\ Accepted(j, "transient") /\ UNCHANGED <<usage, faults>>
  <2>1. Owed' = Owed
    BY <1>1, <1>3 DEF Owed
  <2>2. Accounted' = Accounted + 1 /\ Misreads' = Misreads /\ LostAnswers' = LostAnswers + 1
    BY <1>3, AcceptedCounts
  <2> QED
    BY <1>0, <1>3, <2>1, <2>2 DEF Charged
<1>4. CASE MarkNotificationSent(j) /\ jobs'[j].pc = "done"
  <2>1. Owed' = Owed \ {j} /\ j \in Owed
    BY <1>1, <1>4 DEF Owed, MarkNotificationSent
  <2>2. Cardinality(Owed') = Cardinality(Owed) - 1
    BY <1>0, <2>1, FS_RemoveElement
  <2>3. /\ usage' = usage + 1 /\ UNCHANGED faults
        /\ Accounted' = Accounted /\ LostAnswers' = LostAnswers /\ Misreads' = Misreads
    BY <1>4 DEF MarkNotificationSent, gateway, Accounted, LostAnswers, Misreads
  <2> QED
    BY <1>0, <2>2, <2>3 DEF Charged
<1>5. CASE Owed' = Owed /\ UNCHANGED <<gateway, usage, faults>>
  BY <1>5 DEF Charged, gateway, Accounted, LostAnswers, Misreads
<1>6. CASE /\ jobs'[j].pc \in {"ready", "discarded"} /\ UNCHANGED <<gateway, usage>>
           /\ faults' = faults + 1
  <2>1. Owed' = Owed \ {j}
    BY <1>1, <1>6 DEF Owed
  <2>2. Cardinality(Owed') \in Nat /\ Cardinality(Owed') <= Cardinality(Owed)
    BY <1>0, <2>1, FS_Subset, FS_CardinalityType
  <2>3. Accounted' = Accounted /\ LostAnswers' = LostAnswers /\ Misreads' = Misreads
    BY <1>6 DEF gateway, Accounted, LostAnswers, Misreads
  <2> QED
    BY <1>0, <1>6, <2>2, <2>3 DEF Charged
<1>7. ASSUME \/ jobs[j].pc \in {"ready", "insert"}
             \/ jobs[j].pc = "send"
             \/ jobs[j].pc = "mark" /\ jobs[j].answer # "ok",
             ~(jobs'[j].pc = "mark" /\ jobs'[j].answer = "ok")
      PROVE  Owed' = Owed
  BY <1>1, <1>7 DEF Owed
<1> QED
  BY <1>2, <1>3, <1>4, <1>5, <1>6, <1>7
  DEF JobSteps, CreateNotification, MarkNotificationFailed

\* The invariant behind UsageIsSent.
LEMMA ChargedHolds == Spec => []Charged
<1>1. Init => Charged
  <2> SUFFICES ASSUME Init PROVE Charged
    OBVIOUS
  <2>1. Owed = {}
    BY DEF Init, Owed, Job
  <2> QED
    BY <2>1, FS_EmptySet DEF Init, Charged, Accounted, LostAnswers, Misreads, Templates
<1>2. TypeOK /\ Charged /\ [Next]_vars => Charged'
  <2> SUFFICES ASSUME TypeOK, Charged, [Next]_vars PROVE Charged'
    OBVIOUS
  <2>1. CASE AckInvoice \/ resendInvoice
    <3>1. \A k \in DOMAIN jobs' : k \notin DOMAIN jobs => jobs'[k] = Job("receipt_acked")
      BY <2>1, EnqueueFacts DEF AckInvoice, resendInvoice, Templates
    <3>2. DOMAIN jobs \subseteq DOMAIN jobs' /\ \A k \in DOMAIN jobs : jobs'[k] = jobs[k]
      BY <2>1, EnqueueFacts DEF AckInvoice, resendInvoice, Templates
    <3>3. Owed' = Owed
      BY <3>1, <3>2 DEF Owed, Job
    <3> QED
      BY <2>1, <3>3 DEF AckInvoice, resendInvoice, gateway, Charged, Accounted, LostAnswers, Misreads
  <2>2. CASE ParkInvoice \/ UNCHANGED vars
    BY <2>2 DEF ParkInvoice, vars, gateway, Charged, Accounted, LostAnswers, Misreads, Owed
  <2> QED
    BY <2>1, <2>2, StepsOfJobs, JobCharged DEF Next
<1> QED
  BY <1>1, <1>2, TypeCorrect, PTL DEF Spec

\* The merchant is charged for no message but those the gateway accepted and
\* those whose refusal was taken for success, whatever crashes or fails; and
\* when nothing failed and no result is outstanding, for every one of them it
\* answered for.
THEOREM UsageIsSentHolds == Spec => []UsageIsSent
<1>1. TypeOK /\ Charged => UsageIsSent
  <2> SUFFICES ASSUME TypeOK, Charged PROVE UsageIsSent
    OBVIOUS
  <2>1. /\ Accounted \in Nat /\ LostAnswers \in Nat /\ Misreads \in Nat /\ usage \in Nat
        /\ Cardinality(Owed) \in Nat
    BY CountersType
  <2>2. usage + LostAnswers =< Accounted + Misreads
    BY <2>1 DEF Charged
  <2>3. ASSUME faults = 0, \A j \in DOMAIN jobs : jobs[j].pc # "mark"
        PROVE  usage + LostAnswers = Accounted + Misreads
    <3>1. Owed = {}
      BY <2>3 DEF Owed
    <3>2. Cardinality(Owed) = 0
      BY <3>1, FS_EmptySet
    <3> QED
      BY <2>1, <2>3, <3>2 DEF Charged
  <2> QED
    BY <2>2, <2>3 DEF UsageIsSent
<1> QED
  BY <1>1, TypeCorrect, ChargedHolds, PTL

-----------------------------------------------------------------------------
(* How often a message goes out.                                           *)

\* The terms of a template's budget are numbers.
LEMMA BudgetType ==
  ASSUME TypeOK, NEW t \in Templates
  PROVE  /\ sms[t] \in Nat /\ lost[t] \in Nat /\ Resent(t) \in Nat
         /\ IsFiniteSet(Sending(t)) /\ Cardinality(Sending(t)) \in Nat
<1>1. Sending(t) \in SUBSET DOMAIN jobs
  BY DEF Sending
<1> QED
  BY <1>1, JobSetsFinite, ReceiptsAssumption DEF TypeOK, Resent

\* A budget is kept by a step that sends nothing, lets no new message on its
\* way and keeps the rows that hold others back.
LEMMA BudgetKept ==
  ASSUME TypeOK, NEW t \in Templates, Budgeted(t), UNCHANGED resends,
         sms'[t] = sms[t], lost'[t] = lost[t],
         Sending(t)' \subseteq Sending(t), Live(t) => Live(t)'
  PROVE  Budgeted(t)'
<1>1. Cardinality(Sending(t)') \in Nat /\ Cardinality(Sending(t)') <= Cardinality(Sending(t))
  BY BudgetType, FS_Subset, FS_CardinalityType
<1> QED
  BY <1>1, BudgetType DEF Budgeted, Resent

\* A step of a job keeps the budget of every template: it sends only after it
\* wrote a row that keeps the others from sending.
LEMMA JobBudget ==
  ASSUME TypeOK, NEW t \in Templates, t \notin crossed', Budgeted(t), NEW j \in DOMAIN jobs,
         JobSteps(j), UNCHANGED resends
  PROVE  Budgeted(t)'
<1> USE DEF Moves
<1>0. /\ DOMAIN jobs' = DOMAIN jobs /\ jobs'[j].template = jobs[j].template
      /\ \A k \in DOMAIN jobs \ {j} : jobs'[k] = jobs[k]
      /\ jobs[j] \in JobRecords /\ jobs[j].template \in Templates
      /\ JobOK(j) /\ rows[j] \in Statuses
  BY Tables DEF JobSteps, JobRecords, TypeOK
<1>t. /\ sms[t] \in Nat /\ lost[t] \in Nat /\ Resent(t) \in Nat /\ Resent(t)' = Resent(t)
      /\ IsFiniteSet(Sending(t)) /\ Cardinality(Sending(t)) \in Nat
  BY BudgetType DEF Resent
<1>1. CASE UNCHANGED <<rows, gateway>> /\ jobs'[j].pc \in {"done", "cancelled", "discarded", "ready", "insert"}
  <2>1. Sending(t)' \subseteq Sending(t)
    BY <1>0, <1>1 DEF Sending
  <2>2. Live(t) => Live(t)'
    BY <1>0, <1>1 DEF Live
  <2> QED
    BY <1>1, <2>1, <2>2, BudgetKept DEF gateway
<1>2. CASE CreateNotification(j) /\ jobs'[j].pc = "send"
  <2>0. /\ rows'[j] = "queued" /\ \A k \in DOMAIN jobs \ {j} : rows'[k] = rows[k]
        /\ jobs[j].pc = "insert" /\ UNCHANGED <<sms, lost>>
        /\ Exists(jobs[j].template) => jobs[j].template \in crossed'
    BY <1>2, Tables, ExceptSeq DEF CreateNotification, gateway, Statuses
  <2>1. CASE t = jobs[j].template
    <3>1. ~Live(t)
      BY <2>0, <2>1, Tables DEF Exists, Live
    <3>2. Live(t)'
      BY <1>0, <1>2, <2>0, <2>1 DEF Live
    <3>3. Sending(t)' = Sending(t) \cup {j} /\ j \notin Sending(t)
      BY <1>0, <1>2, <2>0, <2>1 DEF Sending
    <3>4. Cardinality(Sending(t)') = Cardinality(Sending(t)) + 1
      BY <1>t, <3>3, FS_AddElement
    <3> QED
      BY <1>t, <2>0, <3>1, <3>2, <3>4 DEF Budgeted
  <2>2. CASE t # jobs[j].template
    <3>1. Sending(t)' \subseteq Sending(t) /\ (Live(t) => Live(t)')
      BY <1>0, <2>0, <2>2 DEF Sending, Live
    <3> QED
      BY <2>0, <3>1, BudgetKept
  <2> QED
    BY <2>1, <2>2
<1>3. CASE jobs[j].pc = "send" /\ UNCHANGED rows /\ jobs'[j].pc = "mark"
  <2>0. jobs'[j].answer \in {"ok", "permanent", "transient"}
    BY <1>3 DEF JobSteps, CreateNotification, MarkNotificationSent, MarkNotificationFailed
  <2>1. CASE t # jobs[j].template
    <3>1. Sending(t)' \subseteq Sending(t) /\ (Live(t) => Live(t)')
      BY <1>0, <1>3, <2>1 DEF Sending, Live
    <3>2. sms'[t] = sms[t] /\ lost'[t] = lost[t]
      BY <1>0, <1>3, <2>1 DEF JobSteps, CreateNotification, MarkNotificationSent,
         MarkNotificationFailed, Accepted, Misread, gateway, TypeOK
    <3> QED
      BY <3>1, <3>2, BudgetKept
  <2>2. CASE t = jobs[j].template
    <3>1. Sending(t)' = Sending(t) \ {j} /\ j \in Sending(t)
      BY <1>0, <1>3, <2>2 DEF Sending
    <3>2. Cardinality(Sending(t)') = Cardinality(Sending(t)) - 1
      BY <1>t, <3>1, FS_RemoveElement
    <3>3. jobs'[j].answer = "ok" => (Live(t) => Live(t)')
      BY <1>0, <1>3 DEF Live
    <3>4. \/ sms'[t] = sms[t] + 1 /\ lost'[t] = lost[t] /\ jobs'[j].answer = "ok"
          \/ sms'[t] = sms[t] + 1 /\ lost'[t] = lost[t] + 1
          \/ sms'[t] = sms[t] /\ lost'[t] = lost[t]
      BY <1>0, <1>3, <2>2 DEF JobSteps, CreateNotification, MarkNotificationSent,
         MarkNotificationFailed, Accepted, Misread, gateway, TypeOK
    <3> QED
      BY <1>t, <3>2, <3>3, <3>4 DEF Budgeted
  <2> QED
    BY <2>1, <2>2
<1>4. CASE \/ MarkNotificationSent(j) /\ jobs'[j].pc = "done"
           \/ MarkNotificationFailed(j) /\ jobs'[j].pc \in {"ready", "cancelled", "discarded"}
  <2>0. {"sent", "failed"} \subseteq Statuses
    BY DEF Statuses
  <2>1. /\ jobs[j].pc = "mark" /\ UNCHANGED <<sms, lost>>
        /\ \A k \in DOMAIN jobs \ {j} : rows'[k] = rows[k]
        /\ jobs[j].answer = "ok" /\ rows[j] \in {"queued", "sent"} => rows'[j] \in {"queued", "sent"}
    BY <1>4, <2>0, MarkedFacts DEF MarkNotificationSent, MarkNotificationFailed, gateway
  <2>2. Sending(t)' \subseteq Sending(t)
    BY <1>0, <1>4, <2>1 DEF Sending
  <2>3. Live(t) => Live(t)'
    BY <1>0, <1>4, <2>1 DEF Live
  <2> QED
    BY <2>1, <2>2, <2>3, BudgetKept
<1> QED
  BY <1>1, <1>2, <1>3, <1>4 DEF JobSteps

\* A new job sends nothing yet; a resend clears the rows of its template and
\* raises the budget by one.
LEMMA NewJobBudget ==
  ASSUME TypeOK, NEW t \in Templates, Budgeted(t), AckInvoice \/ resendInvoice
  PROVE  Budgeted(t)'
<1> DEFINE n == Len(jobs) + 1
<1>1. /\ DOMAIN jobs' = DOMAIN jobs \cup {n} /\ n \notin DOMAIN jobs
      /\ jobs'[n].pc = "ready"
      /\ \A k \in DOMAIN jobs : jobs'[k] = jobs[k]
  BY EnqueueFacts DEF AckInvoice, resendInvoice, Templates, Job
<1>2. Sending(t)' = Sending(t)
  BY <1>1 DEF Sending
<1>3. UNCHANGED <<sms, lost>>
  BY DEF AckInvoice, resendInvoice, gateway
<1>4. /\ sms[t] \in Nat /\ lost[t] \in Nat /\ Resent(t) \in Nat /\ Cardinality(Sending(t)) \in Nat
  BY BudgetType
<1>5. CASE UNCHANGED resends /\ \A k \in DOMAIN jobs : rows'[k] = rows[k]
  <2>1. Live(t) => Live(t)'
    BY <1>1, <1>5 DEF Live
  <2> QED
    BY <1>2, <1>3, <1>5, <2>1, BudgetKept
<1>6. CASE AckInvoice
  <2>1. \A k \in DOMAIN jobs : rows'[k] = rows[k]
    BY <1>6, Tables, AppendProperties DEF AckInvoice, Statuses
  <2> QED
    BY <1>5, <1>6, <2>1 DEF AckInvoice
<1>7. CASE resendInvoice
  <2>1. resends' = resends + 1 /\ resends \in Nat
    BY <1>7, ReceiptsAssumption DEF resendInvoice, TypeOK
  <2>2. CASE t = "receipt_acked"
    <3>1. Resent(t)' = Resent(t) + 1
      BY <2>1, <2>2 DEF Resent
    <3> QED
      BY <1>2, <1>3, <1>4, <3>1 DEF Budgeted
  <2>3. CASE t # "receipt_acked"
    <3>0. "none" \in Statuses
      BY DEF Statuses
    <3>1. \A k \in DOMAIN jobs : jobs[k].template = t => rows'[k] = rows[k]
      BY <1>7, <2>3, <3>0, Tables, WithoutFacts, AppendProperties DEF resendInvoice
    <3>2. Live(t) => Live(t)'
      BY <1>1, <3>1 DEF Live
    <3>3. Resent(t)' = Resent(t)
      BY <2>3 DEF Resent
    <3> QED
      BY <1>2, <1>3, <1>4, <3>2, <3>3 DEF Budgeted
  <2> QED
    BY <2>2, <2>3
<1> QED
  BY <1>6, <1>7

\* The invariant behind SentOnce.
LEMMA WithinBudgetHolds == Spec => []WithinBudget
<1>1. Init => WithinBudget
  <2> SUFFICES ASSUME Init, NEW t \in Templates PROVE Budgeted(t)
    BY DEF WithinBudget
  <2>1. Sending(t) = {}
    BY DEF Init, Sending, Job
  <2>2. sms[t] = 0 /\ lost[t] = 0 /\ Resent(t) = 0
    BY DEF Init, Resent
  <2> QED
    BY <2>1, <2>2, FS_EmptySet DEF Budgeted
<1>2. TypeOK /\ WithinBudget /\ [Next]_vars => WithinBudget'
  <2> SUFFICES ASSUME TypeOK, WithinBudget, [Next]_vars, NEW t \in Templates, t \notin crossed'
               PROVE  Budgeted(t)'
    BY DEF WithinBudget
  <2>0. Budgeted(t)
    <3>1. crossed \subseteq crossed'
      BY DEF Next, AckInvoice, ParkInvoice, resendInvoice, Step, SendReceipt, CreateNotification,
         SendSMS, MarkNotificationSent, MarkNotificationFailed, MarkFails, Crash, vars
    <3> QED
      BY <3>1 DEF WithinBudget
  <2>1. CASE ParkInvoice \/ UNCHANGED vars
    BY <2>0, <2>1 DEF ParkInvoice, vars, gateway, Budgeted, Sending, Live, Resent
  <2> QED
    BY <2>0, <2>1, NewJobBudget, StepsOfJobs, JobBudget DEF Next
<1> QED
  BY <1>1, <1>2, TypeCorrect, PTL DEF Spec

\* Across retries, rescued jobs, lost answers and crashes at any point, a
\* message goes out once, and once more for each answer that got lost and each
\* resend, unless two jobs of its template inserted their rows at once.
THEOREM SentOnceHolds == Spec => []SentOnce
<1>1. TypeOK /\ WithinBudget => SentOnce
  <2> SUFFICES ASSUME TypeOK, WithinBudget, NEW t \in Templates \ crossed
               PROVE  sms[t] =< 1 + lost[t] + Resent(t)
    BY DEF SentOnce
  <2> QED
    BY BudgetType DEF WithinBudget, Budgeted
<1> QED
  BY <1>1, TypeCorrect, WithinBudgetHolds, PTL
=============================================================================
