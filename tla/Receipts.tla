------------------------------ MODULE Receipts ------------------------------
(***************************************************************************)
(* The SMS a buyer gets for one invoice: SendReceipt and its River worker  *)
(* (backend/internal/notify/service.go), the jobs that ask for it, and the *)
(* merchant's resend (backend/internal/ledger/handler.go).  A job inserts  *)
(* its notification in one transaction, calls the SMS gateway outside any, *)
(* and records the result in another.                                      *)
(***************************************************************************)
EXTENDS Naturals, Sequences, FiniteSets, FiniteSetsExt

CONSTANTS
    Faults,       \* what may go wrong in this instance
    MaxAttempts,  \* attempts of a job (5 in the code)
    MaxFaults,    \* bound on crashes and failed transactions
    MaxResends    \* bound on the merchant's resends

\* crash: the worker stops.  mark_err: the transaction that records the result
\* fails.  lost: the gateway takes the message and the answer gets lost.
FaultKinds == {"crash", "mark_err", "lost"}

ASSUME ReceiptsAssumption ==
    /\ Faults \subseteq FaultKinds
    /\ MaxAttempts \in Nat \ {0}
    /\ MaxFaults \in Nat
    /\ MaxResends \in Nat

Templates == {"receipt_pending", "receipt_acked"}

VARIABLES
    inv,      \* the invoice's state
    phone,    \* the payment or the customer has a number
    jobs,     \* send_receipt jobs in the order they were enqueued
    rows,     \* notifications: the latest row of each job, as a job inserts one
              \* only when all rows of its template are failed
    sms,      \* messages the gateway accepted, by template
    lost,     \* those whose answer was lost, by template
    misread,  \* messages it refused that were taken for sent, by template
    told,     \* whether the receipt_acked messages carried KRA's number
    usage,    \* usage_counters.sms_sent
    crossed,  \* templates two jobs inserted at once
    resends,  \* resends so far
    faults    \* crashes and failed transactions so far

gateway == <<sms, lost, misread, told>>
vars == <<inv, phone, jobs, rows, gateway, usage, crossed, resends, faults>>

Job(t) == [template |-> t, pc |-> "ready", attempt |-> 0, numbered |-> FALSE, answer |-> "none"]

\* EnqueueTx: no unique options, so a second job of a template is a second job.
Enqueue(t) == jobs' = Append(jobs, Job(t))

\* "receipt_pending" is enqueued with the invoice, for five minutes later.
Init ==
    /\ inv = "QUEUED"
    /\ phone \in BOOLEAN
    /\ jobs = <<Job("receipt_pending")>>
    /\ rows = <<"none">>
    /\ sms = [t \in Templates |-> 0]
    /\ lost = [t \in Templates |-> 0]
    /\ misread = [t \in Templates |-> 0]
    /\ told = {}
    /\ usage = 0
    /\ crossed = {}
    /\ resends = 0
    /\ faults = 0

Sets(j, rec) == jobs' = [jobs EXCEPT ![j] = rec]

Ends(j, pc) == Sets(j, [jobs[j] EXCEPT !.pc = pc, !.numbered = FALSE, !.answer = "none"])

-----------------------------------------------------------------------------
(* KRA and the merchant.                                                   *)

\* The submitter's last transaction: ACKED and the job, together.
AckInvoice ==
    /\ inv = "QUEUED"
    /\ inv' = "ACKED"
    /\ Enqueue("receipt_acked")
    /\ rows' = Append(rows, "none")
    /\ UNCHANGED <<phone, gateway, usage, crossed, resends, faults>>

ParkInvoice ==
    /\ inv = "QUEUED"
    /\ inv' = "NEEDS_REVIEW"
    /\ UNCHANGED <<phone, jobs, rows, gateway, usage, crossed, resends, faults>>

\* DELETE FROM notifications ... AND template = $3.
WithoutTemplate(t) ==
    [j \in DOMAIN rows |-> IF jobs[j].template = t THEN "none" ELSE rows[j]]

\* Whatever the state of the invoice; with a number when the merchant gives one.
resendInvoice ==
    \E number \in BOOLEAN :
        /\ resends < MaxResends
        /\ resends' = resends + 1
        /\ phone' = (phone \/ number)
        /\ rows' = Append(WithoutTemplate("receipt_acked"), "none")
        /\ Enqueue("receipt_acked")
        /\ UNCHANGED <<inv, gateway, usage, crossed, faults>>

-----------------------------------------------------------------------------
(* SendReceipt.                                                            *)

stillPending == inv \notin {"ACKED", "FAILED_TERMINAL"}

\* Mutant: no template is due once the invoice is settled.
DueWhilePending(t) == stillPending

\* "Your receipt is being prepared" only while it is.
Due(t) == t = "receipt_pending" => stillPending

\* Mutant: only a row that was sent counts.
SentBefore(t) == \E j \in DOMAIN rows : jobs[j].template = t /\ rows[j] = "sent"

\* A row that is not failed, be it queued, sent or delivered.
Exists(t) == \E j \in DOMAIN rows : jobs[j].template = t /\ rows[j] \in {"queued", "sent"}

\* The first transaction reads: the job is over when the message went out or
\* is on its way, when it is no longer due, or when there is nobody to send to.
SendReceipt(j) ==
    LET t == jobs[j].template
    IN /\ jobs[j].pc = "ready"
       /\ \/ /\ Exists(t) \/ ~Due(t)
             /\ Ends(j, "done")
          \/ /\ ~Exists(t) /\ Due(t) /\ ~phone
             /\ Ends(j, "cancelled")
          \/ /\ ~Exists(t) /\ Due(t) /\ phone
             /\ Sets(j, [jobs[j] EXCEPT !.pc = "insert", !.attempt = @ + 1,
                                        !.numbered = (inv = "ACKED")])
       /\ UNCHANGED <<inv, phone, rows, gateway, usage, crossed, resends, faults>>

\* Also when another job of the template has inserted meanwhile.
CreateNotification(j) ==
    /\ jobs[j].pc = "insert"
    /\ rows' = [rows EXCEPT ![j] = "queued"]
    /\ crossed' = IF Exists(jobs[j].template) THEN crossed \cup {jobs[j].template} ELSE crossed
    /\ Sets(j, [jobs[j] EXCEPT !.pc = "send"])
    /\ UNCHANGED <<inv, phone, gateway, usage, resends, faults>>

Accepted(j, answer) ==
    LET t == jobs[j].template IN
    /\ sms' = [sms EXCEPT ![t] = @ + 1]
    /\ lost' = IF answer = "ok" THEN lost ELSE [lost EXCEPT ![t] = @ + 1]
    /\ told' = IF t = "receipt_acked" THEN told \cup {jobs[j].numbered} ELSE told
    /\ UNCHANGED misread

\* Only a recipient status of 400 to 499 is an error: one of 500 and above, in an
\* answer of HTTP status 200, is read as success.
Misread(j) ==
    /\ misread' = [misread EXCEPT ![jobs[j].template] = @ + 1]
    /\ UNCHANGED <<sms, lost, told>>

\* The call to the gateway: accepted, refused for good (PermanentError), failed
\* for now, refused with a status that is taken for success, or accepted with
\* the answer lost.
SendSMS(j) ==
    \E answer \in {"ok", "permanent", "transient"} :
        /\ jobs[j].pc = "send"
        /\ Sets(j, [jobs[j] EXCEPT !.pc = "mark", !.answer = answer])
        /\ \/ answer = "ok" /\ (Accepted(j, answer) \/ Misread(j))
           \/ answer # "ok" /\ UNCHANGED gateway
           \/ answer = "transient" /\ "lost" \in Faults /\ Accepted(j, answer)
        /\ UNCHANGED <<inv, phone, rows, usage, crossed, resends, faults>>

\* UPDATE by id: of a row a resend has deleted, nothing.
Marked(j, status) == IF rows[j] = "queued" THEN [rows EXCEPT ![j] = status] ELSE rows

\* Mutant: one attempt more.
AfterErrorOneMore(j) == IF jobs[j].attempt =< MaxAttempts THEN "ready" ELSE "discarded"

AfterError(j) == IF jobs[j].attempt < MaxAttempts THEN "ready" ELSE "discarded"

MarkNotificationSent(j) ==
    /\ jobs[j].pc = "mark"
    /\ jobs[j].answer = "ok"
    /\ rows' = Marked(j, "sent")
    /\ usage' = usage + 1
    /\ Ends(j, "done")
    /\ UNCHANGED <<inv, phone, gateway, crossed, resends, faults>>

\* Mutant: a message that was not sent is charged for.
MarkFailedAndCharge(j) ==
    /\ jobs[j].pc = "mark"
    /\ jobs[j].answer # "ok"
    /\ rows' = Marked(j, "failed")
    /\ usage' = usage + 1
    /\ Ends(j, IF jobs[j].answer = "permanent" THEN "cancelled" ELSE AfterError(j))
    /\ UNCHANGED <<inv, phone, gateway, crossed, resends, faults>>

\* The worker cancels the job on a permanent error and retries on any other.
MarkNotificationFailed(j) ==
    /\ jobs[j].pc = "mark"
    /\ jobs[j].answer # "ok"
    /\ rows' = Marked(j, "failed")
    /\ Ends(j, IF jobs[j].answer = "permanent" THEN "cancelled" ELSE AfterError(j))
    /\ UNCHANGED <<inv, phone, gateway, usage, crossed, resends, faults>>

Strikes(kind) ==
    /\ kind \in Faults
    /\ faults < MaxFaults
    /\ faults' = faults + 1

\* The row stays queued, and the next attempt takes it for a message under way.
MarkFails(j) ==
    /\ Strikes("mark_err")
    /\ jobs[j].pc = "mark"
    /\ Ends(j, AfterError(j))
    /\ UNCHANGED <<inv, phone, rows, gateway, usage, crossed, resends>>

\* River rescues the job of a worker that stopped.
Crash(j) ==
    /\ Strikes("crash")
    /\ jobs[j].pc \in {"insert", "send", "mark"}
    /\ Ends(j, AfterError(j))
    /\ UNCHANGED <<inv, phone, rows, gateway, usage, crossed, resends>>

Step(j) ==
    \/ SendReceipt(j) \/ CreateNotification(j) \/ SendSMS(j)
    \/ MarkNotificationSent(j) \/ MarkNotificationFailed(j)

Next ==
    \/ AckInvoice \/ ParkInvoice \/ resendInvoice
    \/ \E j \in DOMAIN jobs : Step(j) \/ MarkFails(j) \/ Crash(j)

Spec == Init /\ [][Next]_vars

\* River runs every job that is ready, and the gateway's client has a timeout.
FairSpec == Spec /\ \A j \in 1 .. (2 + MaxResends) : WF_vars(j \in DOMAIN jobs /\ Step(j))

-----------------------------------------------------------------------------
(* Properties.                                                             *)

Statuses == {"none", "queued", "sent", "failed"}

JobRecords ==
    [template: Templates,
     pc: {"ready", "insert", "send", "mark", "done", "cancelled", "discarded"},
     attempt: 0 .. MaxAttempts, numbered: BOOLEAN,
     answer: {"none", "ok", "permanent", "transient"}]

\* A job that may run has an attempt left, and one about to record a result has
\* an answer, and a row waiting for it unless it lost it to a resend.
JobOK(j) ==
    /\ jobs[j].pc = "ready" => jobs[j].attempt < MaxAttempts
    /\ jobs[j].pc = "mark" => jobs[j].answer # "none"
    /\ jobs[j].pc \in {"send", "mark"} => rows[j] = "queued" \/ (rows[j] = "none" /\ resends > 0)

\* The shape of the tables.
TypeOK ==
    /\ inv \in {"QUEUED", "ACKED", "NEEDS_REVIEW"}
    /\ phone \in BOOLEAN
    /\ jobs \in Seq(JobRecords)
    /\ rows \in Seq(Statuses)
    /\ Len(rows) = Len(jobs)
    /\ \A j \in DOMAIN jobs : JobOK(j)
    /\ sms \in [Templates -> Nat]
    /\ lost \in [Templates -> Nat]
    /\ misread \in [Templates -> Nat]
    /\ told \subseteq BOOLEAN
    /\ usage \in Nat
    /\ crossed \subseteq Templates
    /\ resends \in 0 .. MaxResends
    /\ faults \in 0 .. MaxFaults

\* The resends the template got: resendInvoice sends receipt_acked only.
Resent(t) == IF t = "receipt_acked" THEN resends ELSE 0

\* SendReceipt "is idempotent per (invoice, template)": across retries, rescued
\* jobs and crashes at any point a message goes out once, and once more for
\* each answer that got lost and each resend, unless two jobs inserted at once.
SentOnce ==
    \A t \in Templates \ crossed :
        sms[t] =< 1 + lost[t] + Resent(t)

Accounted == sms["receipt_pending"] + sms["receipt_acked"]
LostAnswers == lost["receipt_pending"] + lost["receipt_acked"]

Misreads == misread["receipt_pending"] + misread["receipt_acked"]

\* The merchant is charged for no message but those the gateway accepted and
\* those whose refusal was taken for success; and for each of them that it
\* answered for as soon as no job is under way, if nothing failed.
UsageIsSent ==
    /\ usage + LostAnswers =< Accounted + Misreads
    /\ faults = 0 /\ (\A j \in DOMAIN jobs : jobs[j].pc # "mark")
       => usage + LostAnswers = Accounted + Misreads

\* A receipt with KRA's number, or a reason there is none.
Told ==
    \/ told # {}
    \/ misread["receipt_acked"] > 0
    \/ \E j \in DOMAIN jobs :
          /\ jobs[j].template = "receipt_acked"
          /\ \/ jobs[j].pc \in {"cancelled", "discarded"}
             \/ jobs[j].pc \in {"ready", "done"} /\ rows[j] = "queued"

\* Once KRA has acknowledged the invoice the buyer is sent its number, unless
\* the gateway refused for good, its refusal was taken for success, every
\* attempt failed, a worker stopped before it could record the result and left
\* its row queued, or a resend of the merchant, of an invoice without a number,
\* was there first.
EventuallyTold == inv = "ACKED" ~> Told

-----------------------------------------------------------------------------
(* What the repository says, where the code disagrees.                     *)

\* A notification is sent only when the gateway took its message: on any other
\* answer the job is cancelled or retried.
SentMeansAccepted == Cardinality({j \in DOMAIN rows : rows[j] = "sent"}) =< Accounted

-----------------------------------------------------------------------------
(* What makes SentOnce and UsageIsSent inductive: the messages about to be *)
(* sent count as sent, and so do the answers about to be recorded.         *)

Sending(t) == {j \in DOMAIN jobs : jobs[j].template = t /\ jobs[j].pc = "send"}

\* A row that keeps further jobs of the template from sending, and not for the
\* sake of a message that failed.
Live(t) ==
    \E j \in DOMAIN jobs :
        /\ jobs[j].template = t
        /\ rows[j] \in {"queued", "sent"}
        /\ ~(jobs[j].pc = "mark" /\ jobs[j].answer # "ok")

Budgeted(t) ==
    sms[t] + Cardinality(Sending(t)) =< lost[t] + Resent(t) + (IF Live(t) THEN 1 ELSE 0)

WithinBudget == \A t \in Templates \ crossed : Budgeted(t)

Owed == {j \in DOMAIN jobs : jobs[j].pc = "mark" /\ jobs[j].answer = "ok"}

Charged ==
    /\ usage + LostAnswers + Cardinality(Owed) =< Accounted + Misreads
    /\ faults = 0 => usage + LostAnswers + Cardinality(Owed) = Accounted + Misreads
=============================================================================
