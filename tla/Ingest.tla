------------------------------- MODULE Ingest -------------------------------
(***************************************************************************)
(* From a Daraja callback to a payment, a sale and an invoice: IngestC2B,  *)
(* IngestSTK and ProcessStoredC2B (backend/internal/ledger/service.go and  *)
(* stk.go), the reconciler that finishes what the first pass left behind   *)
(* (backend/internal/mpesa/reconcile.go), and what the merchant may do to  *)
(* the same rows meanwhile (backend/internal/ledger/handler.go).           *)
(*                                                                         *)
(* A handler is one request of the api or one event of a worker's sweep.   *)
(* It runs up to three transactions: the event is stored, the payment is   *)
(* applied, the event is marked.  The middle one reads first (Match) and   *)
(* writes later under READ COMMITTED, so its reads and its commit are two  *)
(* actions.  Filing the invoice is Submission's; here it only becomes      *)
(* ACKED at some point.                                                    *)
(***************************************************************************)
EXTENDS Matcher, Sequences, FiniteSets, FiniteSetsExt

CONSTANTS
    Trans,      \* M-Pesa transaction ids
    NoTrans,
    Handlers,   \* requests and sweeps that may run at the same time
    NoPayer,    \* a payload without a usable MSISDN, a sale without a customer
    Payloads,   \* what a C2B confirmation may say
    Carts,      \* what the merchant may sell: a total, a customer and whether
                \* the sale falls into the counter window of the payments
    AutoInvoice, \* the shortcode has auto_invoice and a default item
    Faults,     \* what may go wrong in this instance
    Ops,        \* what merchant and operator may do in this instance
    MaxFaults,  \* bound on the number of faults
    MaxOps      \* bound on the number of merchant and operator actions

\* tx_err: the payment's transaction fails.  crash: the api or the worker stops
\* at any point of the handler; a failed processed mark, whose error the code
\* drops, looks the same.
FaultKinds == {"tx_err", "crash"}

\* request: a request-to-pay is sent.  verify, reject: the operator reviews the
\* shortcode.  replay: she replays a stored event.  ack: KRA acknowledges
\* documents (as often as there are any).
OpKinds == {"sale", "cash", "convert", "link", "settle", "request", "verify", "reject", "replay",
            "ack"}

Payload == [kind : {"c2b_confirmation", "reversal"}, amount : Nat, ref : Nat,
            payer : {p.payer : p \in Payloads} \cup {c.payer : c \in Carts} \cup {NoPayer},
            orig : Trans \cup {NoTrans}]

NoPayload == [kind |-> "c2b_confirmation", amount |-> 0, ref |-> NoSale, payer |-> NoPayer,
              orig |-> NoTrans]

ASSUME IngestAssumption ==
    /\ NoTrans \notin Trans
    /\ Payloads \subseteq Payload
    /\ \A c \in Carts : c.total \in Nat /\ c.recent \in BOOLEAN
    /\ AutoInvoice \in BOOLEAN
    /\ Faults \subseteq FaultKinds
    /\ Ops \subseteq OpKinds
    /\ MaxFaults \in Nat
    /\ MaxOps \in Nat

VARIABLES
    event,    \* webhook_events: none, stored, or processed_at is set: done by a
              \* handler, refused (with an error), or replayed (without an error,
              \* by an operator); and the payload as it was stored
    payment,  \* payments, by trans_id
    sales,    \* sales in the order they were created; a sale's ref is its place
    request,  \* stk_requests in the order they were created
    docs,     \* invoices of both kinds in the order they were created
    gate,     \* the shortcode is verified
    hd,       \* where each handler is, and its local variables
    faults,   \* faults so far
    ops       \* merchant and operator actions so far

tables == <<payment, sales, request, docs>>
bounds == <<faults, ops>>
vars == <<event, payment, sales, request, docs, gate, hd, faults, ops>>

Idle == [pc |-> "idle", t |-> NoTrans, dec |-> NoDecision, draft |-> 0, total |-> 0, seen |-> {}]

NoPayment == [status |-> "none", rule |-> "none", sale |-> NoSale]

Init ==
    /\ event = [t \in Trans |-> [mark |-> "none", raw |-> "c2b", in |-> NoPayload]]
    /\ payment = [t \in Trans |-> NoPayment]
    /\ sales = <<>>
    /\ request = <<>>
    /\ docs = <<>>
    /\ gate \in BOOLEAN
    /\ hd = [h \in Handlers |-> Idle]
    /\ faults = 0
    /\ ops = 0

Becomes(h, r) == hd' = [hd EXCEPT ![h] = r]

-----------------------------------------------------------------------------
(* The lookups Match is given.  The four queries are one read here.        *)

\* Mutant: the status is not looked at.
IsThere(s) == s \in DOMAIN sales

IsOpen(s) == s \in DOMAIN sales /\ sales[s].status = "open"

\* ORDER BY created_at DESC LIMIT 1.
Latest(S) == IF S = {} THEN 0 ELSE Max(S)

OpenSaleByRef(ref) == IF IsOpen(ref) THEN ref ELSE NoSale

PendingSTK(payer, amount) ==
    Latest({r \in DOMAIN request : /\ payer # NoPayer
                                   /\ request[r].status = "pending"
                                   /\ request[r].payer = payer
                                   /\ request[r].amount = amount
                                   /\ request[r].recent})

OpenSaleByCustomer(payer) ==
    Latest({s \in DOMAIN sales : /\ payer # NoPayer
                                 /\ IsOpen(s)
                                 /\ sales[s].payer = payer
                                 /\ sales[s].recent})

OpenSaleByAmount(amount) ==
    Latest({s \in DOMAIN sales : IsOpen(s) /\ sales[s].total = amount /\ sales[s].recent})

TotalOf(s) == IF s \in DOMAIN sales THEN sales[s].total ELSE 0

Lookups(in) ==
    LET ref == OpenSaleByRef(in.ref)
        stk == PendingSTK(in.payer, in.amount)
        customer == OpenSaleByCustomer(in.payer)
    IN [byRef |-> ref, refTotal |-> TotalOf(ref),
        stk |-> stk, stkSale |-> IF stk = NoRequest THEN NoSale ELSE request[stk].sale,
        byCustomer |-> customer, customerTotal |-> TotalOf(customer),
        byAmount |-> OpenSaleByAmount(in.amount)]

-----------------------------------------------------------------------------
(* Writes the transactions share.                                          *)

\* MarkSalePaid: UPDATE ... WHERE status = 'open'; that it may change no row
\* goes unnoticed.
MarkSalePaid(s) == IF IsOpen(s) THEN [sales EXCEPT ![s].status = "paid"] ELSE sales

PaidSale(total) == [status |-> "paid", total |-> total, payer |-> NoPayer, recent |-> FALSE]

\* CreateInvoiceForSale.
CreateInvoiceForSale(s, t) ==
    Append(docs, [kind |-> "INVOICE", sale |-> s, pay |-> t, parent |-> 0, acked |-> FALSE])

\* NextSaleRef counts the sales, some time after the reads the decision rests on.
NextSaleRef(h) ==
    /\ hd[h].pc = "ref"
    /\ Becomes(h, [hd[h] EXCEPT !.pc = IF hd[h].dec.rule = "manual" THEN "convert" ELSE "matched",
                                !.draft = Len(sales) + 1])
    /\ UNCHANGED <<event, tables, gate, bounds>>

\* The new row's ref collides with one that was committed since.
RefTaken(h) == hd[h].dec.cash /\ hd[h].draft # Len(sales) + 1

-----------------------------------------------------------------------------
(* The first transaction: store the event, resolve the shortcode.          *)

\* IngestC2B.  A payload for a shortcode that is not verified is stored and
\* marked processed with its error; an id seen before changes nothing.
IngestC2B(h, t, raw, in) ==
    /\ event[t].mark = "none"
    /\ event' = [event EXCEPT ![t] = [mark |-> IF gate THEN "stored" ELSE "refused",
                                      raw |-> raw, in |-> in]]
    /\ Becomes(h, IF gate THEN [Idle EXCEPT !.pc = "resolved", !.t = t] ELSE Idle)
    /\ UNCHANGED <<tables, gate, bounds>>

\* What M-Pesa says: the payment of a request-to-pay has its amount and payer,
\* and a transaction does not reverse itself.
Genuine(t, in) ==
    /\ in.orig # t
    /\ \A r \in DOMAIN request :
         request[r].receipt = t => in.amount = request[r].amount /\ in.payer = request[r].payer

\* POST /webhooks/daraja/c2b/confirmation.
Confirmation(h, t, in) ==
    /\ hd[h].pc = "idle"
    /\ Genuine(t, in)
    /\ IngestC2B(h, t, "c2b", in)

\* The pull worker, one transaction of its list: the same path.  Its own look
\* at payments runs without a tenant and sees no row.
PullTransaction(h, t, in) ==
    /\ hd[h].pc = "idle"
    /\ Genuine(t, in)
    /\ IngestC2B(h, t, "c2b", in)

\* IngestSTK, up to the result on the stk_requests row, which any callback
\* overwrites.
StkResult(h, r, success) ==
    /\ hd[h].pc = "idle"
    /\ request' = [request EXCEPT ![r].status = IF success THEN "success" ELSE "failed"]
    /\ Becomes(h, IF success
                  THEN [Idle EXCEPT !.pc = "stk", !.t = request[r].receipt, !.dec.stk = r]
                  ELSE Idle)
    /\ UNCHANGED <<event, payment, sales, docs, gate, bounds>>

\* IngestSTK, the payment: through IngestC2B, under the ref of the request's
\* sale and with the STK callback as the raw payload.
StkIngest(h) ==
    LET r == request[hd[h].dec.stk]
    IN  /\ hd[h].pc = "stk"
        /\ IngestC2B(h, hd[h].t, "stk",
                     [NoPayload EXCEPT !.amount = r.amount, !.payer = r.payer, !.ref = r.sale])

\* The event is there already.
StkDuplicate(h) ==
    /\ hd[h].pc = "stk"
    /\ event[hd[h].t].mark # "none"
    /\ Becomes(h, Idle)
    /\ UNCHANGED <<event, tables, gate, bounds>>

-----------------------------------------------------------------------------
(* The second transaction, ProcessStoredC2B.                               *)

\* applyPayment: Match.
MatchPayment(h) ==
    LET in == event[hd[h].t].in
        d == Match(in.amount, Lookups(in), AutoInvoice)
    IN  /\ hd[h].pc = "resolved"
        /\ in.kind = "c2b_confirmation"
        /\ Becomes(h, [hd[h] EXCEPT !.pc = IF d.cash THEN "ref" ELSE "matched", !.dec = d,
                                    !.total = in.amount])
        /\ UNCHANGED <<event, tables, gate, bounds>>

\* Mutant: payments.trans_id is not unique.
NeverRecorded(t) == FALSE

\* CreatePayment's ON CONFLICT (trans_id).
Recorded(t) == payment[t].status # "none"

\* The database refuses the transaction: the ref is taken, or match_rule is a
\* value the table's CHECK does not list.
Refused(h) == RefTaken(h) \/ hd[h].dec.rule = "counter_window"

ApplyRefused(h) ==
    /\ hd[h].pc = "matched"
    /\ Refused(h)
    /\ Becomes(h, [hd[h] EXCEPT !.pc = "failed"])
    /\ UNCHANGED <<event, tables, gate, bounds>>

\* CreatePayment returns no row: ErrDuplicate, all rolled back.
ApplyDuplicate(h) ==
    /\ hd[h].pc = "matched"
    /\ ~Refused(h)
    /\ Recorded(hd[h].t)
    /\ Becomes(h, [hd[h] EXCEPT !.pc = "applied"])
    /\ UNCHANGED <<event, tables, gate, bounds>>

\* Mutants: a partial payment closes its sale; the cash sale is not inserted.
PaidSalesOnPartial(h) ==
    LET d == hd[h].dec
    IN  IF d.cash THEN Append(sales, PaidSale(hd[h].total)) ELSE MarkSalePaid(d.sale)
PaidSalesNoInsert(h) ==
    LET d == hd[h].dec IN IF d.status = "matched" THEN MarkSalePaid(d.sale) ELSE sales

\* The sales once the decision is applied.
PaidSales(h) ==
    LET d == hd[h].dec
    IN  IF d.cash THEN Append(sales, PaidSale(hd[h].total))
        ELSE IF d.status = "matched" THEN MarkSalePaid(d.sale) ELSE sales

\* applyPayment commits.
ApplyPayment(h) ==
    LET t == hd[h].t
        d == hd[h].dec
        s == IF d.cash THEN hd[h].draft ELSE d.sale
    IN  /\ hd[h].pc = "matched"
        /\ ~Refused(h)
        /\ ~Recorded(t)
        /\ sales' = PaidSales(h)
        /\ payment' = [payment EXCEPT ![t] = [status |-> d.status, rule |-> d.rule, sale |-> s]]
        /\ request' = IF d.stk = NoRequest THEN request
                      ELSE [request EXCEPT ![d.stk].status = "success"]
        /\ docs' = IF s = NoSale \/ d.status = "partial" THEN docs ELSE CreateInvoiceForSale(s, t)
        /\ Becomes(h, [hd[h] EXCEPT !.pc = "applied"])
        /\ UNCHANGED <<event, gate, bounds>>

\* Mutant: whatever the invoice's state.
AnyInvoice(s) == Latest({i \in DOMAIN docs : docs[i].kind = "INVOICE" /\ docs[i].sale = s})

\* GetAckedInvoiceForSale.
AckedInvoice(s) ==
    Latest({i \in DOMAIN docs : docs[i].kind = "INVOICE" /\ docs[i].sale = s /\ docs[i].acked})

\* applyReversal.  A reversal whose payment is not there is dropped, and one
\* whose invoice is not ACKED gets no credit note.
ApplyReversal(h) ==
    LET o == event[hd[h].t].in.orig
        known == o \in Trans /\ Recorded(o)
        i == AckedInvoice(payment[o].sale)
    IN  /\ hd[h].pc = "resolved"
        /\ event[hd[h].t].in.kind = "reversal"
        /\ payment' = IF known THEN [payment EXCEPT ![o].status = "reversed"] ELSE payment
        /\ docs' = IF known /\ payment[o].sale # NoSale /\ i # 0
                   THEN Append(docs, [kind |-> "CREDIT_NOTE", sale |-> payment[o].sale,
                                      pay |-> o, parent |-> i, acked |-> FALSE])
                   ELSE docs
        /\ Becomes(h, [hd[h] EXCEPT !.pc = "applied"])
        /\ UNCHANGED <<event, sales, request, gate, bounds>>

\* The transaction fails for another reason: a lost connection, the deadline.
TxFails(h) ==
    /\ "tx_err" \in Faults
    /\ faults < MaxFaults
    /\ hd[h].pc \in {"resolved", "ref", "matched"}
    /\ hd[h].dec.rule # "manual"
    /\ Becomes(h, [hd[h] EXCEPT !.pc = "failed"])
    /\ faults' = faults + 1
    /\ UNCHANGED <<event, tables, gate, ops>>

-----------------------------------------------------------------------------
(* The third transaction, the processed mark.                              *)

\* Mutant: a failed event is ticked off too.
MarkProcessedAnyway(h) ==
    /\ hd[h].pc \in {"applied", "failed"}
    /\ event' = [event EXCEPT ![hd[h].t].mark = "done"]
    /\ Becomes(h, Idle)
    /\ UNCHANGED <<tables, gate, bounds>>

MarkProcessed(h) ==
    /\ hd[h].pc = "applied"
    /\ event' = [event EXCEPT ![hd[h].t].mark = "done"]
    /\ Becomes(h, Idle)
    /\ UNCHANGED <<tables, gate, bounds>>

\* Mutants: the error also sets processed_at, as MarkWebhookProcessed would; the
\* error clears it.
NoteErrorMarks(h) ==
    /\ hd[h].pc = "failed"
    /\ event' = [event EXCEPT ![hd[h].t].mark = "refused"]
    /\ Becomes(h, Idle)
    /\ UNCHANGED <<tables, gate, bounds>>
NoteErrorReopens(h) ==
    /\ hd[h].pc = "failed"
    /\ event' = [event EXCEPT ![hd[h].t].mark = "stored"]
    /\ Becomes(h, Idle)
    /\ UNCHANGED <<tables, gate, bounds>>

\* Only the reason is recorded; processed_at is left as it is.
NoteError(h) ==
    /\ hd[h].pc = "failed"
    /\ Becomes(h, Idle)
    /\ UNCHANGED <<event, tables, gate, bounds>>

\* The process stops, or the mark fails and nobody is told.
Dies(h) ==
    /\ "crash" \in Faults
    /\ faults < MaxFaults
    /\ hd[h].pc # "idle"
    /\ Becomes(h, Idle)
    /\ faults' = faults + 1
    /\ UNCHANGED <<event, tables, gate, ops>>

-----------------------------------------------------------------------------
(* The reconciler, one event of a sweep.  The list may be old by the time  *)
(* its event is taken up; sweeps may overlap.                              *)

ListUnprocessed(h, t) ==
    /\ hd[h].pc = "idle"
    /\ event[t].mark = "stored"
    /\ Becomes(h, [Idle EXCEPT !.pc = "listed", !.t = t])
    /\ UNCHANGED <<event, tables, gate, bounds>>

\* An STK callback does not parse as a C2B confirmation.
Parses(t) == event[t].raw = "c2b"

Reconcile(h) ==
    LET t == hd[h].t
    IN  /\ hd[h].pc = "listed"
        /\ IF Parses(t) /\ gate
           THEN Becomes(h, [hd[h] EXCEPT !.pc = "resolved"]) /\ UNCHANGED event
           ELSE Becomes(h, Idle) /\ event' = [event EXCEPT ![t].mark = "refused"]
        /\ UNCHANGED <<tables, gate, bounds>>

-----------------------------------------------------------------------------
(* The merchant and the operator.                                          *)

Operate(op) ==
    /\ op \in Ops
    /\ ops < MaxOps
    /\ ops' = ops + 1
    /\ UNCHANGED faults

\* createSale, kind "open".
CreateSale(c) ==
    /\ Operate("sale")
    /\ sales' = Append(sales, [status |-> "open", total |-> c.total, payer |-> c.payer,
                               recent |-> c.recent])
    /\ UNCHANGED <<event, payment, request, docs, gate, hd>>

\* createSale, settled outside M-Pesa.
CreateCashSale(c) ==
    /\ Operate("cash")
    /\ sales' = Append(sales, PaidSale(c.total))
    /\ docs' = CreateInvoiceForSale(Len(sales) + 1, NoTrans)
    /\ UNCHANGED <<event, payment, request, gate, hd>>

\* A request-to-pay for an open sale, which transaction t may answer.
CreateSTKRequest(s, t, recent) ==
    /\ IsOpen(s)
    /\ sales[s].payer # NoPayer
    /\ event[t].mark = "none"
    /\ \A r \in DOMAIN request : request[r].receipt # t
    /\ Operate("request")
    /\ request' = Append(request, [status |-> "pending", sale |-> s, amount |-> sales[s].total,
                                   payer |-> sales[s].payer, recent |-> recent, receipt |-> t])
    /\ UNCHANGED <<event, payment, sales, docs, gate, hd>>

\* Mutant: any payment.
ConvertibleAny(t) == Recorded(t)

Convertible(t) == payment[t].status \in {"unmatched", "partial"}

\* convertPayment to a sale of its own: the payment is read.
Convert(h, t, total, status) ==
    /\ hd[h].pc = "idle"
    /\ Convertible(t)
    /\ Operate("convert")
    /\ Becomes(h, [Idle EXCEPT !.pc = "ref", !.t = t, !.total = total,
                               !.dec = Decision(status, "manual", NoSale, NoRequest, TRUE)])
    /\ UNCHANGED <<event, tables, gate>>

\* convertPayment to an open sale; the amounts are not compared.
Link(h, t, s) ==
    /\ hd[h].pc = "idle"
    /\ Convertible(t)
    /\ IsOpen(s)
    /\ Operate("link")
    /\ Becomes(h, [Idle EXCEPT !.pc = "convert", !.t = t,
                               !.dec = Decision("matched", "manual", s, NoRequest, FALSE)])
    /\ UNCHANGED <<event, tables, gate>>

ConvertRefused(h) ==
    /\ hd[h].pc = "convert"
    /\ RefTaken(h)
    /\ Becomes(h, Idle)
    /\ UNCHANGED <<event, tables, gate, bounds>>

\* AttachPaymentToSale has no condition on the payment's status.
ConvertCommit(h) ==
    LET t == hd[h].t
        d == hd[h].dec
        s == IF d.cash THEN hd[h].draft ELSE d.sale
    IN  /\ hd[h].pc = "convert"
        /\ ~RefTaken(h)
        /\ sales' = IF d.cash THEN Append(sales, PaidSale(hd[h].total)) ELSE MarkSalePaid(s)
        /\ payment' = [payment EXCEPT ![t] = [status |-> d.status, rule |-> d.rule, sale |-> s]]
        /\ docs' = CreateInvoiceForSale(s, t)
        /\ Becomes(h, Idle)
        /\ UNCHANGED <<event, request, gate, bounds>>

PaymentsOf(s) == {t \in Trans : Recorded(t) /\ payment[t].sale = s}

\* settleSale up to its first write; t is the last payment of the sale.
Settle(h, s, t) ==
    /\ hd[h].pc = "idle"
    /\ IsOpen(s)
    /\ t \in PaymentsOf(s) \/ (PaymentsOf(s) = {} /\ t = NoTrans)
    /\ Operate("settle")
    /\ Becomes(h, [Idle EXCEPT !.pc = "settle", !.t = t,
                               !.seen = {p \in PaymentsOf(s) : payment[p].status = "partial"},
                               !.dec = Decision("matched", "manual", s, NoRequest, FALSE)])
    /\ UNCHANGED <<event, tables, gate>>

SettleCommit(h) ==
    LET s == hd[h].dec.sale
    IN  /\ hd[h].pc = "settle"
        /\ sales' = MarkSalePaid(s)
        /\ payment' = [t \in Trans |-> IF t \in hd[h].seen
                                       THEN [payment[t] EXCEPT !.status = "matched"]
                                       ELSE payment[t]]
        /\ docs' = CreateInvoiceForSale(s, hd[h].t)
        /\ Becomes(h, Idle)
        /\ UNCHANGED <<event, request, gate, bounds>>

\* Verify; on a verified row it changes nothing.
VerifyShortcode ==
    /\ ~gate
    /\ Operate("verify")
    /\ gate' = TRUE
    /\ UNCHANGED <<event, tables, hd>>

\* Reject refuses a row it read as verified, but it reads in a transaction of
\* its own: the verification may have come in between.
RejectShortcode ==
    /\ gate
    /\ Operate("reject")
    /\ gate' = FALSE
    /\ UNCHANGED <<event, tables, hd>>

\* What the ingester answers to the payload of a stored event: Duplicate, which is
\* no error, for a confirmation.  A reversal is looked up under its own id, which
\* no payment has.  An STK callback has no TransID: it is stored as an event of
\* its own for an unknown shortcode, and is a duplicate from then on.
ReplayAnswers(t) ==
    IF event[t].in.kind = "reversal" THEN {"refused"}
    ELSE IF Parses(t) THEN {"replayed"} ELSE {"refused", "replayed"}

\* admin.ReplayWebhook: nothing but the mark is written, whatever it was.
ReplayWebhook(t) ==
    /\ event[t].mark # "none"
    /\ Operate("replay")
    /\ \E m \in ReplayAnswers(t) : event' = [event EXCEPT ![t].mark = m]
    /\ UNCHANGED <<tables, gate, hd>>

\* Submission got the document acknowledged.
Ack(i) ==
    /\ "ack" \in Ops
    /\ ~docs[i].acked
    /\ docs' = [docs EXCEPT ![i].acked = TRUE]
    /\ UNCHANGED <<event, payment, sales, request, gate, hd, bounds>>

-----------------------------------------------------------------------------

\* What a handler does on its own once it has started.
Process(h) ==
    \/ StkIngest(h)
    \/ StkDuplicate(h)
    \/ MatchPayment(h)
    \/ NextSaleRef(h)
    \/ ApplyRefused(h)
    \/ ApplyDuplicate(h)
    \/ ApplyPayment(h)
    \/ ApplyReversal(h)
    \/ MarkProcessed(h)
    \/ NoteError(h)
    \/ Reconcile(h)
    \/ ConvertRefused(h)
    \/ ConvertCommit(h)
    \/ SettleCommit(h)

Callback(h) ==
    \/ \E t \in Trans, in \in Payloads : Confirmation(h, t, in)
    \/ \E t \in Trans, in \in Payloads : PullTransaction(h, t, in)
    \/ \E r \in DOMAIN request, success \in BOOLEAN : StkResult(h, r, success)

Sweep(t) == \E h \in Handlers : ListUnprocessed(h, t)

Merchant(h) ==
    \/ \E t \in Trans : Convert(h, t, event[t].in.amount, "cash_sale")
    \/ \E t \in Trans, c \in Carts : Convert(h, t, c.total, "matched")
    \/ \E t \in Trans, s \in DOMAIN sales : Link(h, t, s)
    \/ \E s \in DOMAIN sales, t \in Trans \cup {NoTrans} : Settle(h, s, t)

Counter ==
    \/ \E c \in Carts : CreateSale(c)
    \/ \E c \in Carts : CreateCashSale(c)
    \/ \E s \in DOMAIN sales, t \in Trans, recent \in BOOLEAN : CreateSTKRequest(s, t, recent)
    \/ VerifyShortcode
    \/ RejectShortcode
    \/ \E t \in Trans : ReplayWebhook(t)

Next ==
    \/ \E h \in Handlers : Callback(h)
    \/ \E h \in Handlers : Process(h)
    \/ \E h \in Handlers : Merchant(h)
    \/ \E h \in Handlers : TxFails(h)
    \/ \E h \in Handlers : Dies(h)
    \/ \E t \in Trans : Sweep(t)
    \/ Counter
    \/ \E i \in DOMAIN docs : Ack(i)

Spec == Init /\ [][Next]_vars

\* A handler that has started goes on until it ends or dies (the faults are
\* bounded), and the reconciler, which runs every five minutes and works through
\* all it listed, takes up every event that stays unprocessed.
Fairness ==
    /\ \A h \in Handlers : WF_vars(Process(h))
    /\ \A t \in Trans : SF_vars(Sweep(t))

FairSpec == Spec /\ Fairness

-----------------------------------------------------------------------------

SaleRows == [status : {"open", "paid"}, total : Nat,
             payer : {c.payer : c \in Carts} \cup {NoPayer}, recent : BOOLEAN]
RequestRows == [status : {"pending", "success", "failed"}, sale : Nat, amount : Nat,
                payer : {c.payer : c \in Carts}, recent : BOOLEAN, receipt : Trans]
Processed == {"done", "refused", "replayed"}
EventRows == [mark : {"none", "stored"} \cup Processed, raw : {"c2b", "stk"}, in : Payload]
DocRows == [kind : {"INVOICE", "CREDIT_NOTE"}, sale : Nat, pay : Trans \cup {NoTrans},
            parent : Nat, acked : BOOLEAN]
Decisions == [status : Statuses, rule : Rules, sale : Nat, stk : Nat, cash : BOOLEAN]
Pcs == {"idle", "stk", "listed", "resolved", "ref", "matched", "applied", "failed", "convert",
        "settle"}
HandlerRecords == [pc : Pcs, t : Trans \cup {NoTrans}, dec : Decisions, draft : Nat,
                   total : Nat, seen : SUBSET Trans]

\* The columns' types and the foreign keys.
RowsOK ==
    /\ event \in [Trans -> EventRows]
    /\ payment \in [Trans -> [status : Statuses, rule : Rules, sale : 0 .. Len(sales)]]
    /\ sales \in Seq(SaleRows)
    /\ request \in Seq(RequestRows)
    /\ \A r \in DOMAIN request : request[r].sale \in DOMAIN sales
    /\ docs \in Seq(DocRows)
    /\ \A i \in DOMAIN docs : docs[i].sale \in DOMAIN sales /\ docs[i].parent \in 0 .. i - 1

\* Every row stays within its columns' types, and every reference from a
\* payment, a request or a document is to a row that exists (the foreign keys).
TypeOK ==
    /\ RowsOK
    /\ gate \in BOOLEAN
    /\ hd \in [Handlers -> HandlerRecords]
    /\ faults \in 0 .. MaxFaults
    /\ ops \in 0 .. MaxOps

Invoices(s) == {i \in DOMAIN docs : docs[i].kind = "INVOICE" /\ docs[i].sale = s}

\* The handlers and the reconciler (ProcessStoredC2B) mark an event processed
\* without an error only when its payment is in the ledger: whatever crashes,
\* fails, is delivered twice or replayed by an operator in between, they do not
\* tick an M-Pesa payment off and forget it.
MarkedMeansLedgered ==
    \A t \in Trans :
        event[t].mark = "done" /\ event[t].in.kind = "c2b_confirmation" => payment[t].status # "none"

\* The same of every mark without an error, the operator's replay included, which
\* "re-runs the raw payload through the appropriate ingester" (admin.go): once no
\* handler is at work, what is processed without an error is in the ledger.  A
\* replay breaks it.
ProcessedMeansLedgered ==
    (\A h \in Handlers : hd[h].pc = "idle") =>
        \A t \in Trans :
            event[t].mark \in {"done", "replayed"} /\ event[t].in.kind = "c2b_confirmation" =>
                payment[t].status # "none"

\* Payment, sale, invoice and job are one transaction: a sale is paid exactly
\* when there is an invoice for it, and a payment that was matched or made a cash
\* sale has both.
PaidIsInvoiced ==
    /\ \A s \in DOMAIN sales : sales[s].status = "paid" <=> Invoices(s) # {}
    /\ \A t \in Trans : payment[t].status \in {"matched", "cash_sale"} =>
                            Invoices(payment[t].sale) # {}

\* However often and by whomever a transaction is delivered (confirmation, pull,
\* STK callback, overlapping sweeps, retries after a crash), it is behind at most
\* one invoice.
InvoicedOnce ==
    \A t \in Trans :
        Cardinality({i \in DOMAIN docs : docs[i].kind = "INVOICE" /\ docs[i].pay = t}) <= 1

\* A sale gets one invoice: settleSale refuses a sale that is not open, and the
\* matcher looks at open sales only.
SaleInvoicedOnce == \A s \in DOMAIN sales : Cardinality(Invoices(s)) <= 1

\* A payment below the sale's total does not fiscalise it
\* (docs/architecture.md, matching engine).  Not for runs with "settle", which
\* is the merchant's word that the balance came in cash.
PartialNeverInvoiced ==
    \A i \in DOMAIN docs :
        docs[i].kind = "INVOICE" /\ docs[i].pay # NoTrans =>
            event[docs[i].pay].in.amount >= sales[docs[i].sale].total

\* A reversal is mirrored by one credit note however often it is processed.
CreditedOnce ==
    \A i \in DOMAIN docs :
        Cardinality({c \in DOMAIN docs : docs[c].kind = "CREDIT_NOTE" /\ docs[c].parent = i}) <= 1

\* A payment M-Pesa took back has a credit note for every invoice of its sale
\* that KRA acknowledged.
ReversedIsCredited ==
    \A t \in Trans : payment[t].status = "reversed" =>
        \A i \in DOMAIN docs :
            docs[i].kind = "INVOICE" /\ docs[i].pay = t /\ docs[i].acked =>
                \E c \in DOMAIN docs : docs[c].kind = "CREDIT_NOTE" /\ docs[c].parent = i

\* A credit note is only ever made out for an acknowledged invoice of the sale
\* whose payment was reversed.
CreditBacked ==
    \A c \in DOMAIN docs : docs[c].kind = "CREDIT_NOTE" =>
        LET i == docs[c].parent
        IN  i \in 1 .. c - 1 /\ docs[i].kind = "INVOICE" /\ docs[i].acked
            /\ docs[i].sale = docs[c].sale

\* Rows are not taken back: a payment keeps its place in the ledger, a paid sale
\* stays paid, documents are only added, and a processed event is not reopened.
LedgerOnlyGrows ==
    [][/\ \A t \in Trans : payment[t].status # "none" => payment'[t].status # "none"
       /\ \A s \in DOMAIN sales : sales[s].status = "paid" => sales'[s] = sales[s]
       /\ Len(docs') \in {Len(docs), Len(docs) + 1}
       /\ \A t \in Trans : event[t].mark \in Processed => event'[t].mark \in Processed]_vars

\* A payment stays with the sale it was matched to, unless the merchant converts
\* a payment that was unmatched or partial.
PaymentStays ==
    [][\A t \in Trans : payment[t].status \in {"matched", "cash_sale", "reversed"} =>
                            payment'[t].sale = payment[t].sale]_vars

\* Every payment that was stored is in the ledger sooner or later: the reconcile
\* job finishes the events whose first attempt died on the way.  Not for runs with
\* "replay", which takes an event off the reconciler's list.
StoredIsLedgered ==
    \A t \in Trans :
        event[t].mark = "stored" /\ event[t].in.kind = "c2b_confirmation" ~>
            payment[t].status # "none"

-----------------------------------------------------------------------------
(* What makes them inductive: what a handler may rely on between two of    *)
(* its transactions, whatever the others did meanwhile.                    *)

Invoiced(s) == Invoices(s) # {}

\* The event a handler works on is stored, and what it says does not change.
OnEvent(q) ==
    \/ q.pc \in {"listed", "resolved", "matched", "applied", "failed"}
    \/ q.pc = "ref" /\ q.dec.rule # "manual"

\* A decision that pays for a sale names it, or makes it.
Decided(d) ==
    /\ d.status \in {"matched", "cash_sale", "unmatched", "partial"}
    /\ d.cash => d.status \in {"matched", "cash_sale"}
    /\ ~d.cash => d.status # "cash_sale"
    /\ ~d.cash /\ d.status = "matched" => d.sale # NoSale
    /\ d.status = "unmatched" => d.sale = NoSale

HandlerOK(q) ==
    LET d == q.dec
    IN  /\ d.sale \in 0 .. Len(sales) /\ d.stk \in 0 .. Len(request)
        /\ q.pc \notin {"idle", "settle"} => q.t \in Trans
        /\ q.pc = "stk" => d.stk # NoRequest
        /\ q.pc = "matched" => d.rule # "manual"
        /\ OnEvent(q) => event[q.t].mark # "none"
        /\ q.pc \in {"ref", "matched", "convert", "settle"} => Decided(d)
        /\ q.pc \in {"convert", "settle"} \/ (q.pc = "ref" /\ d.rule = "manual") =>
              d.status \in {"matched", "cash_sale"}
        /\ q.pc = "settle" => ~d.cash
        /\ q.pc = "applied" /\ event[q.t].in.kind = "c2b_confirmation" => Recorded(q.t)
        /\ q.pc # "settle" => q.seen = {}
        /\ \A p \in q.seen : Recorded(p) /\ (payment[p].sale = d.sale \/ Invoiced(payment[p].sale))

HandlersOK == \A h \in Handlers : HandlerOK(hd[h])

\* Without conversions, links and settlements a transaction that is behind an
\* invoice is in the ledger.
NoManual == \A h \in Handlers : hd[h].pc \notin {"convert", "settle"} /\ hd[h].dec.rule # "manual"

InvoicedIsLedgered ==
    \A i \in DOMAIN docs : docs[i].kind = "INVOICE" /\ docs[i].pay # NoTrans =>
        Recorded(docs[i].pay) /\ event[docs[i].pay].mark # "none"

\* A request-to-pay asks for the total of its sale, and a decision to close a
\* sale rests on an amount that covers it.
RequestsPriced == \A r \in DOMAIN request : request[r].amount = sales[request[r].sale].total

Covers(q) ==
    q.pc \in {"ref", "matched"} =>
        /\ q.dec.cash => q.total = event[q.t].in.amount
        /\ ~q.dec.cash /\ q.dec.status = "matched" => sales[q.dec.sale].total =< event[q.t].in.amount

\* With one handler, the payment it converts may still be converted when it writes.
Converting(q) == q.pc = "convert" \/ (q.pc = "ref" /\ q.dec.rule = "manual")

StillConvertible(q) == Converting(q) => Convertible(q.t)
=============================================================================
