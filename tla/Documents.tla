----------------------------- MODULE Documents -----------------------------
(***************************************************************************)
(* The documents of a sale after it is paid: the invoice, its reissue with *)
(* a buyer's PIN, the credit notes, and the eTIMS configuration that holds *)
(* them back or lets them go (backend/internal/ledger/service.go and       *)
(* backend/internal/org/etims.go).                                         *)
(*                                                                         *)
(* A request reads in one step and commits in a later one: the transaction *)
(* is READ COMMITTED and locks no row it reads.  Filing is Submission's;   *)
(* here a document only moves between the states that module gives it.     *)
(***************************************************************************)
EXTENDS Reports

CONSTANTS
    Sales,      \* sales with one payment each
    NoSale,
    Requests,   \* requests of the api that may run at the same time
    Ops,        \* what may be asked for in this instance
    MaxOps      \* bound on the number of requests

OpKinds == {"invoice", "reissue", "claim", "credit", "reversal", "configure", "retry"}

ASSUME DocumentsAssumption ==
    /\ NoSale \notin Sales
    /\ Ops \subseteq OpKinds
    /\ MaxOps \in Nat

VARIABLES
    docs,    \* invoices, in the order they were created; an id is a place
    pay,     \* the payment of each sale: none yet, matched, reversed
    etims,   \* orgs.etims_status
    queue,   \* documents with a live submit job
    req,     \* where each request is, and what it has read
    mishap,  \* what has happened so far that the code does not defend against
    ops      \* requests so far

vars == <<docs, pay, etims, queue, req, mishap, ops>>

\* stale: a request committed on reads that no longer held.
\* early: an invoice was replaced, credited or reversed before KRA acknowledged it.
\* again: a sale was reversed or reissued whose payment was reversed already.
\* cut: a request ended between SetEtimsConfigured and ActivateTaxPending.
Mishaps == {"stale", "early", "again", "cut"}

Free(kinds) == mishap \cap kinds = {}

NoRead == [doc |-> NoDoc, acked |-> FALSE, ready |-> FALSE]
Idle == [pc |-> "idle", sale |-> NoSale, arg |-> NoDoc, read |-> NoRead]

Init ==
    /\ docs = <<>>
    /\ pay = [s \in Sales |-> "none"]
    /\ etims \in {"unconfigured", "initialized"}
    /\ queue = {}
    /\ req = [r \in Requests |-> Idle]
    /\ mishap = {}
    /\ ops = 0

Becomes(r, rec) == req' = [req EXCEPT ![r] = rec]

\* A request begins: one more of the instance's operations.
Asks(r, op) ==
    /\ op \in Ops
    /\ ops < MaxOps
    /\ ops' = ops + 1
    /\ req[r] = Idle

-----------------------------------------------------------------------------
(* Rows and the writes the operations share.                               *)

Row(s, kind, parent, state) ==
    [sale |-> s, kind |-> kind, parent |-> parent, state |-> state, by |-> NoDoc,
     total |-> IF kind = "INVOICE" THEN 1 ELSE -1, cites |-> NoDoc]

\* Held back until the merchant has configured eTIMS.
FirstState(ready) == IF ready THEN "QUEUED" ELSE "TAX_PENDING"

\* Mutant: the pointer goes to the parent of the superseding document.
SupersedeByParent(rows, D, by) ==
    [d \in DOMAIN rows |-> IF d \in D THEN [rows[d] EXCEPT !.by = rows[by].parent] ELSE rows[d]]

\* An UPDATE by id, whatever the row says by then.
SupersedeInvoice(rows, D, by) ==
    [d \in DOMAIN rows |-> IF d \in D THEN [rows[d] EXCEPT !.by = by] ELSE rows[d]]

\* EnqueueTx of what this transaction created, when it is to be filed.
Enqueued(ready, D) == IF ready THEN queue \cup D ELSE queue

-----------------------------------------------------------------------------
(* What the transactions read.                                             *)

Ready == etims = "initialized"

ReadForInvoice(s) == [doc |-> NoDoc, acked |-> FALSE, ready |-> Ready]

\* Mutant: the invoice asked for is replaced, not the end of its chain.
ReadGivenInvoice(d) == [doc |-> d, acked |-> docs[d].state = "ACKED", ready |-> Ready]

ReadForReissue(d) ==
    LET orig == ActiveInvoice(docs, d)
    IN [doc |-> orig, acked |-> docs[orig].state = "ACKED", ready |-> Ready]

ReadForCredit(d) == [doc |-> d, acked |-> docs[d].state = "ACKED", ready |-> Ready]

\* The credit note of a reversal is queued whether or not eTIMS is configured.
ReadForReversal(s) ==
    LET inv == GetAckedInvoiceForSale(docs, s)
    IN [doc |-> inv, acked |-> TRUE, ready |-> TRUE]

\* Mutant: a superseded invoice may be credited.
MayCreditSuperseded(d) ==
    docs[d].kind = "INVOICE" /\ FindCreditNoteForParent(docs, d) = {}

\* Mutant: an invoice that has a credit note may be credited.
MayCreditTwice(d) == docs[d].kind = "INVOICE" /\ docs[d].by = NoDoc

\* The guards of CreateCreditNoteForInvoice; they are read, not locked.
MayCredit(d) ==
    /\ docs[d].kind = "INVOICE"
    /\ docs[d].by = NoDoc
    /\ FindCreditNoteForParent(docs, d) = {}

ReadAgain(r) ==
    CASE req[r].pc = "invoice"  -> ReadForInvoice(req[r].sale)
      [] req[r].pc = "reissue"  -> ReadForReissue(req[r].arg)
      [] req[r].pc = "credit"   -> ReadForCredit(req[r].arg)
      [] req[r].pc = "reversal" -> ReadForReversal(req[r].sale)

\* A commit is stale when a credit note or a replacement would have been
\* refused or made out differently by now.
Refused(r) ==
    \/ /\ req[r].pc = "reissue"
       /\ docs[ReadForReissue(req[r].arg).doc].kind # "INVOICE"
    \/ /\ req[r].pc = "credit"
       /\ ~MayCredit(req[r].arg)

Again(s) == IF pay[s] = "reversed" THEN {"again"} ELSE {}

Early(ok) == IF ok THEN {} ELSE {"early"}

Noted(r, kinds) ==
    mishap' = mishap \cup kinds \cup
              (IF req[r].read # ReadAgain(r) \/ Refused(r) THEN {"stale"} ELSE {})

-----------------------------------------------------------------------------
(* The invoice of a paid sale.                                             *)

CreateInvoiceForSale(r, s) ==
    /\ Asks(r, "invoice")
    /\ pay[s] = "none"
    /\ \A q \in Requests : req[q].sale # s
    /\ Becomes(r, [Idle EXCEPT !.pc = "invoice", !.sale = s, !.read = ReadForInvoice(s)])
    /\ UNCHANGED <<docs, pay, etims, queue, mishap>>

CommitInvoice(r) ==
    LET read == req[r].read IN
    /\ req[r].pc = "invoice"
    /\ docs' = Append(docs, Row(req[r].sale, "INVOICE", NoDoc, FirstState(read.ready)))
    /\ queue' = Enqueued(read.ready, {Len(docs) + 1})
    /\ pay' = [pay EXCEPT ![req[r].sale] = "matched"]
    /\ Noted(r, {})
    /\ Becomes(r, Idle)
    /\ UNCHANGED <<etims, ops>>

-----------------------------------------------------------------------------
(* Reissue, by the merchant and by the buyer.                              *)

StartReissue(r, d) ==
    /\ docs[ReadForReissue(d).doc].kind = "INVOICE"
    /\ Becomes(r, [Idle EXCEPT !.pc = "reissue", !.arg = d, !.read = ReadForReissue(d)])

reissueInvoice(r, d) ==
    /\ Asks(r, "reissue")
    /\ StartReissue(r, d)
    /\ UNCHANGED <<docs, pay, etims, queue, mishap>>

\* The buyer's page: the code is looked up in a transaction of its own.  A claim
\* whose lookup fails ends there.
ClaimReceiptByCode(r, d) ==
    /\ Asks(r, "claim")
    /\ GetInvoiceByReceiptCode(docs, d) # NoDoc
    /\ Becomes(r, [Idle EXCEPT !.pc = "claim", !.arg = GetInvoiceByReceiptCode(docs, d)])
    /\ UNCHANGED <<docs, pay, etims, queue, mishap>>

ClaimReissues(r) ==
    /\ req[r].pc = "claim"
    /\ \/ StartReissue(r, req[r].arg)
       \/ /\ docs[ReadForReissue(req[r].arg).doc].kind # "INVOICE"
          /\ Becomes(r, Idle)
    /\ UNCHANGED <<docs, pay, etims, queue, mishap, ops>>

\* Mutant: the credit note of a reissue stays a document of its own.
SupersededWithoutNote(orig, cn) == {orig}

SupersededByReissue(orig, cn) == IF cn = NoDoc THEN {orig} ELSE {orig, cn}

ReissueInvoice(r) ==
    LET read == req[r].read
        s    == docs[read.doc].sale
        cn   == IF read.acked THEN Len(docs) + 1 ELSE NoDoc
        note == IF read.acked
                THEN <<Row(s, "CREDIT_NOTE", read.doc, FirstState(read.ready))>> ELSE <<>>
        inv  == Len(docs) + Len(note) + 1
        new  == Row(s, "INVOICE", IF read.acked THEN cn ELSE read.doc, FirstState(read.ready))
    IN /\ req[r].pc = "reissue"
       /\ docs' = SupersedeInvoice(docs \o note \o <<new>>, SupersededByReissue(read.doc, cn), inv)
       /\ queue' = Enqueued(read.ready, (Len(docs) + 1) .. inv)
       /\ Noted(r, Early(read.acked) \cup Again(s))
       /\ Becomes(r, Idle)
       /\ UNCHANGED <<pay, etims, ops>>

-----------------------------------------------------------------------------
(* Credit notes, by the merchant and by a reversal of the payment.         *)

createCreditNote(r, d) ==
    /\ Asks(r, "credit")
    /\ MayCredit(d)
    /\ Becomes(r, [Idle EXCEPT !.pc = "credit", !.arg = d, !.read = ReadForCredit(d)])
    /\ UNCHANGED <<docs, pay, etims, queue, mishap>>

\* Whether the invoice is ACKED is not asked.
CreateCreditNoteForInvoice(r) ==
    LET read == req[r].read
        s    == docs[read.doc].sale
        cn   == Len(docs) + 1
        note == Row(s, "CREDIT_NOTE", read.doc, FirstState(read.ready))
    IN /\ req[r].pc = "credit"
       /\ docs' = SupersedeInvoice(Append(docs, note), {read.doc}, cn)
       /\ queue' = Enqueued(read.ready, {cn})
       /\ pay' = [pay EXCEPT ![s] = "reversed"]
       /\ Noted(r, Early(read.acked))
       /\ Becomes(r, Idle)
       /\ UNCHANGED <<etims, ops>>

reversalArrives(r, s) ==
    /\ Asks(r, "reversal")
    /\ pay[s] # "none"
    /\ Becomes(r, [Idle EXCEPT !.pc = "reversal", !.sale = s, !.read = ReadForReversal(s)])
    /\ UNCHANGED <<docs, pay, etims, queue, mishap>>

\* Neither a second reversal nor the merchant's credit note is noticed.
applyReversal(r) ==
    LET read == req[r].read
        s    == req[r].sale
        cn   == Len(docs) + 1
    IN /\ req[r].pc = "reversal"
       /\ pay' = [pay EXCEPT ![s] = "reversed"]
       /\ \/ /\ read.doc = NoDoc
             /\ UNCHANGED <<docs, queue>>
          \/ /\ read.doc # NoDoc
             /\ docs' = Append(docs, Row(s, "CREDIT_NOTE", read.doc, "QUEUED"))
             /\ queue' = queue \cup {cn}
       /\ Noted(r, Early(read.doc = NewestInvoiceForSale(docs, s)) \cup Again(s))
       /\ Becomes(r, Idle)
       /\ UNCHANGED <<etims, ops>>

-----------------------------------------------------------------------------
(* Connecting to KRA.                                                      *)

\* RegisterDevice is called outside any transaction; ok is KRA's answer.
ConfigureEtims(r) ==
    \E ok \in BOOLEAN :
        /\ Asks(r, "configure")
        /\ Becomes(r, [Idle EXCEPT !.pc = "set", !.read = [NoRead EXCEPT !.ready = ok]])
        /\ UNCHANGED <<docs, pay, etims, queue, mishap>>

SetEtimsConfigured(r) ==
    /\ req[r].pc = "set"
    /\ req[r].read.ready
    /\ etims' = "initialized"
    /\ Becomes(r, [req[r] EXCEPT !.pc = "activate"])
    /\ UNCHANGED <<docs, pay, queue, mishap, ops>>

\* Also when another request has initialized the organisation meanwhile.
SetEtimsFailed(r) ==
    /\ req[r].pc = "set"
    /\ ~req[r].read.ready
    /\ etims' = "failed"
    /\ Becomes(r, Idle)
    /\ UNCHANGED <<docs, pay, queue, mishap, ops>>

\* Mutant: only invoices are let go, not credit notes.
HeldInvoices == {d \in DOMAIN docs : docs[d].state = "TAX_PENDING" /\ docs[d].kind = "INVOICE"}

ActivateTaxPendingInvoices == {d \in DOMAIN docs : docs[d].state = "TAX_PENDING"}

ActivateTaxPending(r) ==
    /\ req[r].pc = "activate"
    /\ docs' = [d \in DOMAIN docs |->
                   IF d \in ActivateTaxPendingInvoices
                   THEN [docs[d] EXCEPT !.state = "QUEUED"] ELSE docs[d]]
    /\ queue' = queue \cup ActivateTaxPendingInvoices
    /\ Becomes(r, Idle)
    /\ UNCHANGED <<pay, etims, mishap, ops>>

\* A request ends before it commits: a failed transaction, the 30 s timeout, a
\* crash.  The error of a failed activation is only logged.
Ends(r) ==
    /\ req[r].pc # "idle"
    /\ mishap' = IF req[r].pc = "activate" THEN mishap \cup {"cut"} ELSE mishap
    /\ Becomes(r, Idle)
    /\ UNCHANGED <<docs, pay, etims, queue, ops>>

-----------------------------------------------------------------------------
(* Filing, as Submission describes it.                                     *)

Moves(d, state) == docs' = [docs EXCEPT ![d].state = state]

\* parentKRANo: the number KRA gave the parent, if it has one by now.
ParentKRANo(d) ==
    LET parent == docs[d].parent
    IN IF docs[d].kind = "CREDIT_NOTE" /\ parent # NoDoc /\ docs[parent].state = "ACKED"
       THEN parent ELSE NoDoc

Submit(d) ==
    /\ d \in queue
    /\ docs[d].state = "QUEUED"
    /\ docs' = [docs EXCEPT ![d].state = "SUBMITTED", ![d].cites = ParentKRANo(d)]
    /\ UNCHANGED <<pay, etims, queue, req, mishap, ops>>

AckInvoice(d) ==
    /\ docs[d].state = "SUBMITTED"
    /\ Moves(d, "ACKED")
    /\ queue' = queue \ {d}
    /\ UNCHANGED <<pay, etims, req, mishap, ops>>

RetryLater(d) ==
    /\ docs[d].state = "SUBMITTED"
    /\ Moves(d, "QUEUED")
    /\ UNCHANGED <<pay, etims, queue, req, mishap, ops>>

Park(d) ==
    /\ docs[d].state = "SUBMITTED"
    /\ Moves(d, "NEEDS_REVIEW")
    /\ queue' = queue \ {d}
    /\ UNCHANGED <<pay, etims, req, mishap, ops>>

\* Also of an invoice that was superseded while it was parked.
retryInvoice(d) ==
    /\ "retry" \in Ops
    /\ ops < MaxOps
    /\ ops' = ops + 1
    /\ docs[d].state = "NEEDS_REVIEW"
    /\ Moves(d, "QUEUED")
    /\ queue' = queue \cup {d}
    /\ UNCHANGED <<pay, etims, req, mishap>>

-----------------------------------------------------------------------------
Next ==
    \/ \E r \in Requests :
        \/ \E s \in Sales : CreateInvoiceForSale(r, s) \/ reversalArrives(r, s)
        \/ \E d \in DOMAIN docs :
              reissueInvoice(r, d) \/ ClaimReceiptByCode(r, d) \/ createCreditNote(r, d)
        \/ CommitInvoice(r) \/ ClaimReissues(r) \/ ReissueInvoice(r)
        \/ CreateCreditNoteForInvoice(r) \/ applyReversal(r)
        \/ ConfigureEtims(r) \/ SetEtimsConfigured(r) \/ SetEtimsFailed(r)
        \/ ActivateTaxPending(r) \/ Ends(r)
    \/ \E d \in DOMAIN docs :
        Submit(d) \/ AckInvoice(d) \/ RetryLater(d) \/ Park(d) \/ retryInvoice(d)

Spec == Init /\ [][Next]_vars

-----------------------------------------------------------------------------
(* Properties.                                                             *)

Ids == 0 .. Len(docs)

Doc == [sale : Sales, kind : {"INVOICE", "CREDIT_NOTE"}, parent : Nat, by : Nat, cites : Nat,
        state : {"TAX_PENDING", "QUEUED", "SUBMITTED", "ACKED", "NEEDS_REVIEW"}, total : {1, -1}]

Request ==
    [pc : {"idle", "invoice", "claim", "reissue", "credit", "reversal", "set", "activate"},
     sale : Sales \cup {NoSale}, arg : Nat,
     read : [doc : Nat, acked : BOOLEAN, ready : BOOLEAN]]

\* The shape of the rows: ids point at rows there are, a pointer to the
\* superseding document points forward and one to the parent back.
TypeOK ==
    /\ docs \in Seq(Doc)
    /\ \A d \in DOMAIN docs : /\ docs[d].by \in {NoDoc} \cup ((d + 1) .. Len(docs))
                              /\ docs[d].parent < d
                              /\ docs[d].cites \in {NoDoc, docs[d].parent}
    /\ pay \in [Sales -> {"none", "matched", "reversed"}]
    /\ etims \in {"unconfigured", "initialized", "failed"}
    /\ queue \subseteq DOMAIN docs
    /\ req \in [Requests -> Request]
    /\ \A r \in Requests : req[r].arg \in Ids /\ req[r].read.doc \in Ids
    /\ mishap \subseteq Mishaps
    /\ ops \in 0 .. MaxOps

OfSale(s, kind) == {d \in DOMAIN docs : docs[d].sale = s /\ docs[d].kind = kind}

\* However often an invoice is reissued by the merchant and claimed by the
\* buyer, through whichever of its codes, a sale has one invoice that nothing
\* supersedes (ReissueInvoice resolves the chain), unless two of the requests
\* crossed.
OneLive ==
    Free({"stale"}) =>
        \A s \in Sales : Cardinality({d \in OfSale(s, "INVOICE") : docs[d].by = NoDoc}) =< 1

\* A document that was superseded keeps its successor: neither reissue nor
\* credit note amends it again, unless two requests crossed.
SupersededOnce ==
    [][\A d \in DOMAIN docs :
          docs[d].by # NoDoc /\ docs'[d].by # docs[d].by => "stale" \in mishap']_vars

\* The documents of a sale, filed or on their way, declare it once while its
\* payment stands and not at all once it is reversed, after any sequence of
\* reissues, claims, credit notes and reversals, none of which came too early,
\* twice, or across another.
DeclaredOnce ==
    Free({"stale", "early", "again"}) =>
        \A s \in Sales :
            TotalOver(docs, OfSale(s, "INVOICE") \cup OfSale(s, "CREDIT_NOTE"))
            = IF pay[s] = "matched" THEN 1 ELSE 0

\* A credit note KRA has acknowledged cites the number of the invoice it
\* credits: the reissue makes one only for an ACKED invoice and the reversal
\* looks for one; only the merchant's own credit note may come too early.
CreditCites ==
    Free({"early", "stale"}) =>
        \A d \in DOMAIN docs :
            docs[d].kind = "CREDIT_NOTE" /\ docs[d].state = "ACKED" => docs[d].cites = docs[d].parent

\* Once the organisation is initialized and the activation has run, no
\* document is held back: those created before were let go, those created
\* since were queued.
HeldUntilConfigured ==
    /\ Ready
    /\ Free({"stale", "cut"})
    /\ \A r \in Requests : req[r].pc # "activate"
    => \A d \in DOMAIN docs : docs[d].state # "TAX_PENDING"

\* When KRA has acknowledged everything, the iTax export adds up to what it
\* acknowledged.  The merchant's own credit note is the exception: it
\* supersedes its invoice, so the export lists the note and not the invoice.
ExportMatchesKRA ==
    /\ Free({"stale", "early", "again"})
    /\ \A d \in DOMAIN docs : docs[d].state = "ACKED"
    /\ \A d \in DOMAIN docs : docs[d].by # NoDoc => docs[docs[d].by].kind = "INVOICE"
    => ExportItaxCSV(docs) = Declared(docs)

\* Whichever invoice of a sale the merchant asks to reissue, the one he was shown
\* or any it replaced, ReissueInvoice amends the same document: the chains of
\* superseded_by_id meet in one, which nothing supersedes, be it an invoice or
\* the merchant's credit note, unless two requests crossed.
OneActive ==
    Free({"stale"}) =>
        \A s \in Sales : \A d, e \in OfSale(s, "INVOICE") :
            /\ ActiveInvoice(docs, d) = ActiveInvoice(docs, e)
            /\ docs[ActiveInvoice(docs, d)].by = NoDoc

-----------------------------------------------------------------------------
(* What the repository says, where the code disagrees.                     *)

\* The VAT position is the sum of the documents KRA acknowledged, credit notes
\* with their negative totals.
PositionIsDeclared == VATPosition(docs) = Declared(docs)

\* The code on a receipt opens the latest document of its chain, also when the
\* invoice it was printed on has been superseded.
OnePage == \A d \in DOMAIN docs : GetInvoiceByReceiptCode(docs, d) = ActiveInvoice(docs, d)

-----------------------------------------------------------------------------
(* What makes them inductive: what a request may rely on between its reads *)
(* and its commit, whatever the others committed meanwhile.                *)

\* An acknowledged invoice.
IsAcked(d) == docs[d].kind = "INVOICE" /\ docs[d].state = "ACKED"

RequestOK(q) ==
    LET d == q.read.doc
    IN  /\ q.pc \in {"invoice", "reversal"} <=> q.sale \in Sales
        /\ q.pc = "invoice" => pay[q.sale] = "none"
        /\ q.pc = "reversal" => pay[q.sale] # "none" /\ (d # NoDoc => IsAcked(d) /\ docs[d].sale = q.sale)
        /\ q.pc \in {"claim", "reissue", "credit"} => q.arg # NoDoc
        /\ q.pc \in {"reissue", "credit"} =>
              d # NoDoc /\ docs[d].kind = "INVOICE" /\ (q.read.acked => docs[d].state = "ACKED")
        /\ q.pc = "credit" => d = q.arg

RequestsOK == \A r \in Requests : RequestOK(req[r])

\* A sale whose payment is not there has no document, and one request at most
\* makes its first.
Unpaid ==
    /\ \A d \in DOMAIN docs : pay[docs[d].sale] # "none"
    /\ \A r, q \in Requests : req[r].pc = "invoice" /\ req[q].sale = req[r].sale => q = r

\* A successor is of the same sale, and a credit note that is one has none.
Chained ==
    \A d \in DOMAIN docs : docs[d].by # NoDoc =>
        LET e == docs[d].by
        IN  docs[e].sale = docs[d].sale /\ (docs[e].kind = "CREDIT_NOTE" => docs[e].by = NoDoc)

\* The last row of a chain of invoices.
IsEnd(d) ==
    docs[d].by = NoDoc /\ (docs[d].kind = "INVOICE" \/ \E x \in DOMAIN docs : docs[x].by = d)

\* A sale has one chain.
EndsApart == \A d, e \in DOMAIN docs : IsEnd(d) /\ IsEnd(e) /\ docs[d].sale = docs[e].sale => d = e

\* A credit note that did not come early is for an acknowledged invoice, which
\* it cites once it is with KRA.
Credits ==
    \A c \in DOMAIN docs : docs[c].kind = "CREDIT_NOTE" =>
        /\ docs[c].parent # NoDoc /\ IsAcked(docs[c].parent)
        /\ docs[c].state \in {"SUBMITTED", "ACKED"} => docs[c].cites = docs[c].parent

\* The sign of a total is that of the kind.
Signed == \A d \in DOMAIN docs : docs[d].total = IF docs[d].kind = "INVOICE" THEN 1 ELSE -1

\* A sale whose payment stands has an invoice; once the payment is reversed,
\* none of its invoices may be credited any more.
Closed ==
    \A s \in Sales :
        /\ pay[s] = "matched" => OfSale(s, "INVOICE") # {}
        /\ pay[s] = "reversed" => \A d \in OfSale(s, "INVOICE") : ~MayCredit(d)

\* Documents that an invoice replaced, each with the credit note of it.
Corrected == {d \in DOMAIN docs : docs[d].by # NoDoc /\ docs[docs[d].by].kind = "INVOICE"}

Cancelled == TotalOver(docs, Corrected) = 0
=============================================================================
