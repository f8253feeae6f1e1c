------------------------------ MODULE Reports ------------------------------
(***************************************************************************)
(* What the merchant, the buyer and the tax return read from the documents *)
(* of an organisation: the queries behind backend/internal/reports and the *)
(* public receipt page (backend/internal/publicapi).  Pure: every operator *)
(* takes the invoices table, a sequence of rows in order of creation.  A   *)
(* row's total is +1 or -1, in units of its sale's total; periods are left *)
(* out, as every document of an instance falls into one.                   *)
(***************************************************************************)
EXTENDS Integers, Sequences, FiniteSets, FiniteSetsExt

NoDoc == 0

-----------------------------------------------------------------------------
(* Lookups by id, by parent, by sale.                                      *)

\* superseded_by_id followed for at most n hops.
Follow(docs, d, n) ==
    LET at[k \in 0 .. n] ==
            IF k = 0 THEN d
            ELSE IF docs[at[k - 1]].by = NoDoc THEN at[k - 1] ELSE docs[at[k - 1]].by
    IN at[n]

\* The loop of ReissueInvoice: down to the end of the chain.
ActiveInvoice(docs, d) == Follow(docs, d, Len(docs))

\* The policy invoices_public_receipt shows a row that has the transaction's
\* code.  Any other it looks for in get_receipt_chain_invoice_ids, whose own
\* query of invoices is under the same policy: the function is SECURITY DEFINER,
\* but its owner is the application's role and the table has FORCE ROW LEVEL
\* SECURITY.  The two call each other until the statement fails.
PolicyRecurses(code, d) == d # code

\* The recursive query of the public page.  It joins the superseding row of a
\* row that has one, and so fails; NoDoc stands for the error.
GetInvoiceByReceiptCode(docs, d) ==
    IF docs[d].by # NoDoc /\ PolicyRecurses(d, docs[d].by) THEN NoDoc ELSE d

FindCreditNoteForParent(docs, d) ==
    {c \in DOMAIN docs : docs[c].kind = "CREDIT_NOTE" /\ docs[c].parent = d}

Newest(S) == IF S = {} THEN NoDoc ELSE Max(S)

\* Of any state.
NewestInvoiceForSale(docs, s) ==
    Newest({d \in DOMAIN docs : docs[d].sale = s /\ docs[d].kind = "INVOICE"})

\* superseded_by_id is not looked at.
GetAckedInvoiceForSale(docs, s) ==
    Newest({d \in DOMAIN docs :
               docs[d].sale = s /\ docs[d].kind = "INVOICE" /\ docs[d].state = "ACKED"})

-----------------------------------------------------------------------------
(* Sums.                                                                   *)

TotalOver(docs, D) == MapThenSumSet(LAMBDA d : docs[d].total, D)

\* The CASE of both VAT queries: a credit note's total is negated, although it
\* is negative already.
SignedByKind(docs, D) ==
    MapThenSumSet(LAMBDA d : IF docs[d].kind = "INVOICE" THEN docs[d].total ELSE -docs[d].total, D)

VATPosition(docs) == SignedByKind(docs, {d \in DOMAIN docs : docs[d].state = "ACKED"})

ListItaxReportRows(docs) ==
    {d \in DOMAIN docs : docs[d].state \in {"ACKED", "SUBMITTED"} /\ docs[d].by = NoDoc}

\* The export joins the lines of the sale, which are positive, and signs them
\* by the kind of the document.
ExportItaxCSV(docs) ==
    MapThenSumSet(LAMBDA d : IF docs[d].kind = "CREDIT_NOTE" THEN -1 ELSE 1,
                  ListItaxReportRows(docs))

\* What KRA holds: the sum of what it acknowledged.
Declared(docs) == TotalOver(docs, {d \in DOMAIN docs : docs[d].state = "ACKED"})
=============================================================================
