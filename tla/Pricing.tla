------------------------------ MODULE Pricing ------------------------------
(***************************************************************************)
(* A sale from its lines to what KRA is sent: the lines are priced from    *)
(* the catalogue and taxed one by one (backend/internal/ledger/handler.go  *)
(* and service.go), the invoice copies the totals of the sale, and each    *)
(* submission builds its lines anew from the rows of the sale              *)
(* (backend/internal/fiscal).  The merchant edits the catalogue meanwhile. *)
(***************************************************************************)
EXTENDS TaxCodes, Sequences, Functions

CONSTANTS
    Items, NoItem,
    Prices,      \* unit prices and amounts, in cents
    Quantities,
    Cats,        \* the categories of this instance
    MaxLines,    \* bound on the lines of a sale (50 in the code)
    MaxEdits     \* bound on edits of the catalogue

ASSUME PricingAssumption ==
    /\ NoItem \notin Items
    /\ Prices \subseteq Nat \ {0}
    /\ Quantities \subseteq Nat \ {0}
    /\ Cats \subseteq Categories
    /\ MaxLines \in Nat \ {0}
    /\ MaxEdits \in Nat

VARIABLES
    items,  \* price and category of each item
    cart,   \* the lines of the sale so far, with the running totals
    sale,   \* the sale's row and its sale_items, once it is stored
    docs,   \* its invoice and the credit note of it, in this order
    sent,   \* what the adapters sent: one record for each submission
    edits   \* edits so far

vars == <<items, cart, sale, docs, sent, edits>>

EmptyCart == [lines |-> <<>>, subtotal |-> 0, tax |-> 0]
NoSale == [stored |-> FALSE, lines |-> <<>>, subtotal |-> 0, tax |-> 0, total |-> 0]

\* An item may have no price yet.
Init ==
    /\ items \in [Items -> [price : Prices \cup {0}, cat : Cats]]
    /\ cart = EmptyCart
    /\ sale = NoSale
    /\ docs = <<>>
    /\ sent = {}
    /\ edits = 0

Sum(lines, Value(_)) == SumFunction([k \in DOMAIN lines |-> Value(lines[k])])

TotalOf(l) == l.total
TaxOf(l) == l.tax
TaxableOf(l) == l.total - l.tax
TaxblOf(l) == l.taxbl

-----------------------------------------------------------------------------
(* The catalogue and the sale.                                             *)

updateItem(x) ==
    \E p \in Prices, c \in Cats :
        /\ edits < MaxEdits
        /\ edits' = edits + 1
        /\ items[x] # [price |-> p, cat |-> c]
        /\ items' = [items EXCEPT ![x] = [price |-> p, cat |-> c]]
        /\ UNCHANGED <<cart, sale, docs, sent>>

PricedLine(c, q, p) ==
    [cat |-> c, qty |-> q, price |-> p, total |-> q * p, tax |-> LineTax(q * p, RateBP(c))]

WithLine(l) ==
    [lines |-> Append(cart.lines, l),
     subtotal |-> cart.subtotal + l.total - l.tax,
     tax |-> cart.tax + l.tax]

\* One turn of the loop over the lines of the request: what the line leaves
\* open comes from the item, as it is by then.  A line without a price ends
\* the request, and nothing of it is stored.
AddLine ==
    \E x \in Items \cup {NoItem}, q \in Quantities, p \in Prices \cup {0}, c \in Cats \cup {"none"} :
        LET price == IF p = 0 /\ x # NoItem THEN items[x].price ELSE p
            cat   == IF c = "none" /\ x # NoItem THEN items[x].cat ELSE c
        IN /\ ~sale.stored
           /\ Len(cart.lines) < MaxLines
           /\ cart' = IF price = 0 \/ cat = "none" THEN EmptyCart
                      ELSE WithLine(PricedLine(cat, q, price))
           /\ UNCHANGED <<items, sale, docs, sent, edits>>

createSale ==
    /\ ~sale.stored
    /\ cart.lines # <<>>
    /\ sale' = [stored |-> TRUE, lines |-> cart.lines, subtotal |-> cart.subtotal,
                tax |-> cart.tax, total |-> cart.subtotal + cart.tax]
    /\ cart' = EmptyCart
    /\ UNCHANGED <<items, docs, sent, edits>>

\* A payment nobody waited for: one line, of the default item and the amount paid.
createCashSale ==
    \E x \in Items, amount \in Prices :
        LET l == PricedLine(items[x].cat, 1, amount) IN
        /\ ~sale.stored
        /\ cart = EmptyCart
        /\ sale' = [stored |-> TRUE, lines |-> <<l>>, subtotal |-> amount - l.tax,
                    tax |-> l.tax, total |-> amount]
        /\ UNCHANGED <<items, cart, docs, sent, edits>>

-----------------------------------------------------------------------------
(* Documents.                                                              *)

CreateInvoice ==
    /\ sale.stored
    /\ docs = <<>>
    /\ docs' = <<[kind |-> "INVOICE", subtotal |-> sale.subtotal, tax |-> sale.tax,
                  total |-> sale.total]>>
    /\ UNCHANGED <<items, cart, sale, sent, edits>>

CreateCreditNote ==
    /\ Len(docs) = 1
    /\ docs' = Append(docs, [kind |-> "CREDIT_NOTE", subtotal |-> -docs[1].subtotal,
                             tax |-> -docs[1].tax, total |-> -docs[1].total])
    /\ UNCHANGED <<items, cart, sale, sent, edits>>

\* ListSaleItems: the rows of the sale, whatever the kind of the document.
buildDocument(d) ==
    [lines |-> sale.lines, subtotal |-> docs[d].subtotal, tax |-> docs[d].tax,
     total |-> docs[d].total]

Totals(lines) ==
    LET total == Sum(lines, TotalOf)
        tax   == Sum(lines, TaxOf)
    IN [subtotal |-> total - tax, tax |-> tax, total |-> total]

toWireLines(lines) ==
    [k \in DOMAIN lines |-> [taxbl |-> lines[k].total - lines[k].tax, tax |-> lines[k].tax,
                             total |-> lines[k].total]]

\* Mutant: a credit note lists its lines like an invoice.
CreditLinesAsSold(lines) == toWireLines(lines)

toWireCreditLines(lines) ==
    [k \in DOMAIN lines |->
        [taxbl |-> -abs64(lines[k].total - lines[k].tax), tax |-> -abs64(lines[k].tax),
         total |-> -abs64(lines[k].total)]]

validateInvoice(doc) ==
    /\ doc.lines # <<>>
    /\ \A k \in DOMAIN doc.lines : doc.lines[k].total > 0
    /\ Sum(doc.lines, TotalOf) = doc.total

\* The oscu adapter: the totals of an invoice are those of its row, the totals
\* of a credit note are summed from the lines.
OSCUSale(doc) ==
    [subtotal |-> doc.subtotal, tax |-> doc.tax, total |-> doc.total,
     lines |-> toWireLines(doc.lines)]

OSCUCreditNote(doc) ==
    LET t == Totals(doc.lines) IN
    [subtotal |-> -abs64(t.subtotal), tax |-> -abs64(t.tax), total |-> -abs64(t.total),
     lines |-> toWireCreditLines(doc.lines)]

\* The vendor's adapter sends the lines of a credit note as they were sold.
VendorCreditNote(doc) ==
    LET t == Totals(doc.lines) IN
    [subtotal |-> -t.subtotal, tax |-> -t.tax,
     total |-> IF doc.total > 0 THEN -doc.total ELSE doc.total,
     lines |-> toWireLines(doc.lines)]

Wire(adapter, kind, doc) ==
    CASE kind = "INVOICE" -> OSCUSale(doc)
      [] kind = "CREDIT_NOTE" /\ adapter = "oscu" -> OSCUCreditNote(doc)
      [] kind = "CREDIT_NOTE" /\ adapter = "vendor" -> VendorCreditNote(doc)

\* Again on a retry; oscu validates an invoice before it sends it.
Submit(d) ==
    \E adapter \in {"oscu", "vendor"} :
        LET doc == buildDocument(d) IN
        /\ adapter = "oscu" /\ docs[d].kind = "INVOICE" => validateInvoice(doc)
        /\ sent' = sent \cup {[doc |-> d, adapter |-> adapter, kind |-> docs[d].kind,
                               wire |-> Wire(adapter, docs[d].kind, doc)]}
        /\ UNCHANGED <<items, cart, sale, docs, edits>>

\* VATByCategory of the receipt page: a row for each category that occurs.
VATByCategory(lines) ==
    [c \in {lines[k].cat : k \in DOMAIN lines} |->
        LET of == [k \in {k \in DOMAIN lines : lines[k].cat = c} |-> lines[k]]
        IN [taxbl |-> Sum(of, TaxableOf), tax |-> Sum(of, TaxOf)]]

Next ==
    \/ \E x \in Items : updateItem(x)
    \/ AddLine \/ createSale \/ createCashSale
    \/ CreateInvoice \/ CreateCreditNote
    \/ \E d \in DOMAIN docs : Submit(d)

Spec == Init /\ [][Next]_vars

-----------------------------------------------------------------------------
(* Properties.                                                             *)

TaxedAsDocumented(lines) ==
    \A k \in DOMAIN lines :
        LET r == RateBP(lines[k].cat)
        IN lines[k].tax = HalfEven(lines[k].total * r, 10000 + r)

\* The VAT of every line is the one the data model prescribes, although the
\* code rounds ties up and the document to even: at KRA's rates no amount in
\* whole cents is a tie.
TaxAsDocumented == TaxedAsDocumented(cart.lines) /\ TaxedAsDocumented(sale.lines)

AddsUpTo(w) ==
    /\ Sum(w.lines, TotalOf) = w.total
    /\ Sum(w.lines, TaxOf) = w.tax
    /\ Sum(w.lines, TaxblOf) = w.subtotal

\* What KRA is sent adds up, on the first submission and on every retry, whatever
\* has become of the catalogue since: lines to totals for each document oscu
\* sends, and a credit note cancels its invoice to the cent under either adapter.
\* On the receipt page the rows by category add up to the totals of the document
\* shown, when it is an invoice; the rows are those of the sale also on the page
\* of a credit note, and add up to minus its totals.
WireAddsUp ==
    /\ \A s \in sent : s.adapter = "oscu" \/ s.kind = "INVOICE" => AddsUpTo(s.wire)
    /\ \A s, t \in sent :
          s.kind = "INVOICE" /\ t.kind = "CREDIT_NOTE" =>
              /\ s.wire.total + t.wire.total = 0
              /\ s.wire.tax + t.wire.tax = 0
              /\ s.wire.subtotal + t.wire.subtotal = 0
    /\ \A d \in DOMAIN docs :
          LET rows == VATByCategory(sale.lines)
              sign == IF docs[d].kind = "INVOICE" THEN 1 ELSE -1
          IN Sum(rows, TaxOf) = sign * docs[d].tax /\ Sum(rows, TaxblOf) = sign * docs[d].subtotal

-----------------------------------------------------------------------------
(* What makes it inductive.                                                *)

\* The tax of a line is a part of its total.
Within(lines) == \A k \in DOMAIN lines : lines[k].tax \in 0 .. lines[k].total

\* Totals are those of the lines.
Balanced(x) == x.tax = Sum(x.lines, TaxOf) /\ x.subtotal = Sum(x.lines, TaxableOf)

\* The documents copy the totals of the sale, which does not change any more.
InvoiceOf(s) ==
    [kind |-> "INVOICE", subtotal |-> s.subtotal, tax |-> s.tax, total |-> s.total]
CreditNoteOf(s) ==
    [kind |-> "CREDIT_NOTE", subtotal |-> -s.subtotal, tax |-> -s.tax, total |-> -s.total]

Copied ==
    \/ docs = <<>>
    \/ /\ sale.stored
       /\ docs \in {<<InvoiceOf(sale)>>, <<InvoiceOf(sale), CreditNoteOf(sale)>>}

\* What was sent is what would be sent now.
SentAgain ==
    \A s \in sent : /\ s.doc \in DOMAIN docs /\ s.kind = docs[s.doc].kind
                    /\ s.adapter \in {"oscu", "vendor"}
                    /\ s.wire = Wire(s.adapter, s.kind, buildDocument(s.doc))

Books ==
    /\ Within(cart.lines) /\ Within(sale.lines)
    /\ Balanced(cart) /\ Balanced(sale) /\ sale.total = sale.subtotal + sale.tax
    /\ Copied
    /\ SentAgain
=============================================================================
