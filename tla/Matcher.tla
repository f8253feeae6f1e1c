------------------------------ MODULE Matcher ------------------------------
(***************************************************************************)
(* What an incoming M-Pesa payment pays for: the pure function Match of    *)
(* backend/internal/ledger/matcher.go.  It decides; Ingest applies.        *)
(*                                                                         *)
(* Sales and requests-to-pay are numbered in the order they were created,  *)
(* and 0 stands for "none found", so that a lookup is a number.            *)
(***************************************************************************)
EXTENDS Naturals

NoSale == 0
NoRequest == 0

Rules == {"none", "bill_ref", "stk_window", "counter_window", "auto_invoice", "manual"}

\* payments.status; "none" stands for no row.
Statuses == {"none", "matched", "cash_sale", "unmatched", "partial", "reversed"}

\* Mutant: any amount does.
CoverAny(amount, total) == "matched"

\* Does the payment close the sale it was found to be for?
Cover(amount, total) == IF amount >= total THEN "matched" ELSE "partial"

\* Decision.  cash is CreateCashSale.
Decision(status, rule, sale, stk, cash) ==
    [status |-> status, rule |-> rule, sale |-> sale, stk |-> stk, cash |-> cash]

NoDecision == Decision("none", "none", NoSale, NoRequest, FALSE)

\* Match.  lk holds what the four lookups found: byRef, stk, byCustomer and
\* byAmount are sales or requests, refTotal and customerTotal the totals of the
\* sales found, stkSale the sale of the request; auto says that the shortcode
\* has auto_invoice and a default item.  Later lookups are only made when the
\* earlier ones found nothing, which is what the order of the tests says.
Match(amount, lk, auto) ==
    IF lk.byRef # NoSale
    THEN Decision(Cover(amount, lk.refTotal), "bill_ref", lk.byRef, NoRequest, FALSE)
    ELSE IF lk.stk # NoRequest
    THEN IF lk.stkSale # NoSale
         THEN Decision("matched", "stk_window", lk.stkSale, lk.stk, FALSE)
         ELSE Decision("cash_sale", "stk_window", NoSale, lk.stk, TRUE)
    ELSE IF lk.byCustomer # NoSale
    THEN Decision(Cover(amount, lk.customerTotal), "counter_window", lk.byCustomer, NoRequest, FALSE)
    ELSE IF lk.byAmount # NoSale
    THEN Decision("matched", "counter_window", lk.byAmount, NoRequest, FALSE)
    ELSE IF auto
    THEN Decision("cash_sale", "auto_invoice", NoSale, NoRequest, TRUE)
    ELSE Decision("unmatched", "none", NoSale, NoRequest, FALSE)
=============================================================================
