\* Two payments, two handlers, a failing transaction or a crash at any point;
\* STK callback and C2B confirmation of one receipt.
CONSTANTS
    t1 = t1
    t2 = t2
    p1 = p1
    NoTrans = NoTrans
    NoPayer = NoPayer
    Trans = {t1, t2}
    Handlers = {h1, h2}
    Payloads <- MixedPayloads
    Carts <- PayerCart
    AutoInvoice = TRUE
    Faults = {"tx_err", "crash"}
    Ops = {"sale", "cash", "request", "verify", "reject", "replay"}
    MaxFaults = 1
    MaxOps = 2
SPECIFICATION Spec
SYMMETRY Symmetry
INVARIANTS TypeOK MarkedMeansLedgered PaidIsInvoiced PartialNeverInvoiced InvoicedOnce
PROPERTIES LedgerOnlyGrows
CHECK_DEADLOCK FALSE
