\* Two payments with the ref of one sale.
CONSTANTS
    t1 = t1
    t2 = t2
    p1 = p1
    NoTrans = NoTrans
    NoPayer = NoPayer
    Trans = {t1, t2}
    Handlers = {h1, h2}
    Payloads <- RefPayloads
    Carts <- OldCart
    AutoInvoice = FALSE
    Faults = {}
    Ops = {"sale"}
    MaxFaults = 0
    MaxOps = 1
SPECIFICATION Spec
INVARIANTS SaleInvoicedOnce
CHECK_DEADLOCK FALSE
