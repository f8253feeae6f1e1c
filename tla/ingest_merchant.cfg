\* One request at a time: the merchant converts, links and settles, M-Pesa
\* reverses, KRA acknowledges.
CONSTANTS
    t1 = t1
    t2 = t2
    p1 = p1
    NoTrans = NoTrans
    NoPayer = NoPayer
    Trans = {t1, t2}
    Handlers = {h1}
    Payloads <- MerchantPayloads
    Carts <- OldCart
    AutoInvoice = FALSE
    Faults = {}
    Ops = {"sale", "convert", "link", "settle", "ack"}
    MaxFaults = 0
    MaxOps = 4
SPECIFICATION Spec
INVARIANTS SaleInvoicedOnce CreditBacked
PROPERTIES PaymentStays
CHECK_DEADLOCK FALSE
