\* Crashes and failures stop; the reconciler goes on.
CONSTANTS
    t1 = t1
    t2 = t2
    p1 = p1
    NoTrans = NoTrans
    NoPayer = NoPayer
    Trans = {t1, t2}
    Handlers = {h1, h2}
    Payloads <- RecoveryPayloads
    Carts <- OldCart
    AutoInvoice = TRUE
    Faults = {"tx_err", "crash"}
    Ops = {"sale"}
    MaxFaults = 2
    MaxOps = 1
SPECIFICATION FairSpec
PROPERTIES StoredIsLedgered
CHECK_DEADLOCK FALSE
