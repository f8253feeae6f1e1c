\* One invoice and the attempts of the code, every fault but a stall, merchant and operator.
CONSTANTS
    Invoices = {i1}
    Workers = {w1, w2}
    Sweeps = {s1, s2}
    NoWorker = NoWorker
    NoInvoice = NoInvoice
    MaxAttempts = 6
    Adapter = "contract"
    Faults = {"crash", "claim_err", "persist_err", "skew"}
    Ops = {"retry", "requeue"}
    MaxFaults = 3
    MaxOps = 2
SPECIFICATION Spec
SYMMETRY Symmetry
INVARIANTS TypeOK SingleFlight BilledOnce
PROPERTIES AckedIsFinal ImplementsFiling
CHECK_DEADLOCK FALSE
