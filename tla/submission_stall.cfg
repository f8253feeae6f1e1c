\* A worker outlives every timeout, and operators override.
CONSTANTS
    Invoices = {i1}
    Workers = {w1, w2}
    Sweeps = {s1, s2}
    NoWorker = NoWorker
    NoInvoice = NoInvoice
    MaxAttempts = 3
    Adapter = "vendor"
    Faults = {"crash", "claim_err", "persist_err", "skew", "stall"}
    Ops = {"retry", "requeue", "force"}
    MaxFaults = 3
    MaxOps = 2
SPECIFICATION Spec
SYMMETRY Symmetry
INVARIANTS AckBacked
CHECK_DEADLOCK FALSE
