\* Failed persists only, one sweep at a time: nothing is forgotten.
CONSTANTS
    Invoices = {i1, i2}
    Workers = {w1, w2}
    Sweeps = {s1}
    NoWorker = NoWorker
    NoInvoice = NoInvoice
    MaxAttempts = 3
    Adapter = "oscu"
    Faults = {"persist_err"}
    Ops = {}
    MaxFaults = 3
    MaxOps = 0
SPECIFICATION FairSpec
INVARIANTS AwaitingHasJob AttemptBound FilingsCounted
PROPERTIES AttemptsCount EventuallySettled
CHECK_DEADLOCK FALSE
