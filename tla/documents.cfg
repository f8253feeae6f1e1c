\* One sale, two requests at a time, four requests in all.
CONSTANTS
    s1 = s1
    NoSale = NoSale
    Sales = {s1}
    Requests = {r1, r2}
    Ops = {"invoice", "reissue", "claim", "credit", "reversal", "configure", "retry"}
    MaxOps = 4
SPECIFICATION Spec
SYMMETRY Symmetry
INVARIANTS TypeOK OneLive DeclaredOnce CreditCites HeldUntilConfigured ExportMatchesKRA OneActive
PROPERTIES SupersededOnce
CHECK_DEADLOCK FALSE
