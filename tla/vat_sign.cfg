\* An acknowledged invoice and its acknowledged credit note.
CONSTANTS
    s1 = s1
    NoSale = NoSale
    Sales = {s1}
    Requests = {r1}
    Ops = {"invoice", "reversal"}
    MaxOps = 2
SPECIFICATION Spec
INVARIANTS PositionIsDeclared
CHECK_DEADLOCK FALSE
