\* Two jobs of the code and one resend; two attempts each, one fault.
CONSTANTS
    Faults = {"crash", "mark_err", "lost"}
    MaxAttempts = 2
    MaxFaults = 1
    MaxResends = 1
SPECIFICATION FairSpec
INVARIANTS TypeOK SentOnce UsageIsSent
PROPERTIES EventuallyTold
CHECK_DEADLOCK FALSE
