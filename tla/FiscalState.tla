---------------------------- MODULE FiscalState ----------------------------
(***************************************************************************)
(* The fiscal state machine of an invoice and its retry policy:            *)
(* backend/internal/fiscal/state.go and errors.go.  Pure: no variables.    *)
(***************************************************************************)
EXTENDS Naturals, Sequences

CONSTANT MaxAttempts    \* submission attempts before NEEDS_REVIEW (6 in the code)

ASSUME MaxAttemptsAssumption == MaxAttempts \in Nat \ {0}

State == {"DRAFT", "TAX_PENDING", "QUEUED", "SUBMITTED", "ACKED",
          "FAILED_RETRYABLE", "FAILED_TERMINAL", "NEEDS_REVIEW"}

\* The map of legal moves, as a function from a state to its successors.
transitions ==
    [s \in State |->
        CASE s \in {"DRAFT", "TAX_PENDING", "NEEDS_REVIEW"} -> {"QUEUED"}
          [] s = "QUEUED"           -> {"SUBMITTED"}
          [] s = "SUBMITTED"        -> {"ACKED", "FAILED_RETRYABLE", "FAILED_TERMINAL"}
          [] s = "FAILED_RETRYABLE" -> {"QUEUED", "SUBMITTED", "FAILED_TERMINAL"}
          [] s = "FAILED_TERMINAL"  -> {"NEEDS_REVIEW"}
          [] s = "ACKED"            -> {}]

CanTransition(from, to) == to \in transitions[from]

\* No automatic transition leaves these: only a merchant or an operator does.
Terminal(s) == s \in {"ACKED", "NEEDS_REVIEW", "TAX_PENDING"}

\* What a call to the fiscal provider can come back with, seen through the
\* errors the adapters wrap.  "none" is a nil error; "unknown" is an error no
\* adapter wrapped, such as the text the watchdog leaves in last_error.
Error == {"none", "validation", "config", "transient", "deadline", "unknown"}

Class == {"ok", "retryable", "terminal"}

ClassifyDeadlineOk(err) ==
    CASE err \in {"none", "deadline"}       -> "ok"
      [] err \in {"validation", "config"} -> "terminal"
      [] OTHER                            -> "retryable"

\* Unknown errors are retryable, so that a vendor quirk never parks an invoice.
Classify(err) ==
    CASE err = "none"                     -> "ok"
      [] err \in {"validation", "config"} -> "terminal"
      [] OTHER                            -> "retryable"

\* Minutes before attempt n + 1, after attempt n.
backoffSchedule == <<1, 5, 60, 720, 720>>

Backoff(attempt) ==
    IF attempt < 1 THEN backoffSchedule[1]
    ELSE IF attempt > Len(backoffSchedule) THEN backoffSchedule[Len(backoffSchedule)]
    ELSE backoffSchedule[attempt]

ResolveOneMore(attempt, err) ==
    CASE Classify(err) = "ok"       -> "ACKED"
      [] Classify(err) = "terminal" -> "FAILED_TERMINAL"
      [] OTHER -> IF attempt > MaxAttempts THEN "FAILED_TERMINAL" ELSE "QUEUED"

\* The state that follows attempt number `attempt` when it ended with `err`.
Resolve(attempt, err) ==
    CASE Classify(err) = "ok"       -> "ACKED"
      [] Classify(err) = "terminal" -> "FAILED_TERMINAL"
      [] OTHER -> IF attempt >= MaxAttempts THEN "FAILED_TERMINAL" ELSE "QUEUED"

\* The delay that goes with it: positive only when the invoice is queued again.
RetryIn(attempt, err) ==
    IF Resolve(attempt, err) = "QUEUED" THEN Backoff(attempt) ELSE 0
=============================================================================
