------------------------------- MODULE Filing -------------------------------
(***************************************************************************)
(* What filing promises the rest of CiftPay, for each invoice: it is held, *)
(* then pending, it may be parked for review and reopened any number of    *)
(* times, and at most once it is acknowledged.  The acknowledgement gives  *)
(* it the KRA number printed on the receipt and adds one to the            *)
(* organisation's billed usage, together, once, and for good.              *)
(*                                                                         *)
(* Nothing of queues, attempts, crashes or providers: Submission shows     *)
(* that its jobs and sweeps implement this.                                *)
(***************************************************************************)
EXTENDS Integers

CONSTANT Invoices

VARIABLES
    phase,    \* held, pending, review or acked
    number,   \* the KRA invoice number, 0 until there is one
    billed    \* how often the invoice was counted as usage

filingVars == <<phase, number, billed>>

Init ==
    /\ phase \in [Invoices -> {"held", "pending"}]
    /\ number = [i \in Invoices |-> 0]
    /\ billed = [i \in Invoices |-> 0]

\* eTIMS was set up: every held invoice is released at once.
Release ==
    /\ \E i \in Invoices : phase[i] = "held"
    /\ phase' = [i \in Invoices |-> IF phase[i] = "held" THEN "pending" ELSE phase[i]]
    /\ UNCHANGED <<number, billed>>

Park(i) ==
    /\ phase[i] = "pending"
    /\ phase' = [phase EXCEPT ![i] = "review"]
    /\ UNCHANGED <<number, billed>>

Reopen(i) ==
    /\ phase[i] = "review"
    /\ phase' = [phase EXCEPT ![i] = "pending"]
    /\ UNCHANGED <<number, billed>>

\* The number is KRA's: any, but there is one.
Acknowledge(i) ==
    /\ phase[i] = "pending"
    /\ billed[i] = 0
    /\ phase' = [phase EXCEPT ![i] = "acked"]
    /\ number'[i] \in Nat \ {0}
    /\ number' = [number EXCEPT ![i] = number'[i]]
    /\ billed' = [billed EXCEPT ![i] = 1]

Next ==
    \/ Release
    \/ \E i \in Invoices : Park(i) \/ Reopen(i) \/ Acknowledge(i)

Spec == Init /\ [][Next]_filingVars
=============================================================================
