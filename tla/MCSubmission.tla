---------------------------- MODULE MCSubmission ----------------------------
(* Submission on small instances: symmetry for TLC.                        *)
EXTENDS Submission, TLC

\* Workers and sweeps are interchangeable, and so are invoices: no action names
\* one.  Not for the temporal runs.
Symmetry == Permutations(Workers) \union Permutations(Sweeps) \union Permutations(Invoices)
=============================================================================
