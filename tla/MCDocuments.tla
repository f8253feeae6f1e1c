---------------------------- MODULE MCDocuments ----------------------------
(* Instances of Documents for TLC.                                         *)
EXTENDS Documents, TLC

CONSTANTS s1

Symmetry == Permutations(Requests)
=============================================================================
