------------------------------ MODULE MCTenant ------------------------------
(* Instances of Tenant for TLC.                                            *)
EXTENDS Tenant, TLC

Symmetry == Permutations(Requests) \cup Permutations(Users) \cup Permutations(Orgs)
=============================================================================
