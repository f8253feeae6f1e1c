----------------------------- MODULE MCReceipts -----------------------------
(* Instances of Receipts for TLC.                                          *)
EXTENDS Receipts
=============================================================================
