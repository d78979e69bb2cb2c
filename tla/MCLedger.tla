------------------------------- MODULE MCLedger -------------------------------
(***************************************************************************)
(* Ledger for TLC.                                                         *)
(***************************************************************************)
EXTENDS Ledger, TLC

Symmetry == Permutations(Flushes)
=============================================================================
