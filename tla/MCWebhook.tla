------------------------------- MODULE MCWebhook -------------------------------
(***************************************************************************)
(* Webhook for TLC.                                                        *)
(***************************************************************************)
EXTENDS Webhook, TLC

Symmetry == Permutations(Invocations)
=============================================================================
