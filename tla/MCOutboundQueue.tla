--------------------------- MODULE MCOutboundQueue ---------------------------
(***************************************************************************)
(* OutboundQueue for TLC.                                                  *)
(***************************************************************************)
EXTENDS OutboundQueue, TLC

Symmetry == Permutations(Workers)
=============================================================================
