----------------------------- MODULE MCInbound -----------------------------
(***************************************************************************)
(* Inbound for TLC.  Times keep the order of the code's constants: claim   *)
(* TTL < maxDuration < confirmation TTL < the cron's retention periods.    *)
(***************************************************************************)
EXTENDS Inbound, TLC

\* "log" is a safe expense, "delete" needs a confirmation.
MCRisk == [p \in Plans |-> IF p = "log" THEN "Safe" ELSE "NeedsConfirmation"]

Symmetry == Permutations(Handlers)
=============================================================================
