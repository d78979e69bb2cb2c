------------------------------- MODULE MCAlerts -------------------------------
(* Instance of Alerts: the end of one month and the next, a February. *)
EXTENDS Alerts, TLC

CONSTANTS t1, t2

MCDays == {FromYmd(2028, 1, 10), FromYmd(2028, 1, 31), FromYmd(2028, 2, 21)}
MCBatches == {<<>>, <<400>>, <<100, 100>>}
MCDeadline == FromYmd(2028, 2, 21)
MCSymmetry == Permutations(Turns)
=============================================================================
