------------------------------ MODULE MCDailyCron ------------------------------
(***************************************************************************)
(* DailyCron for TLC.                                                      *)
(***************************************************************************)
EXTENDS DailyCron, TLC

\* The last of the month, and Monday.
MCSchedules == {[cadence |-> "monthly", day |-> 31], [cadence |-> "weekly", day |-> 1]}

\* Midnight between two weeks, the end of a month of 30 days, the end of the
\* year: Sunday 28, Monday 29 and Tuesday 30 November, Friday 31 December 2027.
MCDays == {FromYmd(2027, 11, 28), FromYmd(2027, 11, 29), FromYmd(2027, 11, 30),
           FromYmd(2027, 12, 31)}

Symmetry == Permutations(Runs)
=============================================================================
