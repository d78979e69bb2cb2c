-------------------------------- MODULE Alerts --------------------------------
(***************************************************************************)
(* What the user is told about a budget and a goal, and when.              *)
(*                                                                         *)
(* A turn that logs expenses reads the category's month before its flush   *)
(* (append_budget_reaction) and says so in its reply when its own expenses *)
(* take the category to 80% of the limit or past it.  It sums up what the  *)
(* turn logs and nothing else the turn does: a correction of the same turn,*)
(* a new limit, or a contribution, which is an expense of Savings/Goals,   *)
(* change the month past the line.  The reply of a turn that must be       *)
(* confirmed is dropped for a question, and the answer to yes is not       *)
(* computed again.  The cron looks at the same month with its projection,  *)
(* and at the goals with their pace.                                       *)
(*                                                                         *)
(* One category with a budget, one goal with a deadline; a turn logs and   *)
(* does one thing besides.  Amounts are exact integers and the ratios the  *)
(* code takes in f64 exact fractions.                                      *)
(***************************************************************************)
EXTENDS Calendar, FiniteSets, SequencesExt

CONSTANTS
  Turns,       \* messages handled concurrently
  Amounts,     \* amounts of an expense or a contribution
  Batches,     \* amounts a turn may log
  SavingsGoals,  \* whether the category is Savings/Goals
  Limits,      \* monthly limits; 0 is no budget
  Target,      \* target_centavos of the goal
  Deadline,    \* its target_date
  Days,        \* bound of the model: dates on which something happens
  Hours,       \* bound of the model: local hours of a reading
  MaxRows,     \* bound of the model: expenses in the table
  MaxChanges   \* bound of the model: turns that do not only log

ASSUME AlertsAssumption ==
  /\ Amounts \subseteq Nat \ {0} /\ Limits \subseteq Nat /\ 0 \in Limits
  /\ Target \in Nat \ {0} /\ SavingsGoals \in BOOLEAN
  /\ Days # {} /\ Days \subseteq Nat /\ \A d \in Days : d <= 36000
  /\ Deadline \in Nat
  /\ Hours \subseteq 0..23
  /\ Batches \subseteq Seq(Amounts)
  /\ MaxRows \in Nat /\ MaxChanges \in Nat

VARIABLES
  today,     \* the local date
  rows,      \* transactions: expenses of the category, in order of seq
  limit,     \* budgets: the limit, 0 when there is none
  saved,     \* savings_goals: saved_centavos
  turn,      \* what each message is doing
  changes,   \* number of turns that did not only log
  told,      \* history: the level the user was told and that still holds
  why        \* history: why told is not the level there is

vars == <<today, rows, limit, saved, turn, changes, told, why>>

-----------------------------------------------------------------------------
(***************************************************************************)
(* percent.rs, budget.rs, queries.rs.                                      *)
(***************************************************************************)
Near == 80

\* ratio_crossed
RatioCrossed(numerator, denominator, percent) ==
  denominator > 0 /\ numerator * 100 >= percent * denominator

\* month_range of the dates of the model
MonthRange == [d \in Days |-> MonthBounds(d)]

\* counts_toward_budget_reaction, and "local_date between" of the queries
InMonth(r, date) == MonthRange[date][1] <= r.date /\ r.date <= MonthRange[date][2]

\* category_amounts_this_month: the amounts by position in rs; what is done with
\* them does not depend on their order.
AmountsThisMonth(rs, date) ==
  [n \in {n \in DOMAIN rs : InMonth(rs[n], date)} |-> rs[n].amount]

\* budget_status_rows, sum_and_count_spend_between
Spent(rs, date) == SumFunction(AmountsThisMonth(rs, date))

\* The levels a category can be at: 0, 1 near its limit, 2 over it.
Levels == 0..2
Level(spent, lim) ==
  CASE lim = 0                             -> 0
    [] lim > 0 /\ spent > lim              -> 2
    [] lim > 0 /\ spent <= lim /\ RatioCrossed(spent, lim, Near) -> 1
    [] OTHER                               -> 0

\* Mutant: what was spent before the turn is not looked at.
ReactionLine_EveryTime(lim, spent, prior) ==
  CASE lim <= 0                                              -> 0
    [] lim > 0 /\ spent > lim                                -> 2
    [] lim > 0 /\ spent <= lim /\ RatioCrossed(spent, lim, Near) -> 1
    [] OTHER                                                 -> 0

\* budget_reaction_line: the level it announces, 0 for no line.
ReactionLine(lim, spent, prior) ==
  CASE lim <= 0 -> 0
    [] lim > 0 /\ spent > lim /\ prior <= lim -> 2
    [] lim > 0 /\ ~(spent > lim /\ prior <= lim)
         /\ RatioCrossed(spent, lim, Near) /\ ~RatioCrossed(prior, lim, Near) -> 1
    [] OTHER -> 0

-----------------------------------------------------------------------------
(***************************************************************************)
(* analytics.rs: amounts is a function to positive integers.               *)
(***************************************************************************)

\* x / y rounded half up, y > 0
Round(x, y) == (2 * x + y) \div (2 * y)

\* project_month_end
ProjectMonthEnd(spent, dom, dim) == IF dom < 1 THEN spent ELSE Round(spent * dim, dom)

\* The k-th of the amounts when they are sorted.
Ranked(amounts, k) ==
  LET below(a) == {n \in DOMAIN amounts : amounts[n] < a}
      upTo(a) == {n \in DOMAIN amounts : amounts[n] <= a} IN
  CHOOSE a \in Range(amounts) : Cardinality(below(a)) < k /\ k <= Cardinality(upTo(a))

\* Twice the median of three or more amounts.
TwiceMedian(amounts) ==
  LET count == Cardinality(DOMAIN amounts)
      mid == count \div 2 IN
  IF count % 2 = 0 THEN Ranked(amounts, mid) + Ranked(amounts, mid + 1)
                   ELSE 2 * Ranked(amounts, mid + 1)

\* What stands out in the month.
Outliers(amounts) == {n \in DOMAIN amounts : amounts[n] > TwiceMedian(amounts)}

\* Mutant: an outlier is projected and counted.
ProjectRobust_Twice(amounts, dom, dim) ==
  LET spent == SumFunction(amounts) IN
  IF Cardinality(DOMAIN amounts) < 3 THEN ProjectMonthEnd(spent, dom, dim)
  ELSE ProjectMonthEnd(spent, dom, dim) + SumFunctionOnSet(amounts, Outliers(amounts))

\* project_month_end_robust: what stands out is counted and not projected.
ProjectRobust(amounts, dom, dim) ==
  LET spent == SumFunction(amounts)
      few == Cardinality(DOMAIN amounts) < 3
      outlying == SumFunctionOnSet(amounts, Outliers(amounts))
      typical == SumFunctionOnSet(amounts, DOMAIN amounts \ Outliers(amounts))
      projected == ProjectMonthEnd(typical, dom, dim) + outlying IN
  CASE dom < 1                                -> spent
    [] dom >= 1 /\ (few \/ outlying = 0)      -> ProjectMonthEnd(spent, dom, dim)
    [] dom >= 1 /\ ~few /\ outlying # 0       -> IF projected > spent THEN projected ELSE spent

\* spending_pace, should_warn_pace with its defaults: not before the fifth, not
\* when the category is near its limit, and from 110% of the limit on.
WarnsOfPace(amounts, dom, dim, lim) ==
  /\ lim > 0
  /\ dom >= 5
  /\ SumFunction(amounts) * 100 < lim * Near
  /\ ProjectRobust(amounts, dom, dim) * 100 >= lim * 110

\* run_budget_checks: what it finds of the category.
CronFinds(rs, date, lim) ==
  CASE lim <= 0 -> "nothing"
    [] lim > 0 /\ Spent(rs, date) * 100 >= lim * Near -> "budget"
    [] lim > 0 /\ WarnsOfPace(AmountsThisMonth(rs, date), DayOfMonth(date),
                              DaysInMonth(date), lim) -> "pace"
    [] OTHER -> "nothing"

-----------------------------------------------------------------------------
(***************************************************************************)
(* goals.rs.  The goal was created on the first of Days; now is an hour of *)
(* a local date, eight hours ahead of UTC, and the deadline a UTC midnight.*)
(***************************************************************************)
Created == CHOOSE d \in Days : \A e \in Days : d <= e

\* saved / Target >= the share of the days from creation to deadline gone by
OnTrack(amount, date) ==
  LET span == Deadline - Created
      gone == date - Created IN
  IF span > 0
  THEN LET clamped == CASE gone < 0 -> 0 [] gone > span -> span [] OTHER -> gone IN
       amount * span >= clamped * Target
  ELSE amount >= Target

\* Whole weeks between now and the deadline, at least one.
WeeksRemaining(date, hour) ==
  LET weeks == ((Deadline - date) * 24 + 8 - hour) \div (7 * 24) IN
  IF weeks < 1 THEN 1 ELSE weeks

\* Mutant: rounded down.
PerWeek_Down(amount, date, hour) == (Target - amount) \div WeeksRemaining(date, hour)

\* per_week_centavos of goal_pace, when it is not on track.
PerWeek(amount, date, hour) ==
  (Target - amount + WeeksRemaining(date, hour) - 1) \div WeeksRemaining(date, hour)

-----------------------------------------------------------------------------
\* goal: a contribution.
Row == [amount: Amounts, date: Days, goal: BOOLEAN]

\* What a turn does besides.  edit, delete: of the last transaction, own if that is
\* one it has just logged; move: EditLast of a category, which brings an expense in
\* (one that it takes out is a delete to this category).
Extras ==
  {x \in [op: {"none", "edit", "delete", "move", "contribute", "budget"}, own: BOOLEAN,
          amount: Amounts \cup {0}, date: Days, limit: Limits] :
     /\ x.own => x.op \in {"edit", "delete"}
     /\ x.amount # 0 <=> x.op \in {"edit", "move", "contribute"}
     /\ x.date # Created => x.op \in {"move", "contribute"}
     /\ x.limit # 0 => x.op = "budget"}

NoExtra == [op |-> "none", own |-> FALSE, amount |-> 0, date |-> Created, limit |-> 0]

\* pc: read = its reply is composed, parked = waiting for a yes.  batch: the expenses
\* it logs; line: the level its reply announces; stale: the spending, the limit or the
\* month the reply was composed from has changed since; newMonth: the month has.
Turn == [pc: {"idle", "read", "parked"}, batch: Seq(Row), extra: Extras,
         line: Levels, stale: BOOLEAN, newMonth: BOOLEAN]

Idle == [pc |-> "idle", batch |-> <<>>, extra |-> NoExtra,
         line |-> 0, stale |-> FALSE, newMonth |-> FALSE]

\* The turns beside a step that changes what their replies are composed from.
Overtaken(month) ==
  [t \in Turns |-> IF turn[t].pc = "read"
                   THEN [turn[t] EXCEPT !.stale = TRUE, !.newMonth = @ \/ month]
                   ELSE turn[t]]

TypeOK ==
  /\ today \in Days
  /\ rows \in Seq(Row) /\ Len(rows) <= MaxRows
  /\ limit \in Limits /\ saved \in Nat
  /\ turn \in [Turns -> Turn]
  /\ changes \in 0..MaxChanges
  /\ told \in Levels
  /\ why \in {"none", "overlap", "confirmed", "limit", "edit", "contribution"}

Init ==
  /\ today = Created
  /\ rows = <<>>
  /\ limit \in Limits
  /\ saved = 0
  /\ turn = [t \in Turns |-> Idle]
  /\ changes = 0
  /\ told = 0 /\ why = "none"

LevelNow == Level(Spent(rows, today), limit)

\* What the history becomes when the level may have changed and the user was told
\* of level said (0: of nothing): the part of it that still holds, and the cause
\* the step has for saying less.
Settle(said, cause) ==
  LET known == IF said > told THEN said ELSE told
      level == Level(Spent(rows', today'), limit') IN
  /\ told' = IF known > level THEN level ELSE known
  /\ why' = CASE told' = level                   -> "none"
              [] told' # level /\ cause = "none" -> why
              [] OTHER                           -> cause

-----------------------------------------------------------------------------
(***************************************************************************)
(* Steps of a turn.                                                        *)
(***************************************************************************)

\* Expenses of the batch that the month's budget counts.
JustLogged(batch, date) == Spent(batch, date)

\* Mutant: the batch is taken off spending it was not yet in.
Reacts_AsFlushed(batch) ==
  ReactionLine(limit, Spent(rows, today), Spent(rows, today) - JustLogged(batch, today))

\* append_budget_reaction, after the model has answered; budget_reaction_lines
\* gets the spending with the batch and takes the batch off it again.
Reacts(batch) ==
  IF JustLogged(batch, today) = 0 THEN 0
  ELSE ReactionLine(limit, Spent(rows, today) + JustLogged(batch, today), Spent(rows, today))

\* The n-th row with another amount.
Repriced(rs, n, amount) == [rs EXCEPT ![n].amount = amount]

\* The rows a turn adds: its expenses, of which it may have corrected the last, and
\* one that no line counts.
Left(batch, x) ==
  CASE x.op = "delete" /\ x.own             -> Front(batch)
    [] x.op = "edit" /\ x.own               -> Repriced(batch, Len(batch), x.amount)
    [] x.op = "move"                        ->
         Append(batch, [amount |-> x.amount, date |-> x.date, goal |-> FALSE])
    [] x.op = "contribute" /\ SavingsGoals  ->
         Append(batch, [amount |-> x.amount, date |-> x.date, goal |-> TRUE])
    [] OTHER                                -> batch

\* The expenses of one turn are dated today or earlier, all on one date here.
Read(t, amounts, date, x) ==
  LET batch == [n \in DOMAIN amounts |-> [amount |-> amounts[n], date |-> date, goal |-> FALSE]] IN
  /\ turn[t].pc = "idle"
  /\ date <= today /\ x.date <= today
  /\ (x.op = "none" \/ x.own) => batch # <<>>
  /\ Len(rows) + Len(Left(batch, x)) <= MaxRows
  /\ changes' = (IF x.op = "none" THEN changes ELSE changes + 1) /\ changes' <= MaxChanges
  /\ turn' = [turn EXCEPT ![t] = [pc |-> "read", batch |-> batch, extra |-> x, line |-> Reacts(batch),
                                  stale |-> FALSE, newMonth |-> FALSE]]
  /\ UNCHANGED <<today, rows, limit, saved, told, why>>

\* The rows when the n-th is what an EditLast or DeleteLast of an earlier turn's
\* transaction means, 0 when that is gone or of another category.
Corrected(n, x) ==
  CASE n # 0 /\ x.op = "edit"   -> Repriced(rows, n, x.amount)
    [] n # 0 /\ x.op = "delete" -> RemoveAt(rows, n)
    [] OTHER                    -> rows

\* What the goal gains by it.
Gained(n, x) ==
  CASE x.op = "contribute"                     -> x.amount
    [] n # 0 /\ x.op = "edit" /\ rows[n].goal   -> x.amount - rows[n].amount
    [] n # 0 /\ x.op = "delete" /\ rows[n].goal -> 0 - rows[n].amount
    [] OTHER                                   -> 0

\* The flush of a turn.  Which row was the last one when the tool looked is left
\* open; a goal's balance below zero is refused by a check of the table.
Flush(t) ==
  LET x == turn[t].extra
      left == Left(turn[t].batch, x) IN
  \E n \in 0..Len(rows) :
    /\ n # 0 => x.op \in {"edit", "delete"} /\ ~x.own
    /\ rows' = Corrected(n, x) \o left /\ Len(rows') <= MaxRows
    /\ saved' = saved + Gained(n, x) /\ saved' >= 0
    /\ limit' = IF x.op = "budget" THEN x.limit ELSE limit
    /\ turn' = [IF <<rows', limit'>> = <<rows, limit>> THEN turn ELSE Overtaken(FALSE)
                EXCEPT ![t] = Idle]

\* What a turn does to the month that its line says nothing of.
Cause(x) ==
  CASE x.op \in {"edit", "move"}             -> "edit"
    [] x.op = "contribute" /\ SavingsGoals   -> "contribution"
    [] x.op = "budget"                       -> "limit"
    [] OTHER                                 -> "none"

\* WriteRisk::Safe: the flush, and the reply that goes with it.
Commit(t) ==
  /\ turn[t].pc = "read"
  /\ Flush(t)
  /\ UNCHANGED <<today, changes>>
  /\ Settle(IF turn[t].newMonth THEN 0 ELSE turn[t].line,
            IF turn[t].stale THEN "overlap" ELSE Cause(turn[t].extra))

\* WriteRisk::NeedsConfirmation: the reply is replaced by a question.
Park(t) ==
  /\ turn[t].pc = "read"
  /\ turn' = [turn EXCEPT ![t] = [pc |-> "parked", batch |-> turn[t].batch,
                                  extra |-> turn[t].extra,
                                  line |-> 0, stale |-> FALSE, newMonth |-> FALSE]]
  /\ UNCHANGED <<today, rows, limit, saved, changes, told, why>>

\* A yes: the parked writes, and "done" with their summary for a reply.
Confirm(t) ==
  /\ turn[t].pc = "parked"
  /\ Flush(t)
  /\ UNCHANGED <<today, changes>>
  /\ Settle(0, "confirmed")

\* WriteRisk::Reject, a failed flush, a superseded one, a no, an expired question.
Drop(t) ==
  /\ turn[t].pc # "idle"
  /\ turn' = [turn EXCEPT ![t] = Idle]
  /\ UNCHANGED <<today, rows, limit, saved, changes, told, why>>

NextDay ==
  /\ \E d \in Days : d > today
  /\ today' = CHOOSE d \in Days : d > today /\ \A e \in Days : e > today => d <= e
  /\ turn' = IF MonthRange[today'] = MonthRange[today] THEN turn ELSE Overtaken(TRUE)
  /\ UNCHANGED <<rows, limit, saved, changes>>
  /\ Settle(0, "none")

Next ==
  \/ \E t \in Turns :
       \/ \E b \in Batches, d \in Days, x \in Extras : Read(t, b, d, x)
       \/ Commit(t) \/ Park(t) \/ Confirm(t) \/ Drop(t)
  \/ NextDay

Spec == Init /\ [][Next]_vars

-----------------------------------------------------------------------------
(***************************************************************************)
(* Properties.                                                             *)
(***************************************************************************)

\* Whatever level the category is at this month, the user was told of it in a
\* reply, unless the turn that took it there was read beside another change, or
\* needed a yes, or did it by a correction, a new limit or a contribution of its own.
CrossingAnnounced == told = LevelNow \/ why # "none"

\* A turn that nothing ran beside, and that corrects nothing and sets no limit,
\* never announces a level the user knows of: what it says, it says once per crossing.
AnnouncedOnce ==
  [][\A t \in Turns :
       turn[t].pc = "read" /\ turn'[t].pc = "idle" /\ rows' # rows
         /\ turn[t].line > 0 /\ ~turn[t].stale
         /\ turn[t].extra.op \notin {"edit", "delete", "budget"} => told' > told]_vars

\* The projection of a month lies between what is spent and the plain
\* extrapolation, up to half a centavo, and is what is spent on the last day; the
\* cron's two warnings about a category are about different situations, and the
\* pace it warns of leads to 110% of the limit.
ProjectionSound ==
  LET amounts == AmountsThisMonth(rows, today)
      spent == Spent(rows, today)
      dom == DayOfMonth(today)
      dim == DaysInMonth(today)
      projected == ProjectRobust(amounts, dom, dim) IN
  /\ spent <= projected /\ 2 * projected * dom <= 2 * spent * dim + dom
  /\ dom = dim => projected = spent
  /\ CronFinds(rows, today, limit) = "budget" <=> LevelNow > 0
  /\ CronFinds(rows, today, limit) = "pace" =>
       100 * spent * dim + 50 * dom >= 110 * limit * dom

\* Saving the advised amount in each of the weeks left reaches the target, a
\* centavo less does not; a goal still on track at its deadline is reached.
GoalAdvice ==
  /\ today >= Deadline /\ OnTrack(saved, today) => saved >= Target
  /\ ~OnTrack(saved, today) =>
       \A h \in Hours :
         LET weeks == WeeksRemaining(today, h)
             advised == PerWeek(saved, today, h) IN
         /\ advised > 0
         /\ saved + advised * weeks >= Target
         /\ saved + (advised - 1) * weeks < Target
=============================================================================
