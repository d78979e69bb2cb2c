------------------------------ MODULE DailyCron ------------------------------
(***************************************************************************)
(* run_daily_checks: what the cron tells the user, and how it keeps from   *)
(* telling it twice.                                                       *)
(*                                                                         *)
(* Every message is claimed in the database before it is sent: a nudge and *)
(* the weekly recap by a row of their week, a reminder by the item's       *)
(* last_reminded_date.  A run goes through its steps in order; an error    *)
(* ends a step and not the run.  Runs may overlap (the scheduled one and   *)
(* one started by hand), a run keeps the date it started on, and the user  *)
(* edits recurring items meanwhile.                                        *)
(*                                                                         *)
(* Which budgets are near their limit or pacing over it, and which goals   *)
(* are behind, is decided in Alerts and is any choice here.  Delivery of   *)
(* queued replies, the first step, is in OutboundQueue, and the hygiene of *)
(* the other tables in Inbound, Ledger and Webhook.                        *)
(***************************************************************************)
EXTENDS Calendar

CONSTANTS
  Runs,            \* concurrent invocations of the cron
  Categories,      \* categories with a budget
  Goals,           \* goals with a target date
  Items,           \* recurring items
  Schedules,       \* schedules an item may have
  KeepWeeks,       \* reap_nudges keeps 8 weeks
  KeepSummaries,   \* reap_summary_runs keeps 12
  Days,            \* bound of the model: dates on which something happens
  MaxRuns,         \* bound of the model: number of runs
  MaxEdits         \* bound of the model: number of edits of items

\* recurring_items_cadence_day_consistency and the range checks of the table.
Schedule == [cadence: {"monthly"}, day: 1..31] \cup [cadence: {"weekly"}, day: 0..6]

\* Dates of the years 2000 to 2098; the id of an item is no kind of a nudge.
ASSUME CronAssumption ==
  /\ Schedules \subseteq Schedule /\ Schedules # {}
  /\ KeepWeeks \in Nat \ {0} /\ KeepSummaries \in Nat \ {0}
  /\ Days \subseteq Nat /\ \A d \in Days : d <= 36000
  /\ \E d \in Days : \A e \in Days : d <= e
  /\ Items \cap {"budget", "pace", "goalpace", "recap"} = {}
  /\ MaxRuns \in Nat /\ MaxEdits \in Nat

VARIABLES
  today,      \* the local date
  claims,     \* tables nudges and summary_runs: <<alert, week>>
  items,      \* table recurring_items: schedule and last_reminded_date
  run,        \* what each invocation is doing
  runs,       \* number of runs started
  edits,      \* number of edits
  told,       \* history: <<alert, week>> the user was told of
  again,      \* history: those he was told of a second time
  lost,       \* history: those claimed and never sent
  reminded,   \* history: of each item, the latest due date a reminder was
              \* claimed for, and the latest date of a run that claimed one
  repeats     \* history: items claimed twice for one due date

history == <<told, again, lost, reminded, repeats>>
vars == <<today, claims, items, run, runs, edits, history>>

-----------------------------------------------------------------------------
\* What a row of a week may claim: kind "budget:<category>", "pace:<category>",
\* "goalpace:<id>", or the recap.
Alerts == ({"budget", "pace"} \X Categories) \cup ({"goalpace"} \X Goals)
            \cup {<<"recap", "recap">>}
Recap == <<"recap", "recap">>

\* A week is named by its Monday.
Weeks == {w \in Int : DaysFromMonday(w) = 0}
Never == -1

Item == [there: BOOLEAN, schedule: Schedules, last: Days \cup {Never}]
NotReminded == [due |-> Never, day |-> Never]
NoItem == [there |-> FALSE, schedule |-> CHOOSE s \in Schedules : TRUE, last |-> Never]

Steps == <<"hygiene", "budgets", "reminders", "goals", "recap">>

\* at: the step; pc: read = before its first statement, claim = going through
\* todo, send = about to send what it has claimed (the recap: to compose it
\* too), record = between has_summary_for_week and record_summary.
\* edited: items edited since the list of due ones was read; listed: it has just
\* gone through all of those; met: a run of another date was under way beside
\* it; ended: it reached its end; noRecap: the recap's step failed.
Run == [at: {"idle"} \cup {Steps[n] : n \in 1..Len(Steps)},
        pc: {"read", "claim", "send", "record"}, day: Days,
        todo: SUBSET (Alerts \cup (Items \X Int)), sending: Alerts \cup (Items \X Int),
        edited: SUBSET Items, listed: BOOLEAN, met: BOOLEAN,
        ended: BOOLEAN, noRecap: BOOLEAN]

Idle == [at |-> "idle", pc |-> "read", day |-> CHOOSE d \in Days : TRUE,
         todo |-> {}, sending |-> Recap, edited |-> {}, listed |-> FALSE,
         met |-> FALSE, ended |-> FALSE, noRecap |-> FALSE]

Active(r) == run[r].at # "idle"

TypeOK ==
  /\ today \in Days
  /\ claims \subseteq Alerts \X Weeks
  /\ items \in [Items -> Item]
  /\ run \in [Runs -> Run]
  /\ runs \in 0..MaxRuns /\ edits \in 0..MaxEdits
  /\ told \cup again \cup lost \subseteq Alerts \X Weeks
  /\ reminded \in [Items -> [due: Int, day: Days \cup {Never}]]
  /\ repeats \subseteq Items

Init ==
  /\ today = CHOOSE d \in Days : \A e \in Days : d <= e
  /\ claims = {}
  /\ items \in [Items -> {x \in Item : x.last = Never /\ (x.there \/ x = NoItem)}]
  /\ run = [r \in Runs |-> Idle]
  /\ runs = 0 /\ edits = 0
  /\ told = {} /\ again = {} /\ lost = {}
  /\ reminded = [i \in Items |-> NotReminded]
  /\ repeats = {}

-----------------------------------------------------------------------------
(***************************************************************************)
(* Steps of a run.                                                         *)
(***************************************************************************)

Follows(s) == Steps[1 + CHOOSE n \in 1..Len(Steps) : Steps[n] = s]

\* run_daily_checks returns.
End(x) == [Idle EXCEPT !.day = x.day, !.ended = TRUE, !.noRecap = x.noRecap]

\* The next step of a run, or its end.
NextStep(x) ==
  IF x.at = "recap" THEN End(x)
  ELSE [x EXCEPT !.at = Follows(x.at), !.pc = "read", !.todo = {}, !.sending = Recap,
                 !.listed = x.at = "reminders",
                 !.edited = IF x.at = "reminders" THEN x.edited ELSE {}]

Failed(x) == [x EXCEPT !.noRecap = x.at = "recap"]

\* Mutant: an error ends the run.
AfterError_Ends(x) == End(Failed(x))

\* run_step: the error is logged, the fallback taken, the next step follows.
AfterError(x) == [NextStep(Failed(x)) EXCEPT !.listed = FALSE]

\* daily_cron calls run_daily_checks (resolve_user_id has no effect).
Start(r) ==
  /\ ~Active(r) /\ runs < MaxRuns
  /\ LET others == {q \in Runs : Active(q) /\ run[q].day # today} IN
     run' = [q \in Runs |->
       IF q = r THEN [Idle EXCEPT !.at = "hygiene", !.day = today, !.met = others # {}]
       ELSE IF q \in others THEN [run[q] EXCEPT !.met = TRUE] ELSE run[q]]
  /\ runs' = runs + 1
  /\ UNCHANGED <<today, claims, items, edits, history>>

\* reap_nudges and reap_summary_runs
Reapable(c, day) ==
  c[2] < WeekStart(day) - 7 * (IF c[1] = Recap THEN KeepSummaries ELSE KeepWeeks)

\* run_daily_hygiene: each reap may fail without stopping the others.
Hygiene(r, nudges, summaries) ==
  /\ run[r].at = "hygiene"
  /\ claims' = {c \in claims :
       ~(Reapable(c, run[r].day) /\ (IF c[1] = Recap THEN summaries ELSE nudges))}
  /\ run' = [run EXCEPT ![r] = NextStep(@)]
  /\ UNCHANGED <<today, items, runs, edits, history>>

\* budget_statuses: the categories near their limit, and those pacing over it.
ReadBudgets(r, near, pace) ==
  /\ run[r].at = "budgets" /\ run[r].pc = "read"
  /\ near \cap pace = {}
  /\ run' = [run EXCEPT ![r] = [@ EXCEPT !.pc = "claim",
       !.todo = ({"budget"} \X near) \cup ({"pace"} \X pace)]]
  /\ UNCHANGED <<today, claims, items, runs, edits, history>>

\* list_goals: those that are behind.
ReadGoals(r, behind) ==
  /\ run[r].at = "goals" /\ run[r].pc = "read"
  /\ run' = [run EXCEPT ![r] = [@ EXCEPT !.pc = "claim", !.listed = FALSE, !.edited = {},
       !.todo = {"goalpace"} \X behind]]
  /\ UNCHANGED <<today, claims, items, runs, edits, history>>

\* due_recurring_today: this month's or this week's due date.
DueDate(s, day) ==
  IF s.cadence = "monthly"
    THEN FromYmd(Year(day), Month(day),
                 IF s.day < DaysInMonth(day) THEN s.day ELSE DaysInMonth(day))
    ELSE WeekStart(day) + ((s.day + 6) % 7)

DueDates == [s \in Schedules |-> [d \in Days |-> DueDate(s, d)]]

\* Mutant: no catching up.
DueToday_OnTheDay(i, day) ==
  items[i].there /\ items[i].last # day /\ DueDates[items[i].schedule][day] = day

DueToday(i, day) ==
  LET due == DueDates[items[i].schedule][day] IN
  /\ items[i].there /\ items[i].last # day
  /\ due <= day
  /\ items[i].last = Never \/ items[i].last < due

ReadReminders(r) ==
  /\ run[r].at = "reminders" /\ run[r].pc = "read"
  /\ run' = [run EXCEPT ![r] = [@ EXCEPT !.pc = "claim",
       !.todo = {<<i, DueDates[items[i].schedule][run[r].day]>> :
                   i \in {j \in Items : DueToday(j, run[r].day)}}]]
  /\ UNCHANGED <<today, claims, items, runs, edits, history>>

\* Mutant: the row is not looked at.
NewClaim_Always(a, week) == TRUE

\* The insert of record_nudge or record_summary returns a row.
NewClaim(a, week) == <<a, week>> \notin claims

\* On to the next entry of the loop.
Skip(x, a) == [x EXCEPT !.todo = x.todo \ {a}]

\* Mutant: it is not sent.
Sending_Never(x, a) == Skip(x, a)

Sending(x, a) == [x EXCEPT !.todo = x.todo \ {a}, !.pc = "send", !.sending = a]

\* record_nudge
ClaimNudge(r, a) ==
  LET x == run[r]
      week == WeekStart(x.day)
  IN
  /\ x.at \in {"budgets", "goals"} /\ x.pc = "claim" /\ a \in x.todo
  /\ claims' = claims \cup {<<a, week>>}
  /\ run' = [run EXCEPT ![r] = IF NewClaim(a, week) THEN Sending(x, a) ELSE Skip(x, a)]
  /\ UNCHANGED <<today, items, runs, edits, history>>

\* Mutant: a reminder is taken whatever the date of the last one.
Reminds_Always(i, day) == items[i].there

\* claim_reminder's update finds the item, not reminded of today.
Reminds(i, day) == items[i].there /\ items[i].last # day

\* last_reminded_date is earlier than the last reminder: a run of the day
\* before has claimed the item after one of today.
MovedBack(i) == items[i].last < reminded[i].day

\* claim_reminder's update of the row.
TakeReminder(x, a) ==
  LET i == a[1]
      h == reminded[i]
      besideMidnight == x.met /\ h.day \in {x.day - 1, x.day + 1}
  IN
  /\ Reminds(i, x.day)
  /\ items' = [items EXCEPT ![i].last = x.day]
  /\ reminded' = [reminded EXCEPT ![i] =
       [due |-> IF h.day = Never \/ h.due < a[2] THEN a[2] ELSE h.due,
        day |-> IF h.day < x.day THEN x.day ELSE h.day]]
  /\ repeats' = IF h.day # Never /\ a[2] <= h.due /\ ~MovedBack(i) /\ ~besideMidnight
                  THEN repeats \cup {i} ELSE repeats

ClaimReminder(r, a) ==
  LET x == run[r] IN
  /\ x.at = "reminders" /\ x.pc = "claim" /\ a \in x.todo
  /\ \/ TakeReminder(x, a) /\ run' = [run EXCEPT ![r] = Sending(x, a)]
     \/ /\ ~Reminds(a[1], x.day)
        /\ run' = [run EXCEPT ![r] = Skip(x, a)]
        /\ UNCHANGED <<items, reminded, repeats>>
  /\ UNCHANGED <<today, claims, runs, edits, told, again, lost>>

\* has_summary_for_week
ReadRecap(r) ==
  /\ run[r].at = "recap" /\ run[r].pc = "read"
  /\ run' = [run EXCEPT ![r] =
       IF <<Recap, WeekStart(run[r].day)>> \in claims
         THEN NextStep(run[r]) ELSE [run[r] EXCEPT !.pc = "record"]]
  /\ UNCHANGED <<today, claims, items, runs, edits, history>>

\* record_summary
ClaimRecap(r) ==
  LET x == run[r]
      week == WeekStart(x.day)
  IN
  /\ x.at = "recap" /\ x.pc = "record"
  /\ claims' = claims \cup {<<Recap, week>>}
  /\ run' = [run EXCEPT ![r] = IF NewClaim(Recap, week) THEN Sending(x, Recap)
                                                         ELSE NextStep(x)]
  /\ UNCHANGED <<today, items, runs, edits, history>>

\* The provider answers: send_isolated goes on after an error too; the recap's
\* send is the last statement of its step.
Send(r, ok) ==
  LET x == run[r]
      key == <<x.sending, WeekStart(x.day)>>
  IN
  /\ Active(r) /\ x.pc = "send"
  /\ IF x.sending \in Alerts
       THEN /\ told' = IF ok THEN told \cup {key} ELSE told
            /\ again' = IF ok /\ key \in told THEN again \cup {key} ELSE again
            /\ lost' = IF ok THEN lost ELSE lost \cup {key}
       ELSE UNCHANGED <<told, again, lost>>
  /\ run' = [run EXCEPT ![r] =
       IF x.at = "recap" THEN NextStep(x)
       ELSE [x EXCEPT !.pc = "claim", !.sending = Recap]]
  /\ UNCHANGED <<today, claims, items, runs, edits, reminded, repeats>>

\* The loop of a step is over.
EndStep(r) ==
  /\ Active(r) /\ run[r].pc = "claim" /\ run[r].todo = {}
  /\ run' = [run EXCEPT ![r] = NextStep(@)]
  /\ UNCHANGED <<today, claims, items, runs, edits, history>>

\* What a run that fails or stops here has claimed and will not send.
Abandoned(x) ==
  IF x.at # "idle" /\ x.pc = "send" /\ x.sending \in Alerts
    THEN {<<x.sending, WeekStart(x.day)>>} ELSE {}

\* A statement of the step fails and has no effect: a read, a claim, or what
\* the recap is composed from.  (send_isolated cannot fail.)
StepError(r) ==
  LET x == run[r] IN
  /\ x.at \notin {"idle", "hygiene"}
  /\ x.pc = "send" => x.at = "recap"
  /\ lost' = lost \cup Abandoned(x)
  /\ run' = [run EXCEPT ![r] = AfterError(x)]
  /\ UNCHANGED <<today, claims, items, runs, edits, told, again, reminded, repeats>>

\* A claim is a statement of its own, in no transaction: it may be committed
\* and its answer lost, and the error ends the step with nothing sent
\* (record_nudge, record_summary).
AlertUnanswered(r, a) ==
  LET x == run[r]
      key == <<a, WeekStart(x.day)>>
  IN
  /\ \/ x.at \in {"budgets", "goals"} /\ x.pc = "claim" /\ a \in x.todo
     \/ x.at = "recap" /\ x.pc = "record" /\ a = Recap
  /\ claims' = claims \cup {key}
  /\ lost' = IF NewClaim(a, WeekStart(x.day)) THEN lost \cup {key} ELSE lost
  /\ run' = [run EXCEPT ![r] = AfterError(x)]
  /\ UNCHANGED <<today, items, runs, edits, told, again, reminded, repeats>>

\* The same of claim_reminder.
ReminderUnanswered(r, a) ==
  LET x == run[r] IN
  /\ x.at = "reminders" /\ x.pc = "claim" /\ a \in x.todo
  /\ TakeReminder(x, a)
  /\ run' = [run EXCEPT ![r] = AfterError(x)]
  /\ UNCHANGED <<today, claims, runs, edits, told, again, lost>>

\* The platform ends the run.
Stop(r) ==
  /\ Active(r)
  /\ lost' = lost \cup Abandoned(run[r])
  /\ run' = [run EXCEPT ![r] = Idle]
  /\ UNCHANGED <<today, claims, items, runs, edits, told, again, reminded, repeats>>

-----------------------------------------------------------------------------
(***************************************************************************)
(* The user's edits, and the date.                                         *)
(***************************************************************************)
Edited(i) ==
  [r \in Runs |->
    IF (run[r].at = "reminders" /\ run[r].pc # "read") \/ run[r].listed
      THEN [run[r] EXCEPT !.edited = @ \cup {i}] ELSE run[r]]

\* AddRecurring inserts an item, or takes over the one with that label;
\* EditRecurring changes it.  Both leave last_reminded_date alone.
SetRecurring(i, s) ==
  /\ edits < MaxEdits
  /\ items' = [items EXCEPT ![i] =
       IF @.there THEN [@ EXCEPT !.schedule = s]
       ELSE [there |-> TRUE, schedule |-> s, last |-> Never]]
  /\ run' = Edited(i)
  /\ edits' = edits + 1
  /\ UNCHANGED <<today, claims, runs, history>>

\* RemoveRecurring; an item added later under that label is another one, so a
\* run that has the old one on its list finds nothing.
RemoveRecurring(i) ==
  /\ edits < MaxEdits /\ items[i].there
  /\ items' = [items EXCEPT ![i] = NoItem]
  /\ run' = [r \in Runs |-> [Edited(i)[r] EXCEPT
       !.todo = {a \in @ : a[1] # i}]]
  /\ reminded' = [reminded EXCEPT ![i] = NotReminded]
  /\ edits' = edits + 1
  /\ UNCHANGED <<today, claims, runs, told, again, lost, repeats>>

\* Another day.  A run lasts five minutes at most, so it may see one midnight.
NextDay(d) ==
  /\ today < d
  /\ \A r \in Runs : Active(r) => run[r].day = today /\ d = today + 1
  /\ today' = d
  /\ UNCHANGED <<claims, items, run, runs, edits, history>>

RunStep(r) ==
  \/ \E nudges, summaries \in BOOLEAN : Hygiene(r, nudges, summaries)
  \/ \E near, pace \in SUBSET Categories : ReadBudgets(r, near, pace)
  \/ \E behind \in SUBSET Goals : ReadGoals(r, behind)
  \/ ReadReminders(r)
  \/ \E a \in run[r].todo : ClaimNudge(r, a) \/ ClaimReminder(r, a)
  \/ ReadRecap(r) \/ ClaimRecap(r)
  \/ \E ok \in BOOLEAN : Send(r, ok)
  \/ EndStep(r) \/ StepError(r) \/ Stop(r)
  \/ \E a \in run[r].todo \cup {Recap} : AlertUnanswered(r, a)
  \/ \E a \in run[r].todo : ReminderUnanswered(r, a)

Next ==
  \/ \E r \in Runs : Start(r) \/ RunStep(r)
  \/ \E i \in Items, s \in Schedules : SetRecurring(i, s)
  \/ \E i \in Items : RemoveRecurring(i)
  \/ \E d \in Days : NextDay(d)

Spec == Init /\ [][Next]_vars

-----------------------------------------------------------------------------
(***************************************************************************)
(* Properties.                                                             *)
(***************************************************************************)

\* A nudge of one kind, and the recap, reach the user at most once a week,
\* whatever runs overlap, fail and start again, and whatever the hygiene reaps
\* (record_nudge, record_summary, reap_nudges, reap_summary_runs).
ToldOncePerWeek == again = {}

\* A nudge or a recap that is claimed and has not been sent is about to be
\* sent by a run, or was lost to a failed send, a claim whose answer was lost, a
\* failed read of the recap or the end of its run: nothing else makes the cron
\* silent for a week (record_nudge, record_summary, send_isolated, run_step).
SilenceExplained ==
  \A c \in claims :
    c \in told \cup lost \/ \E r \in Runs : c \in Abandoned(run[r])

\* An item is not claimed for a due date it was claimed for before, also across
\* edits of its schedule.  claim_reminder compares with the run's own date
\* only, so midnight leaves two exceptions: a run that overlapped one of another
\* date may claim an item last claimed on the date before or after its own; and
\* where a run of yesterday has set last_reminded_date back from today's date,
\* the item may be claimed once more, which sets it right.
RemindedOnce == repeats = {}

\* A run that got through its reminders without an error leaves no item behind
\* that was due this month or this week, whenever it fell due and whatever days
\* the cron missed before (due_recurring_today catches up within the period):
\* a reminder was claimed on its due date or later, by this run or another,
\* even where an overlapping run of the day before has set last_reminded_date
\* back since.
RemindersCaughtUp ==
  \A r \in Runs, i \in Items :
    ( run[r].listed /\ items[i].there /\ i \notin run[r].edited )
    => LET due == DueDates[items[i].schedule][run[r].day] IN
       run[r].day < due \/ due <= reminded[i].day

\* A run that reaches its end has seen to the recap of its week, whatever went
\* wrong in the steps before, unless the recap's own step failed (run_step).
RecapDespiteErrors ==
  \A r \in Runs :
    ( /\ run[r].ended /\ ~run[r].noRecap
      /\ WeekStart(today) - 7 * KeepSummaries <= WeekStart(run[r].day) )
    => <<Recap, WeekStart(run[r].day)>> \in claims

SoundDays ==
  {d \in Days :
    LET m == MonthBounds(d) IN
    /\ m[1] <= d /\ d <= m[2]
    /\ MonthBounds(m[2] + 1)[1] = m[2] + 1
    /\ MonthBounds(PrevMonthAnchor(d))[2] = m[1] - 1
    /\ \A s \in Schedule :
         IF s.cadence = "monthly"
           THEN DueDate(s, d) \in m[1]..m[2]
           ELSE /\ DueDate(s, d) \in WeekStart(d)..(WeekStart(d) + 6)
                /\ DaysFromSunday(DueDate(s, d)) = s.day}

\* Every due date lies in its month or week, for any day of the month or week
\* an item may have; months follow one another without gap or overlap, and the
\* month before is the month before (month_bounds, prev_month_anchor,
\* due_recurring_today).
CalendarSound == today \in SoundDays
=============================================================================
