# Formal model of andy

andy is a personal finance assistant reached over iMessage. A Sendblue webhook
brings a message in, a language model proposes writes, a deterministic policy
decides what may happen to them, and one Postgres transaction records the
writes, the conversation turn and the reply. A daily cron delivers what is still
queued, sends nudges and cleans up. Everything runs in serverless invocations
that share nothing but the database.

This directory holds TLA+ modules that model that behaviour, TLC configurations
that check small instances, and TLAPS proofs for all instances. `PROJECT.json`
maps every definition to the source lines it stands for.

## 1. Inventory

| Part | State | Operations | Talks to |
|---|---|---|---|
| Inbound handling: `api/service.rs`, `db/queries.rs` (`claim_slot`), `db/confirmations.rs`, `db/writes.rs` (`flush_writes`), `shared/dedup.rs` | `processed_messages`, `pending_confirmations` | claim, answer a yes/no, run the agent, gate, park, cancel, flush | agent, policy, ledger, queue |
| Reply queue: `api/outbound.rs`, `db/ops.rs`, `db/writes.rs` (`save_outbound_reply_in_tx`) | `outbound_messages` | queue, claim by key, claim due, send, mark sent, mark failed | Sendblue; inbound handling and cron call it |
| Ledger and named records: `db/writes.rs`, `db/ops.rs` (`reconcile_goal_balances`) | transactions, budgets, goals (`saved_centavos`), recurring items, memories, `ledger_events` | one per `WriteIntent` | called by the flush; the cron repairs balances |
| Write policy: `ai/policy.rs` | none | `classify_writes`, `confirm_reply` | gates what the agent returned |
| Agent: `ai/agent.rs`, `ai/finance_tools.rs`, `ai/openrouter.rs` | the write buffer of one turn | tool loop, tools, retries of a model call | model provider, read queries |
| Daily cron: `api/cron.rs`, `db/ops.rs` | `nudges`, `summary_runs`, `last_reminded_date` of `recurring_items` | budget, reminder, goal-pace and weekly steps, delivery, hygiene | queue, Sendblue, every table it reaps |
| Webhook gate and rate limiter: `api/routes.rs`, `api/inbound.rs`, `db/ratelimit.rs` | fixed windows per key | authenticate, limit, parse, dispatch | inbound handling |
| Calendar, budget, goal and percentage arithmetic: `shared/*` | none | pure functions | everything |
| Migrations: `db/migrations.rs`, `xtask` | the migrations table | run, baseline | database |

What is hard here, and what makes each part correct:

* **Inbound handling.** The provider delivers at least once; a claim may be taken
  over after 2 minutes although an invocation may live for 5; any invocation may
  die between two statements; a yes and a no may race. Correct means: a dedup id
  is flushed once, a parked write set is applied at most once and not after an
  acknowledged no, and nothing the policy calls risky is written without a yes.
* **Reply queue.** A send has an effect outside the database that the database
  may never learn of. Correct means: one sender at a time, repeats only where
  they cannot be avoided, a bounded number of attempts, no reply forgotten.
* **Ledger.** Flushes are concurrent READ COMMITTED transactions; corrections of
  goal contributions read before they write. Correct means: a goal's balance is
  the sum of its contributions, and the audit trail agrees with the table.
* **Agent and policy.** Which row `edit_last` and `delete_last` mean is decided
  when they are buffered and again when they are flushed. The policy judges
  intents, the ledger keeps rows. Correct means: both decisions agree, a turn that
  commits unasked is small, the loop ends.
* **Named records** (recurring items, goals, memories). A name is looked up in the
  turn's snapshot and again in the flush. Correct means: what was named is what
  changes.
* **Budget lines.** Computed from a reading made before the flush. Correct means: a
  crossed limit is announced, and once.
* **Cron.** It records before it sends, runs may overlap and see midnight, and one
  failing step must not stop the others. Correct means: nothing twice, nothing due
  left behind, silence only for a known reason.
* **Webhook and rate limiter.** Concurrent increments of one window, counts that
  arrive late, a database that fails. Correct means: the limit holds, nobody is
  refused for others' traffic, and a 200 means the message was dealt with.
* **Migrations.** Several deployments at once, with different bundles, over
  databases the old tooling left. Correct means: each once, in order, and ready
  means the schema is there.

`PROJECT.json` lists the hazards one by one, at the line where each bites.

## 2. Modules

| Module | Content |
|---|---|
| `Inbound` | `InboundMessageService::handle`, one action per database statement, with the two cron statements that reap its tables |
| `GatedLedger` | abstract: what `Inbound` promises, seen from the ledger |
| `InboundProofs` | theorems about the marker and the claim, the confirmation protocol, and that `Inbound` implements `GatedLedger` |
| `OutboundQueue` | the reply queue and its workers |
| `ReplyDelivery` | abstract: what `OutboundQueue` promises |
| `OutboundQueueProofs` | theorems about the queue, and that it implements the safety part of `ReplyDelivery` |
| `Ledger` | the statements of concurrent flushes on transactions, goals and the audit trail, and the cron's repair of balances |
| `LedgerProofs` | theorems about balances and the audit trail |
| `Items`, `ItemsProofs` | recurring items, goal names and memories: the tools' lookups and the flush's; theorems |
| `WritePolicy` | `classify_writes` as an operator |
| `AgentTurn` | the tool loop, the tools, the retries of a model call (extends `WritePolicy`) |
| `AgentTurnProofs` | theorems about targets, the policy's sums and its rejections |
| `Alerts` | budget reactions, projections and goal pace, inside the turns that use them |
| `AlertsProofs` | theorems about announcements, projections and the advice on goals |
| `Calendar` | the date arithmetic of `shared/time.rs` |
| `DailyCron` | the steps of a cron run and their claims (extends `Calendar`, as `Alerts` does) |
| `DailyCronProofs` | theorems about the cron, and about the calendar for every date from 2000 to 2098 |
| `Webhook` | the gates of the webhook route, the rate limiter, its reap |
| `Migrations` | concurrent migration runs and the readiness probe (`/ready`) |
| `RouterProofs` | theorems about both, as the router serves both; that is why the names of `Migrations` begin with its own |
| `MC*` | instances for TLC |

The modules meet at interfaces that each of them states: `Webhook`'s `Handle` is
one run of `Inbound`; `Inbound`'s `RunAgent` is the outcome of an `AgentTurn`
whose verdict is `WritePolicy`'s; `FlushCommit` is one flush of `Ledger` and
`Items`; its `outbox` row is a `Flush` of `OutboundQueue`; `DailyCron` calls the
delivery of `OutboundQueue` and the reaps of the others.

### Inbound

State and code:

| Variable | Code |
|---|---|
| `processed` | table `processed_messages`: status, `claimed_at`, `completed_at`; `absent` is no row |
| `confs`, `confSeq` | table `pending_confirmations`; the id orders rows as `created_at` does |
| `outbox` | content of the `outbound_messages` row of a dedup id (its delivery is in `OutboundQueue`) |
| `run` | the locals of each running `handle` |
| `commits` | history of the flush transactions that committed; read by properties only |
| `now`, `deliveries` | the clock in minutes; how many deliveries were claimed |

Actions:

| Action | Code |
|---|---|
| `Claim` | dedup id (`message_handle`, or the content key of the minute), `claim_slot`, `confirm_reply` |
| `Lookup`, `LookupNothing` | `resolve_pending_confirmation` up to its branch; with nothing pending the text goes to the agent |
| `RunAgent`, `AgentFails` | the agent's answer and `classify_writes`; an agent error is answered outside the queue and keeps the claim |
| `Park` | `save_pending_confirmation`, its own transaction, idempotent per message handle |
| `Cancel` | `cancel_pending_confirmations`, its own transaction |
| `FlushCommit`, `FlushSuperseded` | `flush_writes`: consume, write, queue the reply, complete the marker, or roll back |
| `Abort` | a database error, a crash, or the end of `maxDuration`, at any point |
| `ReapProcessed`, `ReapConfirmations` | hygiene |

Abstractions. A write set is a *plan* and `Risk` is what `classify_writes` says
of it, so the properties hold for whatever the model proposes and whatever the
policy's thresholds are. A flush is one step: its statements are in one
transaction, and the two rows on which invocations compete, the confirmation and
the marker, are locked by it before their status is tested. There is one user:
rows of different users never meet in these statements. The database's and the
application's clock are one clock.

### OutboundQueue

`status`, `attempts`, `timer` (minutes to `next_attempt_at`, or to the moment a
claim is stale) and `born` are the columns of `outbound_messages`; `worker` holds
the locals of each delivering invocation; `gap` and `flushes` say when a key may
be queued again (`Inbound`'s `CommitsApart` is why a second flush is far away);
`delivered` and `lost` are histories of what the user received and of what the
queue does not know of. `SendError` ranges over all error classes and over
whether the provider had sent the message all the same. `Stop` ends a worker at
any point. Not modelled: a blank reply (no row is written), and
`for update skip locked`, which only keeps two claims of the same instant apart;
claims are single steps here.

### Ledger

`Inbound` takes a flush as one step, because what it tests is locked. What a
flush does to the ledger is not: `delete_transaction` and `edit_transaction` read
without a lock. `Ledger` therefore has one action per statement.

| Variable | Code |
|---|---|
| `transactions`, `nextSeq` | table `transactions` by `seq`: there, goal, amount |
| `goals` | table `savings_goals`: there, `saved_centavos` |
| `trail` | `ledger_events`, as an account: for each transaction and amount, the rows with it `after` less those with it `before` |
| `flush` | of each turn: the snapshot's last transaction and goals, `FlushState`, the locals of the statement under way, and the rows the open transaction has written (`tx`, `goal`, `log`) |
| `cron` | the `update` of `reconcile_goal_balances` under way: its sums and its row locks |
| `torn`, `flush.tears`, `cron.raced` | histories, read by `DriftExplained` only; `crossed`, `flush.crossing` by `TrailExplained` |

| Action | Code |
|---|---|
| `ReadTurn`, `Begin` | `last_transaction` and the goals of the snapshot; the model call lies between it and `flush_writes` |
| `LogTransaction` | `WriteIntent::Transaction` |
| `Contribute`, `Credit` | `WriteIntent::GoalContribution`, its two statements |
| `DeleteLast`, `Refund`, `Remove` | `delete_last` and `delete_transaction`: select, balance, row and event |
| `EditLast`, `Adjust`, `NothingToEdit`, `Update` | `edit_last` and `edit_transaction`, likewise; a contribution's category is not changed |
| `CreateGoal`, `DetachGoal`, `DeleteGoal` | the goal intents |
| `Commit`, `Rollback` | the end of `flush_writes`; any error, deadlock or timeout rolls back |
| `Repair`, `RepairGoal`, `RepairDone`, `RepairFails` | `reconcile_goal_balances` |

READ COMMITTED is modelled by what the code relies on. A statement sees the
committed rows under the transaction's own (`Tx`, `Goal`). A row another open
transaction has written is locked (`FreeTx`, `FreeGoal`): the action is not
enabled until that one ends, and then works on the committed version, as a
relative update does. The foreign key keeps a goal with an uncommitted
contribution from being deleted, and sets `goal_id` to null otherwise. The
repair's sums come from one snapshot, also when it had to wait for a row.
The events of one flush share their `created_at`, the start of its transaction, and
have random ids, so nothing orders them; flushes may commit in another order than
they begin. `trail` therefore keeps no order: what a reader can rely on is that the
events of a row, added up, leave the one amount the row has, and none once it is gone.
A correction whose target has gone is a no-op in the code and no step here. Category,
note, account and date are left out; budgets are in `Alerts`, recurring items, goal
names and memories in `Items`.

### The abstract specifications

`GatedLedger` has three variables: the write sets applied, a set of entries of
which each new one has a place after all others, the parked ones still open, and
how many were ever parked. Its steps are `Log` (a safe write set),
`Park`, `Apply` (a yes takes one from the open and applies it, in one step) and
`Close`. It knows nothing of invocations, claims, redelivery or crashes.
`Inbound` implements it (`ImplementsGate`): `ledger` has the commits that wrote,
with their index and their plan, `open` the pending rows of
`pending_confirmations`, `parked` the sequence number. `ReplyDelivery` says what
may become of a reply (`Spec`) and that a queued one is settled in the end
(`FairSpec`); `OutboundQueue`, where pending and sending both map to queued,
implements the first step by step and the second with its fairness
(`ImplementsDelivery`).

### Items

Names are model values, `Contains` says which is part of which. A memory's text has
two forms: `Stored`, what the SQL of `save_memory_in_tx` makes of its row, and
`Asked`, what `normalize_memory_content` makes of it when it is looked for. Both are
constants, any functions at all: they differ on letters outside ASCII (in a UTF-8
locale, the default of the database image that CI uses), and a text of which the program
keeps nothing (`NoForm`) is neither saved nor forgotten. Among several hits the code
takes the newest by `created_at`, the start of a transaction, which says little of rows
that overlapping turns inserted; the model takes any. A turn plans an
intent from the tables as its snapshot shows them, `Select` is the flush's own
lookup, and a `Flush...` action its last statement and commit, or the abort when a
check or a unique index refuses the row. Goals are addressed by id from the plan
on, recurring items by label. `doubled`, `aborts`, `raced` and `missing` are
histories.

### WritePolicy and AgentTurn

An intent keeps its variant, its amount, and what the policy or the flush look at
besides. The buffer is a sequence of them; every write tool appends one, with the
guards under which it refuses. `meant` records the buffered row a correction was
accepted for; `LastIdBefore` recomputes, write after write, what
`last_inserted_tx_id` will be when the flush reaches it, and `LeftIn` what the flush
leaves in a row. Texts of memories are classes: with a durable cue, with a number
and a spend verb, with both, with neither.

### Alerts

One category with a budget, one goal with a deadline. A turn buffers what it logs
(`batch`) and one thing besides (`Extras`): it corrects or deletes the last
transaction, which may be one it has just logged (`own`), moves one into the category,
contributes to the goal, or sets the limit. It reads the month (`Read`), then commits,
is parked, or is dropped; `told` is the level the user knows of, `why` the reason it is
not the level there is. `Reacts` is the line: it sums what the turn logs and nothing
else, as the code does. What the flush leaves is `Left` (of the turn's own rows) and
`Corrected` (of the earlier ones). A contribution adds an expense in Savings/Goals, so
it counts against the budget when the category is that one (`SavingsGoals`, which the
run sets and the theorems leave open). Ratios that the code
computes in `f64` are exact fractions here, amounts exact integers. A month is a
function from the positions of its rows to their amounts, as nothing the code makes
of it depends on their order; `Ranked` is the k-th of the amounts in order, which
the code gets by sorting, and the median is taken from it.

`ProjectionSound` states the warning of the pace with its rounding: a projection is
rounded to a centavo, so the extrapolation behind a warning may be half a centavo
short of 110% of the limit, and with a limit of a few centavos that is more than a
percent.

### Calendar and DailyCron

A date is a number of days; the part that stands for chrono is marked external.
`DailyCron` has one action per statement of a step, so that two runs may interleave
anywhere; a run keeps the date of its start. `claims` holds the rows of `nudges`
and `summary_runs`, `items` the recurring items with `last_reminded_date`.
Which budgets and goals are found is any choice. A statement may fail without
effect (`StepError`) or, a claim, take effect and lose its answer
(`AlertUnanswered`, `ReminderUnanswered`): either way the error ends the step.
`reminded` is a history of the latest due date an item was claimed for and the
latest date of a run that claimed it, which a run of yesterday cannot set back.

### Webhook

A request is what the gates look at. `Gate` is everything before the first
database access, in order. `Stamp` reads the clock, `Count` is the upsert, which may
arrive later, fail, or succeed with its answer lost. The service returns without an
error also when the model failed and the user was told so.

### Migrations

A run is one transaction: its `view` is the committed database plus its own
changes. The probe reads twice without a lock. The legacy databases are the two
that `LEGACY_BASELINE` provides for: everything up to 0012, with and without the
table of 0013. The old tooling's journal (`migrations/meta/_journal.json`) has
shorter prefixes too; the comment at `migrations.rs:160` takes it that no database was
left at one, and so does `Init`: baselined, it would record versions whose objects
it lacks.

## 3. Runs

| Run | Instance | Shows |
|---|---|---|
| `marker` | 3 invocations, a message with and one without a handle, 4 deliveries, 6 minutes | `CommitsApart`, `TakeoverOnlyWhenStale` |
| `confirm` | 2 invocations, a message, a yes without a handle, a no, safe and risky plans, 4 deliveries, 3 minutes | `TypeOK`, `RiskyNeedsYes`, `ConfirmationAppliedOnce`, `CancelSticks`, `AppliedInTime`, `ImplementsGate` |
| `reparked` | 1 invocation, a message, two yes | a documented claim the code does not keep (section 5) |
| `queue` | 2 replies, 2 workers, 2 attempts, 2 flushes per key, 1 crash | `TypeOK`, `OneSender`, `RepeatsExplained`, `AttemptsPaidFor`, `SettledIsFinal` |
| `queue_live` | 2 replies, 1 worker that claims one row at a time, 2 crashes | `ImplementsDelivery` |
| `ledger` | 2 turns at a time, 4 in all, 2 intents each, 2 transactions, 1 goal, 1 repair | `DriftExplained`, `TrailExplained` |
| `items` | 2 turns at a time, 3 in all, two names of which one contains the other; four memories: two plain ones, of which one contains the other, one asked for in the form of another, one with no form | `NamedItemChanged`, `RememberedOnce`, `MemoryKept`, `AbortExplained` |
| `agent` | 3 tool calls of any tools, 2 rounds, 2 attempts, threshold 3 with amounts 1 and 2 | `TargetAgrees`, `SafeIsSmall`, `RejectExplained`, `TurnEnds` |
| `alerts` | 2 turns, 3 rows, 1 turn that does not only log, three dates of two months, the category is Savings/Goals, with a limit or none | `CrossingAnnounced`, `AnnouncedOnce`, `ProjectionSound`, `GoalAdvice` |
| `cron` | 2 runs, a category, an item, 2 edits, four dates | `ToldOncePerWeek`, `SilenceExplained`, `RemindedOnce`, `RemindersCaughtUp`, `RecapDespiteErrors`, `CalendarSound` |
| `webhook` | 2 invocations, 3 requests, limit 1, 5 instants with windows of 2 | `AdmittedPerWindow`, `LimitedOnlyWhenSpent`, `AcknowledgedMeansHandled` |
| `migrations` | 3 deployments, bundles of 16 and 21, 14 legacy versions, 3 runs, 1 probe | `ExecutedOnceInOrder`, `RecordedIsCreated`, `ReadyHasSchema` |

Bounds. Durations are scaled down and keep the code's order: claim TTL
(2 min) < `maxDuration` (5 min) < confirmation TTL (60 min) < retention of stale
claims (24 h) and of completed markers (3 d); in `confirm` the first
three are equal, which is the tighter case (a claim can be taken over and a
confirmation expire within the life of one invocation). `marker` is long
enough (`MaxTime` 5) for a claim to be taken over, a marker to be completed, kept,
reaped, and the id to be flushed again while a third invocation is still at work:
three invocations are the first, its takeover, and one more. `confirm` has the
messages that can be at odds over one row; the yes has no handle, so that in another
minute it is another yes, and four deliveries are a message, a no and two yes, or two
parked plans with a no and a yes, or redeliveries in place of some. Rejected plans are left to the theorem
`PolicyGate`. In `queue`, 2 attempts are a retry and a last
one; 2 flushes per key are a first reply and a re-queued one. `ledger` has room for
a goal, a contribution, two corrections of it that overlap, and a repair beside
them, and for a turn that corrects what it has just logged.

`items` needs three turns for two that overlap over what a first one left, and two
names because a lookup can only go wrong between a name and a part of another; the
memories stand for "pia", "piano", "pia" with a tilde, and a word in another script.
`agent` needs three calls for a log, a delete or second log, and a correction; more
than `MaxWritesPerTurn` (2) writes, and a sum that reaches the threshold when no
single amount does. `alerts` has two batches that make a month with an outlier, one
of them exactly at the limit, so that three rows cross 80% and then 100%, the last day
of a month, and a date in the month after; one turn of the run corrects, contributes or
sets a limit, the others only log. The dates of
`cron` are a Sunday, the Monday and the Tuesday after it (the last of November) and
the last of December: a midnight between two weeks that two runs may meet at, the
31st in a month of 30 days, the end of a year; retention is one week, so that the
reap meets rows of the week before. `webhook` keeps rows for window and duration
and no longer, the least that `RateAssumption` allows. `migrations` uses the
lengths of the code; the two bundles are an older and the present binary.

Clocks and calendars of the instances end, as do their runs and flushes, so the
runs of `Inbound`, `Webhook`, `DailyCron`, `Alerts`, `Items`, `Migrations` and
`AgentTurn` (a turn ends) do not check deadlock; those of `OutboundQueue`, whose
clock is relative, and of `Ledger` do. Handlers, workers, flushes, runs and
invocations are interchangeable (symmetry), except under the liveness runs.

Fairness. `queue_live`: an invocation that is not
stopped takes its next step, the cron runs again and again (`vercel.json`
schedules it daily), and time passes. No fairness is assumed of the provider,
sends may fail for ever, nor of flushes, and a worker may stop at any point,
finitely often: with unboundedly many crashes no queue delivers. `agent`: as long
as the invocation lives its loop takes a next step; a model call is ended by its
timeout if by nothing else. Nothing is assumed of what the model answers.

Every property has a mutant, a plausible slip in the code it is about, under
which TLC finds it violated; mutants stand before the definition they replace.
The `TypeOK` of modules whose run does not check it are theorems (section 4).

## 4. Theorems

`Inbound`, for any messages, plans, policy, number of invocations and deliveries,
from `MessageAssumption`, `RiskAssumption` and `TimeAssumption` (of the
durations: both retention periods exceed `maxDuration`):

* `TypeCorrect`.
* `FlushedOnce`: `CommitsApart`. It says nothing of the table, so the inductive
  invariant `MarkerInv` adds `MarkerHolds`: while a flush is younger than the
  retention period, its marker is there, completed, and not older than it. A
  further flush needs `MarkerOK`, which then fails; a reap needs an older marker.
* `TakeoverSafe`: `TakeoverOnlyWhenStale`. `ClaimInv` adds `ClaimHolds`: the row
  of every live invocation is still there (this is where `maxDuration` below the
  retention periods is needed) and was claimed or completed no earlier than the
  invocation started.
* `AppliedOnce`, `CancelIsFinal`, `PolicyGate`, `ExpiryHolds`: the four properties
  of the confirmation protocol, from one invariant `ConfInv`. Besides the properties
  it has `RowsOK` (numbers are unique and never reused, only risky plans are
  parked), `HandlersOK` (what a handler knows at each point: that its plan is safe,
  or that it holds a yes and started before the row expired, or that nothing up to
  the row it cancelled is pending) and `CommitsOK` (the same of the flushes behind
  it). The heart of it is `RowsForward`: no step of anyone makes a settled number
  pending again.
* `GateImplemented`: the refinement `ImplementsGate`, each action mapped to its step
  of `GatedLedger` or to a stutter. Beyond `ConfInv` it needs `HeldPlan`: the plan a
  handler holds after a yes is that of the row.

`OutboundQueue`, for any keys, workers, durations and budgets, from
`QueueAssumption` (`maxDuration` below the 15 minutes of a claim):

* `TypeCorrect`.
* `OneSenderAtATime`: `OneSender`. `HoldInv` adds that a held reply reads
  `sending` until the key is flushed again, and that its timer and the age of its
  holder add up to the 15 minutes, which no invocation reaches.
* `SettledStays`: the action property `SettledIsFinal`, step by step from
  `HoldInv`.
* `EveryRepeatExplained`, `RetryBudget`: `RepeatsExplained` and `AttemptsPaidFor`.
  Both compare counters that move in different steps, so `AccountInv` keeps account
  of what may still come. `KeySends`: deliveries so far, one more for each holder that
  has not sent, and one if somebody may claim the reply, are paid for by flushes and
  losses. `KeyAttempts`: attempts, and one if it may be claimed, by the budget, by
  crashes and by further flushes. A reply that reads `sending` may be claimed only
  when nobody holds it (`HeldIsFresh`), and then a crash has paid for that.
* `QueueImplementsDelivery`: the safety part of `ImplementsDelivery`.

`Ledger`, for any number of concurrent flushes, turns, goals, rows and amounts,
from `LedgerAssumption`:

* `TypeCorrect`; among the types is that no balance is negative.
* `BalancesAddUp`: `DriftExplained`. Neither balance nor sum means anything while a
  flush is open, so `LedgerInv` says of each flush what it has written and not
  committed: `PlaceOK`, `RowsOK`, `MineOK`, `UsedOK`, `GoalsOK` (which rows it
  holds, and how they relate to those it read), `BalanceOK` (its balances differ
  from the committed ones by what its rows differ in, less the one adjustment it
  has still to make or has made too early, but for goals it is known to have torn),
  `CreditedOK` (a new contribution has its goal's balance written or is about to,
  so that a repair beside it is marked as raced) and, of each two flushes, `Apart`:
  what one has written the other has not, the row locks. `TablesOK` and `CronOK` say
  what is committed: a goal that is not torn has its sum, and a repair's sums of
  goals it was not raced on are still right.
* `TrailTells`: `TrailExplained`, of which `LogOK` is the part of an open flush: its
  events add up to what its rows differ in.

`Items`, for any names, labels, memories, any part-of relations and any two
normalisations, from `ItemsAssumption` (the set of names is finite):

* `TypeCorrect`.
* `OneRowPerText`, `RefusalHasACause`: `RememberedOnce`, of texts that both
  normalisations reduce alike, and `AbortExplained`. `ItemsInv`
  adds `PlannedOK` (what a tool has accepted), `IdsOK` (an id is given once),
  `RowsLegal` (the tables' checks) and `SeenOK`: what a flush read is still so, or
  the history knows who changed it.
* `TheNamedItemChanges`, `MemoriesDoNotFade`: the action properties
  `NamedItemChanged` and `MemoryKept`. The first needs that an id belongs to one
  label for ever, as the flush goes by an id read a statement earlier.

`AgentTurn`, for any tool calls, rounds, attempts, amounts and thresholds, from
`PolicyAssumption` and `AgentAssumption`:

* `TypeCorrect`.
* `CorrectionsHit`: `TargetAgrees`. The tool looks back through the buffer, the flush
  goes forward through it; `LastIdIs` shows that both find the same row at every
  position, and `RowInPrefix` that what is buffered later does not matter. With
  that, `TurnInv` says what was meant in the tool's words.
* `SafeMeansSmall`: `SafeIsSmall`, of any buffer. By `LeftIsAmounts` the rows never keep
  more than the policy adds up: each write adds its amount to the sum and sets one
  row at most to it.
* `RejectsOnlyMixed`: `RejectExplained`, from `MemoriesScreened`, what the tool lets
  through.

`DailyCron`, for any items, schedules, runs, edits and dates, from `CronAssumption`
(there is a first date, dates are from 2000 to 2098, no item has the name of a
kind of nudge):

* `TypeCorrect`. `BaseInv` adds where in its steps a run can be (`PlacesOK`) and that
  it sees one midnight at most (`DatesOK`).
* `CalendarRight`: `CalendarSound`, for every date of those years; `MonthExists`, `BoundsFound`
  and the lemmas on years and weeks say what the arithmetic computes.
* `OncePerWeek`, `SilenceHasACause`: `ToldOncePerWeek` and `SilenceExplained`, from
  `AlertInv`: what was sent, or is about to be by one run at most, is claimed or too
  old for any run to claim again (`SentOK`), and the reap takes only what is.
* `RecapSurvivesErrors`: `RecapDespiteErrors`, as no row that a run under way may
  need is reaped.
* `NoSecondReminder`, `NoneLeftBehind`: `RemindedOnce` and `RemindersCaughtUp`, from
  `RemindInv`: a reminder is for a due date no later than its day, and the row's date
  is no later than the last of those days (`ItemsOK`); a run's list has every item it
  has still to see to, and what it is about to remind of is newer than the last
  reminder, unless another run has just given it or midnight is to blame (`Fresh`).

`Webhook`, for any window, limit, retention and number of invocations, from
`RateAssumption` (window and `maxDuration` together within the retention):

* `TypeCorrect`.
* `AdmissionBounded`: `AdmittedPerWindow`. `RowsOK` adds that the row of a window counts
  every request the window admitted until the window is older than the retention,
  and `StampsOK` that a count on the way was stamped after its invocation started, so
  that it goes to a younger window. This is where the assumption is needed:
  otherwise a late count could start a new row.
* `OnlyTheTokenSpends`: `LimitedOnlyWhenSpent`. `SpentOK` adds the converse: a row
  counts no more than the requests stamped in it, less those still on the way.
* `NoLossByAcknowledgement`: `AcknowledgedMeansHandled`, from `ServedOK`.

`Migrations`, for any deployments, bundles and lengths, from `MigrationsAssumption`
(a newest bundle; bundles longer than the legacy part, which has two at least):

* `MigrationsTypeCorrect`.
* `OnceAndInOrder`, `RecordIsSchema`, `ReadyMeansSchema`: `ExecutedOnceInOrder`,
  `RecordedIsCreated`, `ReadyHasSchema`. `MigrationsInv` has what is true between
  the properties: versions and objects are initial segments (`DbOK`), what was
  executed increases (`HistoryOK`), the holder of the lock sees the committed
  database plus what it executed itself (`RunOK`), and what a probe saw is still
  there (`ProbeOK`). A count of versions means something only because they form a
  segment.

`Alerts`, for any turns, amounts, limits, contributions, target and deadline, and any
dates of the years 2000 to 2098, from `AlertsAssumption`:

* `TypeCorrect`.
* `CrossingsAnnounced`: `CrossingAnnounced`. It is not inductive: that the level told
  is the level there is survives a flush only if the reply that goes with the flush
  was right. `AlertsInv` therefore adds `LinesFresh`: a reply that nothing has
  overtaken announces what would be announced if it were composed now. Then a flush
  that raises the level says the new level (`FreshLine`, from `LineIsCrossing` and
  `SpentConcat`: what a batch adds to the month is what it logs in it), provided that
  it leaves no more than the turn logged (`FlushMonth`); a turn that leaves more has
  the correction, the limit or the contribution for a cause. `ToldHolds`
  (the user was not told of more than there is) makes it hold when a row is deleted
  or the month ends, and `DatesPast` (nothing is dated in the future) makes a new
  month begin empty.
* `AnnouncesOnce`: the action property `AnnouncedOnce`, from the same invariant. Of
  all steps only the flush answers a turn and changes the rows
  (`OnlyCommitAnswers`), and what it says is new, as it is above all there was, and
  true, as a turn that corrects nothing leaves at least what it logged.
* `LineIsCrossing`: what `budget_reaction_line` computes, for all limits and spending.
* `ProjectionsSound`: `ProjectionSound`. The month is split into what stands out and
  what does not (`SpentSplit`), each part bounded, and day and length of the month are
  those of the calendar lemmas. It holds whichever expenses stand out;
  `OutliersAreFew` adds that they are fewer than half, from `RankedIs`, by which the
  k-th amount of a month exists and is where sorting would put it.
* `GoalsAdvised`: `GoalAdvice`, for every hour and every amount saved.

The lemmas on years and months that `DailyCronProofs` has, and those on sums of
`LedgerProofs`, stand in `AlertsProofs` once more: the modules these are about share
names of variables and cannot be extended together.

How it is done. Where a proof needs an induction over numbers, prefixes or sets
(the sums of `Ledger`, `AgentTurn` and `Alerts`, the flush's last id, the calendar), it takes
the least counterexample, which exists because inclusion of finite sets is well
founded. So nothing recursive had to be assumed: that a recursive function or a
fold has the value meant is a lemma (`LastIdIs`, `SumIsTotal`).

Only model-checked. Liveness: `TurnEnds` and the liveness part of
`ImplementsDelivery`, which are out of the prover's reach, as is whether an action is
enabled (deadlock). Every other property of a passing run is a theorem.

## 5. What the code does not keep

* `reparked`: the cron deletes consumed confirmations, and with them the only
  record that a message's parked writes were applied. If the invocation that
  parked them died before completing its marker, a late redelivery parks them
  again and a second yes applies them again. The run checks `OneMessageLogsOnce`,
  as CONTRIBUTING.md states it.

The following were met while modelling; each is visible in the model and no run is
kept for it.

* A text with a letter outside ASCII is looked for without that letter and stored with
  it (`memory.rs:12`, `writes.rs:756`), so it does not find its own row (`Plain` is
  false of it). Two turns that save it one after the other leave two rows, a stronger
  kind promotes none, and forgetting it takes another memory or none, while
  `memory.rs:3` says that saving and forgetting agree. `RememberedOnce` says what holds
  of the other texts.
* A turn that logs 400 and corrects it to 100 before it ends announces the level of 400,
  since the line is computed from the logged intents alone (`service.rs:363`). What the
  reply says is not so, and the next expense may announce the same crossing again
  without anything overlapping. `AnnouncedOnce` excepts such turns.
* On a retry the row of the first run stays parked (`AlreadyParked`) while the user
  is asked about the plan of the second.
* A no that loses the race against a yes answers "nothing changed"
  (`service.rs:259`). `CancelSticks` says what does hold.
* A stale claim of a reply is taken over whatever its attempt count, so crashes
  add attempts beyond `max_attempts`, while `SECURITY.md:32` speaks of a finite
  budget. `AttemptsPaidFor` says by how much.
* In a turn that logs two transactions and deletes the second, the next correction
  goes to a transaction of an earlier turn, although the first is still the last of
  this turn (`finance_tools.rs:1388`, `CONTRIBUTING.md:44`). `TargetAgrees` says
  that tool and flush at least agree.
* Five model calls of three attempts of 45 s are more than `maxDuration`
  (300 s): `openrouter.rs:10-13` expects a hung upstream to fail before that.
* An expense that needs a confirmation never gets its budget line: the reply that
  has it is replaced by the question, and the answer to yes is not computed again
  (`CrossingAnnounced`, cause `confirmed`).
* A contribution to a goal is an expense of Savings/Goals (`writes.rs:190`), which the
  status of that budget counts and the line does not: the budget is crossed in silence
  (`CrossingAnnounced`, cause `contribution`). So it is by a correction that raises an
  amount or moves an expense into the category (cause `edit`).
* `EditGoal`, `AddRecurring` and `EditRecurring` bear no amount for the policy, so
  they are safe at any size, although `policy.rs:12` says "a single create/edit at
  or above this asks for confirmation".
* The policy's test of memories ignores the durable cues that the tool's test looks
  at first (`policy.rs:306` says it mirrors it), so a text with both is accepted by
  one and makes the other reject the turn. `RejectExplained` says that nothing else
  does.
* A rate window longer than the 24 hours that its rows are kept would not limit; the
  environment's value is not bounded (`RateAssumption` assumes it). The reap
  compares `bucket_start`, the beginning of a window, where its comment speaks of
  the end. The limiter's key is the token alone; `README.md:141` and the comment in
  `routes.rs` still name the phone.
* A run of the cron that saw midnight may remind of an item beside a run of the next
  day, and set `last_reminded_date` back to its own date, after which the item may be
  reminded of once more. `RemindedOnce` excepts these two cases and nothing else;
  `RemindersCaughtUp` needs no exception.
* `record_nudge`, `record_summary` and `claim_reminder` run in no transaction with the
  send. If the row commits and the answer is lost, the step ends with an error and the
  week, or the due date, is claimed and silent. `SilenceExplained` names it among the
  causes; reminders are judged by the claim.

The balance of a goal can be off after overlapping corrections of one
contribution; the code knows it and repairs it daily. `DriftExplained` says that
nothing else makes it so, and that a repair no flush of the goal overlapped ends
it. In the same way `TrailExplained` excepts transactions of which a correction found
another amount than it had read: an event records what was read and meant, so the one
whose update was overwritten is in the trail all the same, for good.

## 6. Plan

Done: the modules of section 2, their runs, the two refinements, and a theorem for
every safety property of every module. Next, in this order:

1. Rejected plans in a run of `Inbound`; until then `PolicyGate` covers them.
2. Further parts of the source: the searches of `finance_tools.rs` and the
   configuration, as far as a property depends on them.

## 7. Not modelled

Money parsing and formatting (character level, no state, unit-tested); wording,
prompts and tool schemas; `spending_delta` and `percent_rounded`, which only feed
text; searches and listings for the model's context (single SELECTs, `ReadTool`);
conversation history and `reap_messages` (no decision depends on them); the inserts
of `Transfer` and `SaveTurn`; parsing of dates and the UTC offset; configuration,
logging, HTTP and JSON details. Floating-point rounding of ratios near a threshold
is not modelled: ratios are exact.
