-------------------------------- MODULE Ledger --------------------------------
(***************************************************************************)
(* The ledger writes of a flush, statement by statement.                   *)
(*                                                                         *)
(* flush_writes applies the intents of a turn in one READ COMMITTED        *)
(* transaction.  A statement sees what is committed and what its own       *)
(* transaction wrote; a row written by another open transaction makes it   *)
(* wait, and it then goes on from the version that was committed.  A goal  *)
(* keeps its balance in saved_centavos beside the contributions it is the  *)
(* sum of, and every intent that touches a contribution adjusts it; the    *)
(* daily cron recomputes it (reconcile_goal_balances).                     *)
(*                                                                         *)
(* Only what the balance and the audit trail depend on is kept of a        *)
(* transaction: its goal and its amount.  Category, note, account and date *)
(* are left out, and with them the intents that touch nothing else.        *)
(***************************************************************************)
EXTENDS Integers, FiniteSetsExt

CONSTANTS
  Flushes,     \* concurrent turns of the user
  Goals,       \* ids of savings goals
  NoGoal,      \* goal_id is null
  Amounts,     \* amounts in centavos
  MaxTx,       \* bound of the model: transactions ever inserted
  MaxFlushes,  \* bound of the model: turns
  MaxIntents,  \* bound of the model: intents of a turn
  MaxRepairs   \* bound of the model: cron runs

ASSUME LedgerAssumption ==
  /\ NoGoal \notin Goals
  /\ Amounts \subseteq Nat \ {0} /\ Amounts # {}
  /\ {MaxTx, MaxFlushes, MaxIntents, MaxRepairs} \subseteq Nat

VARIABLES
  transactions, \* table transactions, by seq
  goals,        \* table savings_goals
  trail,        \* table ledger_events: of each transaction and amount, the rows
                \* that have it after less those that have it before
  nextSeq,      \* the sequence behind transactions.seq
  flush,        \* what each turn is doing
  begun,        \* number of flushes begun
  cron,         \* what reconcile_goal_balances is doing
  torn,         \* history: goals adjusted by a row that was not the one read
  crossed       \* history: transactions of which a correction found another
                \* amount than the one it had read

history == <<torn, crossed>>
vars == <<transactions, goals, trail, nextSeq, flush, begun, cron, history>>

-----------------------------------------------------------------------------
Seqs == 1..MaxTx
NoSeq == 0
NoAmount == 0

TxRow == [there: BOOLEAN, goal: Goals \cup {NoGoal}, amount: Nat]
GoalRow == [status: {"unused", "there", "gone"}, saved: Nat]
Account == [Amounts -> Int]

NoTx == [there |-> FALSE, goal |-> NoGoal, amount |-> 0]
NoGoalRow == [status |-> "unused", saved |-> 0]
NoEvents == [a \in Amounts |-> 0]

\* A row the transaction has not written.
Untouched == [untouched |-> TRUE]

\* target, known = last transaction and goals of the turn's snapshot; last =
\* FlushState::last_inserted_tx_id; mine = rows it inserted; row, seen, amount =
\* the transaction a step works on, as it was read, and the amount to set;
\* tears, crossing = history, see torn and crossed; tx, goal, log = what it has
\* written.
Flush == [pc: {"idle", "turn", "open", "credit", "refund", "remove", "adjust",
               "update", "detached"},
          target: 0..MaxTx, known: SUBSET Goals, intents: 0..MaxIntents,
          last: 0..MaxTx, mine: SUBSET Seqs,
          row: 0..MaxTx, seen: TxRow, amount: Nat, which: Goals \cup {NoGoal},
          tears: SUBSET Goals, crossing: SUBSET Seqs,
          tx: [Seqs -> TxRow \cup {Untouched}],
          goal: [Goals -> GoalRow \cup {Untouched}],
          log: [Seqs -> Account]]

Idle == [pc |-> "idle", target |-> NoSeq, known |-> {}, intents |-> 0,
         last |-> NoSeq, mine |-> {}, row |-> NoSeq, seen |-> NoTx,
         amount |-> NoAmount, which |-> NoGoal, tears |-> {}, crossing |-> {},
         tx |-> [s \in Seqs |-> Untouched],
         goal |-> [g \in Goals |-> Untouched],
         log |-> [s \in Seqs |-> NoEvents]]

Cron == [pc: {"idle", "running"}, runs: 0..MaxRepairs, sums: [Goals -> Nat],
         left: SUBSET Goals, fixed: SUBSET Goals, raced: SUBSET Goals]

NoRepair(n) == [pc |-> "idle", runs |-> n, sums |-> [g \in Goals |-> 0],
                left |-> {}, fixed |-> {}, raced |-> {}]

TypeOK ==
  /\ transactions \in [Seqs -> TxRow]
  /\ goals \in [Goals -> GoalRow]
  /\ trail \in [Seqs -> Account]
  /\ nextSeq \in 1..(MaxTx + 1)
  /\ flush \in [Flushes -> Flush]
  /\ begun \in 0..MaxFlushes
  /\ cron \in Cron
  /\ torn \subseteq Goals /\ crossed \subseteq Seqs

Init ==
  /\ transactions = [s \in Seqs |-> NoTx]
  /\ goals = [g \in Goals |-> NoGoalRow]
  /\ trail = [s \in Seqs |-> NoEvents]
  /\ nextSeq = 1
  /\ flush = [f \in Flushes |-> Idle]
  /\ begun = 0
  /\ cron = NoRepair(0)
  /\ torn = {} /\ crossed = {}

-----------------------------------------------------------------------------
(***************************************************************************)
(* What a statement sees, and what makes it wait.                          *)
(***************************************************************************)
Touched(x) == x # Untouched

Tx(f, s) == IF Touched(flush[f].tx[s]) THEN flush[f].tx[s] ELSE transactions[s]

Goal(f, g) == IF Touched(flush[f].goal[g]) THEN flush[f].goal[g] ELSE goals[g]

FreeTx(f, s) == \A e \in Flushes \ {f} : ~Touched(flush[e].tx[s])

\* Mutant: the balance is computed from what was read, not from the locked row.
FreeGoal_NoLock(f, g) == TRUE

FreeGoal(f, g) ==
  /\ \A e \in Flushes \ {f} : ~Touched(flush[e].goal[g])
  /\ g \notin cron.fixed

\* The foreign key: an uncommitted contribution keeps its goal from going.
Unreferenced(f, g) ==
  \A e \in Flushes \ {f}, s \in Seqs : s \in flush[e].mine => flush[e].tx[s].goal # g

\* Sum of the committed contributions to a goal.
Contributions(g) == {s \in Seqs : transactions[s].there /\ transactions[s].goal = g}

SumOf(g) == MapThenSumSet(LAMBDA s : transactions[s].amount, Contributions(g))

\* The flush moves on; only its own record changes.
Locally(f, r) ==
  /\ flush' = [flush EXCEPT ![f] = r]
  /\ UNCHANGED <<transactions, goals, trail, begun, cron, history>>

-----------------------------------------------------------------------------
(***************************************************************************)
(* A turn and its transaction.                                             *)
(***************************************************************************)
There(g) == goals[g].status = "there"

Live == {s \in Seqs : transactions[s].there}

\* The snapshot of the turn: last_transaction and list_goals.  The model call
\* follows.
ReadTurn(f) ==
  /\ flush[f].pc = "idle"
  /\ Locally(f, [Idle EXCEPT !.pc = "turn",
                             !.known = {g \in Goals : There(g)},
                             !.target = IF Live = {} THEN NoSeq ELSE Max(Live)])
  /\ UNCHANGED nextSeq

\* flush_writes begins its transaction.
Begin(f) ==
  /\ flush[f].pc = "turn"
  /\ begun < MaxFlushes
  /\ begun' = begun + 1
  /\ flush' = [flush EXCEPT ![f].pc = "open"]
  /\ UNCHANGED <<transactions, goals, trail, nextSeq, cron, history>>

NextIntent(f) == flush[f].pc = "open" /\ flush[f].intents < MaxIntents

\* 1 if an event or a row has amount a, else 0.
Has(amount, a) == IF amount = a THEN 1 ELSE 0

\* record_ledger_event for row s; NoAmount: before or after is null.
WithEvent(r, s, before, after) ==
  [r EXCEPT !.log[s] =
     [a \in Amounts |-> r.log[s][a] + Has(after, a) - Has(before, a)]]

\* insert into transactions: the flush's record after it.
Inserted(f, g, a) ==
  [flush[f] EXCEPT !.intents = flush[f].intents + 1,
                   !.last = nextSeq,
                   !.mine = flush[f].mine \cup {nextSeq},
                   !.tx[nextSeq] = [there |-> TRUE, goal |-> g, amount |-> a]]

\* WriteIntent::Transaction
LogTransaction(f, a) ==
  /\ NextIntent(f)
  /\ nextSeq <= MaxTx
  /\ nextSeq' = nextSeq + 1
  /\ Locally(f, WithEvent(Inserted(f, NoGoal, a), nextSeq, NoAmount, a))

\* WriteIntent::GoalContribution, first statement.  Without the goal the
\* foreign key fails; a goal being deleted makes it wait.
Contribute(f, g, a) ==
  /\ NextIntent(f)
  /\ nextSeq <= MaxTx
  /\ g \in flush[f].known /\ Goal(f, g).status = "there"
  /\ \A e \in Flushes \ {f} :
       Touched(flush[e].goal[g]) => flush[e].goal[g].status = "there"
  /\ nextSeq' = nextSeq + 1
  /\ Locally(f, [WithEvent(Inserted(f, g, a), nextSeq, NoAmount, a)
                   EXCEPT !.pc = "credit", !.which = g, !.amount = a])

\* update savings_goals set saved_centavos = saved_centavos + d: no goal, no
\* row; a negative balance fails the table's check.
AdjustGoal(f, g, d, r) ==
  LET row == Goal(f, g) IN
  /\ FreeGoal(f, g)
  /\ \/ /\ row.status = "there" /\ row.saved + d >= 0
        /\ Locally(f, [r EXCEPT !.goal[g] = [row EXCEPT !.saved = row.saved + d]])
     \/ row.status # "there" /\ Locally(f, r)

\* Its second statement.
Credit(f) ==
  /\ flush[f].pc = "credit"
  /\ AdjustGoal(f, flush[f].which, flush[f].amount, [flush[f] EXCEPT !.pc = "open"])
  /\ UNCHANGED nextSeq

-----------------------------------------------------------------------------
(***************************************************************************)
(* Corrections.                                                            *)
(***************************************************************************)

\* edit_last and delete_last: the row logged last in this turn, unless it was
\* deleted in this turn; else the last one of the snapshot.
Target(f) == IF flush[f].last # NoSeq THEN flush[f].last ELSE flush[f].target

\* The select of delete_transaction and edit_transaction finds the row; no lock.
ReadRow(f, pc, a) ==
  /\ NextIntent(f)
  /\ Target(f) # NoSeq
  /\ Tx(f, Target(f)).there
  /\ Locally(f, [flush[f] EXCEPT !.intents = flush[f].intents + 1, !.pc = pc,
                                 !.row = Target(f), !.seen = Tx(f, Target(f)),
                                 !.amount = a])
  /\ UNCHANGED nextSeq

DeleteLast(f) == ReadRow(f, "refund", NoAmount)

\* NoAmount: an edit of the note or the category only.
EditLast(f, a) == ReadRow(f, "adjust", a)

\* delete_transaction: the balance, if the row belongs to a goal.
Refund(f) ==
  LET seen == flush[f].seen
      r == [flush[f] EXCEPT !.pc = "remove"]
  IN
  /\ flush[f].pc = "refund"
  /\ \/ seen.goal # NoGoal /\ AdjustGoal(f, seen.goal, -seen.amount, r)
     \/ seen.goal = NoGoal /\ Locally(f, r)
  /\ UNCHANGED nextSeq

\* Bookkeeping for DriftExplained: a correction that touches the amount of a
\* contribution finds another row than the one it read.
Tears(f) ==
  IF flush[f].seen.goal # NoGoal /\ Tx(f, flush[f].row) # flush[f].seen
    THEN flush[f].tears \cup {flush[f].seen.goal} ELSE flush[f].tears

\* Bookkeeping for TrailExplained: a correction finds another amount than the
\* one it read, or no row.
Crossing(f) ==
  LET s == flush[f].row
      found == Tx(f, s)
  IN IF found.there /\ found.amount = flush[f].seen.amount
       THEN flush[f].crossing ELSE flush[f].crossing \cup {s}

\* A same-turn delete clears last_inserted_tx_id.
LastAfterDelete(f) ==
  IF flush[f].row = flush[f].last THEN NoSeq ELSE flush[f].last

\* delete_transaction: the row, and the event.
Remove(f) ==
  LET s == flush[f].row
      r == [flush[f] EXCEPT !.pc = "open", !.last = LastAfterDelete(f),
              !.tears = Tears(f), !.crossing = Crossing(f),
              !.tx[s] = IF Tx(f, s).there THEN NoTx ELSE flush[f].tx[s]]
  IN
  /\ flush[f].pc = "remove"
  /\ FreeTx(f, s)
  /\ Locally(f, WithEvent(r, s, flush[f].seen.amount, NoAmount))
  /\ UNCHANGED nextSeq

\* edit_transaction: the balance, if a goal's amount changes.
Adjust(f) ==
  LET seen == flush[f].seen
      a == flush[f].amount
      moves == seen.goal # NoGoal /\ a # NoAmount /\ a # seen.amount
      r == [flush[f] EXCEPT !.pc = "update"]
  IN
  /\ flush[f].pc = "adjust"
  /\ \/ moves /\ AdjustGoal(f, seen.goal, a - seen.amount, r)
     \/ ~moves /\ Locally(f, r)
  /\ UNCHANGED nextSeq

\* An edit of a contribution's category alone: nothing is written.
NothingToEdit(f) ==
  /\ flush[f].pc = "update"
  /\ flush[f].amount = NoAmount /\ flush[f].seen.goal # NoGoal
  /\ Locally(f, [flush[f] EXCEPT !.pc = "open"])
  /\ UNCHANGED nextSeq

\* Mutant: the event holds the amount of before.
AmountInEvent_Before(f) == flush[f].seen.amount

\* amount_centavos.unwrap_or(old_amount)
AmountInEvent(f) ==
  IF flush[f].amount = NoAmount THEN flush[f].seen.amount ELSE flush[f].amount

\* edit_transaction: the row, and the event; a row gone meanwhile is not
\* updated, its event is written all the same.
Update(f) ==
  LET s == flush[f].row
      a == flush[f].amount
      row == Tx(f, s)
      r == [flush[f] EXCEPT !.pc = "open",
              !.tears = IF a = NoAmount THEN flush[f].tears ELSE Tears(f),
              !.crossing = Crossing(f),
              !.tx[s] = IF ~row.there THEN flush[f].tx[s]
                        ELSE IF a = NoAmount THEN row ELSE [row EXCEPT !.amount = a]]
  IN
  /\ flush[f].pc = "update"
  /\ FreeTx(f, s)
  /\ Locally(f, WithEvent(r, s, flush[f].seen.amount, AmountInEvent(f)))
  /\ UNCHANGED nextSeq

-----------------------------------------------------------------------------
(***************************************************************************)
(* Goals.                                                                  *)
(***************************************************************************)

\* WriteIntent::CreateGoal, under an id that is new.
CreateGoal(f, g) ==
  /\ NextIntent(f)
  /\ Goal(f, g).status = "unused" /\ FreeGoal(f, g)
  /\ Locally(f, [flush[f] EXCEPT !.intents = flush[f].intents + 1,
                                 !.goal[g] = [status |-> "there", saved |-> 0]])
  /\ UNCHANGED nextSeq

Detached(f, g) ==
  [s \in Seqs |-> IF Tx(f, s).there /\ Tx(f, s).goal = g
                    THEN [Tx(f, s) EXCEPT !.goal = NoGoal] ELSE flush[f].tx[s]]

\* Every contribution to g that is committed can be written.
FreeContributions(f, g) == \A s \in Contributions(g) : FreeTx(f, s)

\* WriteIntent::DeleteGoal: update transactions set goal_id = null ...
DetachGoal(f, g) ==
  /\ NextIntent(f)
  /\ g \in flush[f].known
  /\ FreeContributions(f, g)
  /\ Locally(f, [flush[f] EXCEPT !.intents = flush[f].intents + 1,
                   !.pc = "detached", !.which = g, !.tx = Detached(f, g)])
  /\ UNCHANGED nextSeq

\* ... and delete from savings_goals, with the foreign key's "set null" for
\* the contributions committed between the two.
DeleteGoal(f) ==
  LET g == flush[f].which IN
  /\ flush[f].pc = "detached"
  /\ FreeGoal(f, g) /\ Unreferenced(f, g) /\ FreeContributions(f, g)
  /\ LET r == [flush[f] EXCEPT !.pc = "open", !.which = NoGoal] IN
     IF Goal(f, g).status = "there"
       THEN Locally(f, [r EXCEPT !.goal[g] = [status |-> "gone", saved |-> 0],
                                 !.tx = Detached(f, g)])
       ELSE Locally(f, r)
  /\ UNCHANGED nextSeq

-----------------------------------------------------------------------------
(***************************************************************************)
(* The end of a flush, and the cron.                                       *)
(***************************************************************************)
Commit(f) ==
  LET r == flush[f]
      wrote == {g \in Goals : Touched(r.goal[g])}
                 \cup {transactions[s].goal : s \in {t \in Seqs : Touched(r.tx[t])}}
  IN
  /\ r.pc = "open"
  /\ transactions' = [s \in Seqs |-> Tx(f, s)]
  /\ goals' = [g \in Goals |-> Goal(f, g)]
  /\ trail' = [s \in Seqs |-> [a \in Amounts |-> trail[s][a] + r.log[s][a]]]
  /\ cron' = IF cron.pc = "idle" THEN cron
             ELSE [cron EXCEPT !.raced = cron.raced \cup (wrote \cap Goals)]
  /\ torn' = torn \cup r.tears
  /\ crossed' = crossed \cup r.crossing
  /\ flush' = [flush EXCEPT ![f] = Idle]
  /\ UNCHANGED <<nextSeq, begun>>

\* The turn ends without a commit: an error (a constraint, a deadlock, a
\* timeout), Superseded, or the end of the invocation.
Rollback(f) ==
  /\ flush[f].pc # "idle"
  /\ Locally(f, Idle)
  /\ UNCHANGED nextSeq

\* reconcile_goal_balances starts: one snapshot for its sums and for its
\* choice of the goals to update (with none it is over at once).
Repair ==
  LET off == {g \in Goals : There(g) /\ goals[g].saved # SumOf(g)} IN
  /\ cron.pc = "idle" /\ cron.runs < MaxRepairs
  /\ off # {}
  /\ cron' = [NoRepair(cron.runs + 1) EXCEPT
       !.pc = "running", !.sums = [g \in Goals |-> SumOf(g)], !.left = off]
  /\ UNCHANGED <<transactions, goals, trail, nextSeq, flush, begun, history>>

\* The update has the row, waits for its lock if it must, and tests the
\* committed version against the sum of its snapshot.
StillOff(g) == There(g) /\ goals[g].saved # cron.sums[g]

RepairGoal(g) ==
  /\ cron.pc = "running" /\ g \in cron.left
  /\ \A f \in Flushes : ~Touched(flush[f].goal[g])
  /\ cron' = [cron EXCEPT
       !.left = cron.left \ {g},
       !.fixed = IF StillOff(g) THEN cron.fixed \cup {g} ELSE cron.fixed]
  /\ UNCHANGED <<transactions, goals, trail, nextSeq, flush, begun, history>>

\* The statement ends.
RepairDone ==
  /\ cron.pc = "running" /\ cron.left = {}
  /\ goals' = [g \in Goals |->
       IF g \in cron.fixed THEN [goals[g] EXCEPT !.saved = cron.sums[g]] ELSE goals[g]]
  /\ torn' = torn \ (cron.fixed \ cron.raced)
  /\ cron' = NoRepair(cron.runs)
  /\ UNCHANGED <<transactions, trail, nextSeq, flush, begun, crossed>>

\* Or fails, which the cron only logs.
RepairFails ==
  /\ cron.pc = "running"
  /\ cron' = NoRepair(cron.runs)
  /\ UNCHANGED <<transactions, goals, trail, nextSeq, flush, begun, history>>

FlushStep(f) ==
  \/ ReadTurn(f) \/ Begin(f)
  \/ \E a \in Amounts : LogTransaction(f, a)
  \/ \E g \in Goals, a \in Amounts : Contribute(f, g, a)
  \/ Credit(f)
  \/ DeleteLast(f)
  \/ \E a \in Amounts \cup {NoAmount} : EditLast(f, a)
  \/ Refund(f) \/ Remove(f)
  \/ Adjust(f) \/ NothingToEdit(f) \/ Update(f)
  \/ \E g \in Goals : CreateGoal(f, g) \/ DetachGoal(f, g)
  \/ DeleteGoal(f)
  \/ Commit(f) \/ Rollback(f)

Next ==
  \/ \E f \in Flushes : FlushStep(f)
  \/ Repair
  \/ \E g \in Goals : RepairGoal(g)
  \/ RepairDone
  \/ RepairFails

Spec == Init /\ [][Next]_vars

-----------------------------------------------------------------------------
\* A goal's balance is the sum of its contributions after any sequence of turns
\* that contribute, correct, delete and repair (apply_write_intent keeps
\* saved_centavos by differences).  When turns overlap it is off only if a
\* correction wrote another row than it had read, since the last repair no flush
\* of that goal overlapped.
DriftExplained ==
  \A g \in Goals \ torn : There(g) => goals[g].saved = SumOf(g)

\* The audit trail accounts for the table: from the events of a transaction
\* alone, without an order between them (those of one flush share created_at and
\* have random ids), it follows whether the transaction is there and with what
\* amount - the one amount events led to once more than they led away from
\* (record_ledger_event writes what the flush read and meant, not what its
\* statement changed).  The exception is a transaction of which a correction
\* found another amount than it had read, or found it gone: two flushes met.
TrailExplained ==
  \A s \in Seqs \ crossed, a \in Amounts :
    trail[s][a] = IF s \in Live THEN Has(transactions[s].amount, a) ELSE 0
=============================================================================
