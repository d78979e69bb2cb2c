------------------------------ MODULE Inbound ------------------------------
(***************************************************************************)
(* One inbound iMessage, from the Sendblue webhook to the ledger:          *)
(* claim_slot -> yes/no answer? -> agent -> policy -> park or commit.      *)
(*                                                                         *)
(* Every webhook delivery runs InboundMessageService::handle in a          *)
(* serverless invocation (a "handler") of its own.  The provider delivers  *)
(* a message at least once, so several handlers may work on one message,   *)
(* and a handler may stop between any two of its database statements.      *)
(* What they share is Postgres: processed_messages (the claim/flush        *)
(* marker), pending_confirmations (parked risky writes), the ledger        *)
(* tables and outbound_messages.                                           *)
(*                                                                         *)
(* Time is counted in minutes, the bucket content_dedup_key works with.    *)
(* The writes the model proposes are an abstract "plan": what the policy   *)
(* says of it (Risk) is all that this module needs.  A flush is one step:  *)
(* its statements take row locks in one transaction, and the marker is     *)
(* upserted in that same transaction.                                      *)
(***************************************************************************)
EXTENDS Integers, Sequences

CONSTANTS
  Messages,       \* distinct user messages (sender and text)
  WithHandle,     \* those that carry Sendblue's message_handle
  YesMessages,    \* those whose text is a bare "yes" for confirm_reply
  NoMessages,     \* those whose text is a bare "no"
  Plans,          \* write sets the model may propose
  Risk,           \* Risk[p]: what classify_writes answers for plan p
  Handlers,       \* concurrent webhook invocations
  ClaimTtl,       \* CLAIM_TTL_MS: after this a claim may be taken over
  MaxDuration,    \* vercel.json maxDuration: no invocation outlives it
  ConfirmTtl,     \* CONFIRM_TTL_MINUTES
  StaleClaimed,   \* the cron reaps claims older than this (24 hours)
  KeepCompleted,  \* and completed markers older than this (3 days)
  MaxTime,        \* bound of the model: the last minute
  MaxDeliveries   \* bound of the model: webhook deliveries that are claimed

ASSUME MessageAssumption ==
  /\ WithHandle \subseteq Messages
  /\ YesMessages \subseteq Messages /\ NoMessages \subseteq Messages
  /\ YesMessages \cap NoMessages = {}
  /\ Messages # {} /\ Plans # {}

ASSUME RiskAssumption ==
  Risk \in [Plans -> {"Safe", "NeedsConfirmation", "Reject"}]

\* 2 minutes, 5 minutes, 1 hour, 1 day, 3 days: only this order matters.
ASSUME TimeAssumption ==
  /\ ClaimTtl \in Nat /\ MaxDuration \in Nat /\ ConfirmTtl \in Nat
  /\ StaleClaimed \in Nat /\ KeepCompleted \in Nat
  /\ MaxTime \in Nat /\ MaxDeliveries \in Nat
  /\ 0 < ClaimTtl /\ 0 < ConfirmTtl
  /\ MaxDuration < StaleClaimed /\ MaxDuration < KeepCompleted

VARIABLES
  now,        \* the current minute
  processed,  \* table processed_messages, by dedup id
  confs,      \* table pending_confirmations
  confSeq,    \* id of the newest confirmation ever parked (created_at order)
  outbox,     \* what outbound_messages holds under "inbound-reply:<dedup id>"
  commits,    \* history: the flush transactions that committed, in order
  deliveries, \* number of deliveries claimed so far
  run         \* what each handler is doing

tables == <<processed, confs, confSeq, outbox, commits>>
vars == <<now, tables, deliveries, run>>

-----------------------------------------------------------------------------
(***************************************************************************)
(* Data.                                                                   *)
(***************************************************************************)
Times == 0..MaxTime

\* The dedup id: the provider's handle, or the content key of the minute.
Keys == Messages \X Times

DedupKey(m, t) == IF m \in WithHandle THEN <<m, 0>> ELSE <<m, t>>

ProcessedRow == [status: {"absent", "claimed", "completed"},
                 claimedAt: Nat, completedAt: Nat]

NoRow == [status |-> "absent", claimedAt |-> 0, completedAt |-> 0]

\* src is source_message_id; a message without a handle stores null there,
\* which here is a member of Messages \ WithHandle.
ConfRow == [id: Nat, src: Messages, plan: Plans,
            status: {"pending", "consumed", "cancelled"}, expires: Nat]

\* reply = model's answer, ask = confirmation request, rejection, cancelled =
\* "okay, cancelled", done = "done - <summary>".
Replies == {"reply", "ask", "rejection", "cancelled", "done"}

\* The flushes that carry ledger writes; the others hold only bookkeeping.
LedgerReplies == {"reply", "done"}

Commit == [key: Keys, reply: Replies, src: Messages, plan: Plans,
           conf: Nat, expires: Nat, at: Nat]

OutboxRow == [reply: Replies, plan: Plans]

\* No row under that key.
NoReply == [reply |-> "none"]

\* The locals of handle: where it stands, its message and dedup id, when it
\* claimed it, the write set it holds, the confirmation it answers, the reply
\* it will queue.
Run == [pc: {"idle", "lookup", "agent", "park", "cancel", "flush"},
        msg: Messages, key: Keys, started: Times, plan: Plans,
        conf: ConfRow, reply: Replies]

AnyMessage == CHOOSE m \in Messages : TRUE
AnyPlan == CHOOSE p \in Plans : TRUE

NoConf == [id |-> 0, src |-> AnyMessage, plan |-> AnyPlan,
           status |-> "pending", expires |-> 0]

\* No invocation: every local has its default.
Idle == [pc |-> "idle", msg |-> AnyMessage, key |-> <<AnyMessage, 0>>,
         started |-> 0, plan |-> AnyPlan, conf |-> NoConf, reply |-> "reply"]

TypeOK ==
  /\ now \in Times
  /\ processed \in [Keys -> ProcessedRow]
  /\ confs \in SUBSET ConfRow
  /\ confSeq \in Nat
  /\ outbox \in [Keys -> OutboxRow \cup {NoReply}]
  /\ commits \in Seq(Commit)
  /\ deliveries \in 0..MaxDeliveries
  /\ run \in [Handlers -> Run]

Init ==
  /\ now = 0
  /\ processed = [k \in Keys |-> NoRow]
  /\ confs = {}
  /\ confSeq = 0
  /\ outbox = [k \in Keys |-> NoReply]
  /\ commits = <<>>
  /\ deliveries = 0
  /\ run = [h \in Handlers |-> Idle]

\* The invocation is at point p, and maxDuration has not killed it.
At(h, p) == run[h].pc = p /\ now <= run[h].started + MaxDuration

\* It is somewhere in handle.
Alive(h) == run[h].pc # "idle" /\ now <= run[h].started + MaxDuration

\* handle returns.
Return(h) == run' = [run EXCEPT ![h] = Idle]

-----------------------------------------------------------------------------
(***************************************************************************)
(* Handler steps.  Each is one database statement (or one transaction) and *)
(* the code up to the next one.                                            *)
(***************************************************************************)

\* Mutant: a claim can be taken over at once.
Claimable_NoTtl(k) == processed[k].status \in {"absent", "claimed"}

\* claim_slot's upsert returns a row: no marker yet, or a claim gone stale.
\* Otherwise handle returns Skip and leaves no trace.
Claimable(k) ==
  \/ processed[k].status = "absent"
  \/ /\ processed[k].status = "claimed"
     /\ processed[k].claimedAt + ClaimTtl <= now

\* handle: dedup id, claim_slot, and the yes/no test that decides what is next.
Claim(h, m) ==
  LET k == DedupKey(m, now) IN
  /\ run[h].pc = "idle"
  /\ deliveries < MaxDeliveries
  /\ Claimable(k)
  /\ processed' = [processed EXCEPT ![k] =
       [status |-> "claimed", claimedAt |-> now, completedAt |-> 0]]
  /\ deliveries' = deliveries + 1
  /\ run' = [run EXCEPT ![h] = [Idle EXCEPT
       !.pc = IF m \in YesMessages \cup NoMessages THEN "lookup" ELSE "agent",
       !.msg = m, !.key = k, !.started = now]]
  /\ UNCHANGED <<now, confs, confSeq, outbox, commits>>

\* Mutant: expires_at is not looked at.
Answerable_Expired == {c \in confs : c.status = "pending"}

\* latest_pending_confirmation: pending, not expired, newest first.
Answerable == {c \in confs : c.status = "pending" /\ c.expires > now}

IsLatest(c) == c \in Answerable /\ \A d \in Answerable : d.id <= c.id

\* resolve_pending_confirmation: a "yes" goes on to flush the parked writes,
\* a "no" to cancel.
Lookup(h, c) ==
  /\ At(h, "lookup")
  /\ IsLatest(c)
  /\ run' = [run EXCEPT ![h] = [@ EXCEPT
       !.conf = c,
       !.plan = c.plan,
       !.reply = IF run[h].msg \in YesMessages THEN "done" ELSE "cancelled",
       !.pc = IF run[h].msg \in YesMessages THEN "flush" ELSE "cancel"]]
  /\ UNCHANGED <<now, tables, deliveries>>

\* With nothing pending, the text is an ordinary turn.
LookupNothing(h) ==
  /\ At(h, "lookup")
  /\ Answerable = {}
  /\ run' = [run EXCEPT ![h].pc = "agent"]
  /\ UNCHANGED <<now, tables, deliveries>>

\* Mutant: only rejected plans are kept from the ledger.
ReplyTo_NoGate(risk) == IF risk = "Reject" THEN "rejection" ELSE "reply"

\* What handle sends for each verdict of classify_writes.
ReplyTo(risk) ==
  CASE risk = "Safe"              -> "reply"
    [] risk = "NeedsConfirmation" -> "ask"
    [] risk = "Reject"            -> "rejection"

\* run_agent returned the writes p; classify_writes gates them.
RunAgent(h, p) ==
  /\ At(h, "agent")
  /\ run' = [run EXCEPT ![h] = [@ EXCEPT
       !.plan = p,
       !.reply = ReplyTo(Risk[p]),
       !.pc = IF ReplyTo(Risk[p]) = "ask" THEN "park" ELSE "flush"]]
  /\ UNCHANGED <<now, tables, deliveries>>

\* run_agent returned an error: a canned reply goes straight to the provider,
\* the webhook answers 200 and the claim stays as it is.
AgentFails(h) ==
  /\ At(h, "agent")
  /\ Return(h)
  /\ UNCHANGED <<now, tables, deliveries>>

\* The partial unique index on source_message_id.
AlreadyParked(m) == m \in WithHandle /\ \E c \in confs : c.src = m

\* save_pending_confirmation: committed before the ask is flushed.
Park(h) ==
  /\ At(h, "park")
  /\ run' = [run EXCEPT ![h].pc = "flush"]
  /\ \/ /\ AlreadyParked(run[h].msg)
        /\ UNCHANGED <<confs, confSeq>>
     \/ /\ ~AlreadyParked(run[h].msg)
        /\ confSeq' = confSeq + 1
        /\ confs' = confs \cup {[id |-> confSeq + 1, src |-> run[h].msg,
                                 plan |-> run[h].plan, status |-> "pending",
                                 expires |-> now + ConfirmTtl]}
  /\ UNCHANGED <<now, processed, outbox, commits, deliveries>>

\* Mutant: only the confirmation that was answered is cancelled.
Cancel_OnlyAnswered(h) ==
  /\ At(h, "cancel")
  /\ run' = [run EXCEPT ![h].pc = "flush"]
  /\ confs' = {IF c.id = run[h].conf.id /\ c.status = "pending"
                 THEN [c EXCEPT !.status = "cancelled"] ELSE c : c \in confs}
  /\ UNCHANGED <<now, processed, confSeq, outbox, commits, deliveries>>

\* cancel_pending_confirmations: every pending row of the user, expired or
\* not, committed before the "cancelled" reply is flushed.
Cancel(h) ==
  /\ At(h, "cancel")
  /\ run' = [run EXCEPT ![h].pc = "flush"]
  /\ confs' = {IF c.status = "pending" THEN [c EXCEPT !.status = "cancelled"]
                                       ELSE c : c \in confs}
  /\ UNCHANGED <<now, processed, confSeq, outbox, commits, deliveries>>

\* consume_confirmation_in_tx finds the row still pending.
StillPending(id) == \E c \in confs : c.id = id /\ c.status = "pending"

\* Mutant: the result of the consume is ignored.
ConsumeOK_Ignored(h) == TRUE

\* apply_write_intent lets the flush go on: only ConsumeConfirmation, which
\* only the flush of a "yes" holds, can stop it.
ConsumeOK(h) == run[h].reply = "done" => StillPending(run[h].conf.id)

\* Mutant: a status the table's check constraint does not allow.
ConsumeRow_BadStatus(id) ==
  {IF c.id = id THEN [c EXCEPT !.status = "applied"] ELSE c : c \in confs}

ConsumeRow(id) ==
  {IF c.id = id THEN [c EXCEPT !.status = "consumed"] ELSE c : c \in confs}

\* Mutant: the upsert has no "where status = 'claimed'".
MarkerOK_Unguarded(k) == TRUE

\* The marker upsert at the end of flush_writes returns a row.
MarkerOK(k) == processed[k].status \in {"absent", "claimed"}

\* flush_writes commits: confirmation consumed, ledger written, reply queued
\* and marker completed in one transaction.  Delivering the queued reply is
\* the business of OutboundQueue.
FlushCommit(h) ==
  LET r == run[h]
      k == r.key
      answers == r.reply \in {"done", "cancelled"}
  IN
  /\ At(h, "flush")
  /\ ConsumeOK(h)
  /\ MarkerOK(k)
  /\ confs' = IF r.reply = "done" THEN ConsumeRow(r.conf.id) ELSE confs
  /\ processed' = [processed EXCEPT ![k] =
       [status |-> "completed", completedAt |-> now,
        claimedAt |-> IF @.status = "absent" THEN now ELSE @.claimedAt]]
  /\ outbox' = [outbox EXCEPT ![k] = [reply |-> r.reply, plan |-> r.plan]]
  /\ commits' = Append(commits,
       [key |-> k, reply |-> r.reply, plan |-> r.plan, at |-> now,
        src |-> IF answers THEN r.conf.src ELSE r.msg,
        conf |-> IF answers THEN r.conf.id ELSE 0,
        expires |-> IF answers THEN r.conf.expires ELSE 0])
  /\ Return(h)
  /\ UNCHANGED <<now, confSeq, deliveries>>

\* flush_writes rolls back: nothing changes, and no reply is queued.
FlushSuperseded(h) ==
  /\ At(h, "flush")
  /\ ~(ConsumeOK(h) /\ MarkerOK(run[h].key))
  /\ Return(h)
  /\ UNCHANGED <<now, tables, deliveries>>

\* The invocation ends early: a database error (500), a crash, or the kill
\* at maxDuration.  What it has committed stays, its claim included.
Abort(h) ==
  /\ run[h].pc # "idle"
  /\ Return(h)
  /\ UNCHANGED <<now, tables, deliveries>>

-----------------------------------------------------------------------------
(***************************************************************************)
(* The two statements of the daily hygiene that touch these tables, and    *)
(* the clock.                                                              *)
(***************************************************************************)
Reapable(r) ==
  \/ r.status = "completed" /\ r.completedAt + KeepCompleted < now
  \/ r.status = "claimed" /\ r.claimedAt + StaleClaimed < now

ReapProcessed ==
  /\ \E k \in Keys : Reapable(processed[k])
  /\ processed' = [k \in Keys |->
       IF Reapable(processed[k]) THEN NoRow ELSE processed[k]]
  /\ UNCHANGED <<now, confs, confSeq, outbox, commits, deliveries, run>>

ReapableConf(c) == c.status # "pending" \/ c.expires < now

ReapConfirmations ==
  /\ \E c \in confs : ReapableConf(c)
  /\ confs' = {c \in confs : ~ReapableConf(c)}
  /\ UNCHANGED <<now, processed, confSeq, outbox, commits, deliveries, run>>

Tick ==
  /\ now < MaxTime
  /\ now' = now + 1
  /\ UNCHANGED <<tables, deliveries, run>>

HandlerStep(h) ==
  \/ \E m \in Messages : Claim(h, m)
  \/ \E c \in confs : Lookup(h, c)
  \/ LookupNothing(h)
  \/ \E p \in Plans : RunAgent(h, p)
  \/ AgentFails(h)
  \/ Park(h)
  \/ Cancel(h)
  \/ FlushCommit(h)
  \/ FlushSuperseded(h)
  \/ Abort(h)

Next ==
  \/ \E h \in Handlers : HandlerStep(h)
  \/ ReapProcessed
  \/ ReapConfirmations
  \/ Tick

Spec == Init /\ [][Next]_vars

-----------------------------------------------------------------------------
(***************************************************************************)
(* Properties.                                                             *)
(***************************************************************************)

\* "One message logs once" as far as the marker guarantees it: two flushes
\* under one dedup id are further apart than the cron keeps completed markers,
\* whatever handlers overlap, crash, or run past the claim's TTL.
CommitsApart ==
  \A i, j \in 1..Len(commits) :
    i < j /\ commits[i].key = commits[j].key
      => commits[i].at + KeepCompleted < commits[j].at

\* The flushes that applied a parked write set.
Applications == {i \in 1..Len(commits) : commits[i].reply = "done"}

\* Two handlers work on one dedup id at the same time only if the later one
\* took over a claim that had gone stale (claim_slot).
TakeoverOnlyWhenStale ==
  \A g, h \in Handlers :
    Alive(g) /\ Alive(h) /\ g # h /\ run[g].key = run[h].key
      => \/ run[g].started + ClaimTtl <= run[h].started
         \/ run[h].started + ClaimTtl <= run[g].started

\* A parked write set is applied at most once, whatever "yes" messages race
\* for it, and its row then reads consumed until the cron removes it
\* (ConsumeConfirmation is the first intent of the flush).
ConfirmationAppliedOnce ==
  \A i \in Applications :
    /\ \A j \in Applications : commits[i].conf = commits[j].conf => i = j
    /\ \A c \in confs : c.id = commits[i].conf => c.status = "consumed"

\* "okay, cancelled" is final: once that reply is committed, no confirmation
\* parked up to the one it answered is applied any more, although the cancel
\* and the reply are two transactions and a "yes" may be in flight.
CancelSticks ==
  \A i \in 1..Len(commits), j \in Applications :
    i < j /\ commits[i].reply = "cancelled" => commits[i].conf < commits[j].conf

\* The model is never the final authority: a plan the policy does not call
\* safe reaches the ledger only through the flush of a "yes" message, and a
\* rejected plan never does (classify_writes stands between the two).
RiskyNeedsYes ==
  \A i \in 1..Len(commits) :
    LET e == commits[i] IN
    e.reply \in LedgerReplies /\ Risk[e.plan] # "Safe"
      => /\ e.reply = "done" /\ e.key[1] \in YesMessages
         /\ Risk[e.plan] = "NeedsConfirmation"

\* Expiry is tested when the "yes" reads the row and not again when the flush
\* consumes it: parked writes are applied at most one invocation late.
AppliedInTime ==
  \A i \in Applications : commits[i].at < commits[i].expires + MaxDuration

-----------------------------------------------------------------------------
(***************************************************************************)
(* Refinement.                                                             *)
(***************************************************************************)
\* The write sets the ledger holds, each with its place among the flushes.
Logged ==
  {[place |-> i, plan |-> commits[i].plan] :
     i \in {j \in 1..Len(commits) : commits[j].reply \in LedgerReplies}}

\* The parked write sets a "yes" could still apply.
Open == {[id |-> c.id, plan |-> c.plan] :
           c \in {d \in confs : d.status = "pending"}}

Gate == INSTANCE GatedLedger
          WITH ledger <- Logged, open <- Open, parked <- confSeq

\* However invocations overlap, retry, race with an answer or stop midway, the
\* ledger changes only as GatedLedger allows: each flush that writes it logs one
\* safe plan, or applies one write set that was parked and still open, exactly
\* as it was parked, and closes it in that same step.
ImplementsGate == Gate!Spec

-----------------------------------------------------------------------------
(***************************************************************************)
(* What the documentation says and the code does not keep.                 *)
(***************************************************************************)

\* "One message logs once" for the whole path, parked writes included: the
\* ledger holds the writes of one provider message at most once.
OneMessageLogsOnce ==
  \A i, j \in 1..Len(commits) :
    ( /\ commits[i].src \in WithHandle
      /\ commits[i].src = commits[j].src
      /\ {commits[i].reply, commits[j].reply} \subseteq LedgerReplies )
    => i = j
=============================================================================
