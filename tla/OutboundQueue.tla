---------------------------- MODULE OutboundQueue ----------------------------
(***************************************************************************)
(* The reply queue: table outbound_messages and the invocations that       *)
(* deliver it.                                                             *)
(*                                                                         *)
(* A flush queues its reply under a dedup key, and the same invocation     *)
(* tries to deliver it at once (deliver_outbound_by_dedup_key).  The daily *)
(* cron claims what is due, oldest first, and delivers it one by one       *)
(* (deliver_due_outbound).  A worker is one such invocation.  It may stop  *)
(* between any two steps: a database error is returned at once, and the    *)
(* platform kills it at maxDuration; what it had claimed stays "sending"   *)
(* until the claim is stale.                                               *)
(*                                                                         *)
(* Time is relative: timer[k] counts down to next_attempt_at for a pending *)
(* row and to updated_at + 15 minutes for one being sent.                  *)
(***************************************************************************)
EXTENDS Integers, FiniteSets

CONSTANTS
  Keys,         \* dedup keys "inbound-reply:<dedup id>"
  Workers,      \* concurrent invocations
  MaxAttempts,  \* column max_attempts
  BackoffUnit,  \* 30 seconds
  BackoffCap,   \* 3600 seconds
  StaleAfter,   \* 15 minutes: a claim older than this is claimed again
  MaxDuration,  \* vercel.json maxDuration
  FlushGap,     \* two flushes under one key are this far apart (Inbound)
  Limit,        \* rows one cron run claims
  MaxFlushes,   \* bound of the model: flushes under one key
  MaxCrashes    \* bound of the model: invocations that stop midway

ASSUME QueueAssumption ==
  /\ Keys # {} /\ IsFiniteSet(Keys)
  /\ MaxAttempts \in Nat \ {0} /\ Limit \in Nat \ {0}
  /\ BackoffUnit \in Nat \ {0} /\ BackoffCap \in Nat /\ BackoffUnit <= BackoffCap
  /\ StaleAfter \in Nat /\ MaxDuration \in Nat /\ FlushGap \in Nat
  /\ MaxFlushes \in Nat /\ MaxCrashes \in Nat
  /\ MaxDuration < StaleAfter

VARIABLES
  status,     \* column status, "absent" without a row
  attempts,   \* column attempt_count
  timer,      \* see above
  born,       \* rank of created_at, 0 without a row
  worker,     \* what each invocation is doing
  gap,        \* minutes before the key can be flushed again
  flushes,    \* number of flushes under each key
  crashes,    \* number of invocations that stopped midway
  delivered,  \* history: times the provider has sent the reply to the user
  lost        \* history: those of which the queue has no record

rows == <<status, attempts, timer, born>>
history == <<crashes, delivered, lost>>
vars == <<rows, worker, gap, flushes, history>>

-----------------------------------------------------------------------------
Statuses == {"absent", "pending", "sending", "sent", "failed"}

ErrorClass == {"Timeout", "Auth", "RateLimited", "ServerError", "ClientError",
               "Unknown"}

\* ErrorClass::is_retryable
IsRetryable(c) == c \in {"Timeout", "RateLimited", "ServerError"}

\* The provider may have sent the message although the call failed.
MayHaveArrived(c) == c \in {"Timeout", "ServerError", "Unknown"}

\* pc: claim = the flush committed, its reply is to be claimed; deliver = holds
\* claimed rows; mark = the send of row key returned.
Worker == [pc: {"idle", "claim", "deliver", "mark"}, age: 0..MaxDuration,
           queue: SUBSET Keys, key: Keys,
           result: {"ok", "retryable", "fatal"}]

Idle == [pc |-> "idle", age |-> 0, queue |-> {},
         key |-> CHOOSE k \in Keys : TRUE, result |-> "ok"]

TypeOK ==
  /\ status \in [Keys -> Statuses]
  /\ attempts \in [Keys -> Nat]
  /\ timer \in [Keys -> Nat]
  /\ born \in [Keys -> Nat]
  /\ worker \in [Workers -> Worker]
  /\ gap \in [Keys -> 0..FlushGap]
  /\ flushes \in [Keys -> 0..MaxFlushes]
  /\ crashes \in 0..MaxCrashes
  /\ delivered \in [Keys -> Nat]
  /\ lost \in [Keys -> Nat]

Init ==
  /\ status = [k \in Keys |-> "absent"]
  /\ attempts = [k \in Keys |-> 0]
  /\ timer = [k \in Keys |-> 0]
  /\ born = [k \in Keys |-> 0]
  /\ worker = [w \in Workers |-> Idle]
  /\ gap = [k \in Keys |-> 0]
  /\ flushes = [k \in Keys |-> 0]
  /\ crashes = 0
  /\ delivered = [k \in Keys |-> 0]
  /\ lost = [k \in Keys |-> 0]

\* The claimed rows a worker has not marked yet.
Holding(w) ==
  worker[w].queue \cup IF worker[w].pc = "mark" THEN {worker[w].key} ELSE {}

-----------------------------------------------------------------------------
\* Mutant: a reply already sent is queued again.
Requeued_Always(k) == "pending"

\* Mutant: a status the table's check constraint does not allow.
Requeued_BadStatus(k) == IF status[k] = "sent" THEN "sent" ELSE "queued"

\* The status the upsert leaves: a sent reply stays sent.
Requeued(k) == IF status[k] = "sent" THEN "sent" ELSE "pending"

\* flush_writes commits an OutboundReply (save_outbound_reply_in_tx).  The
\* attempts of an existing row are kept.  The invocation goes on to deliver it.
Flush(w, k) ==
  /\ worker[w].pc = "idle"
  /\ gap[k] = 0
  /\ flushes[k] < MaxFlushes
  /\ status' = [status EXCEPT ![k] = Requeued(k)]
  /\ timer' = [timer EXCEPT ![k] = 0]
  /\ born' = [born EXCEPT ![k] =
       IF status[k] = "absent"
         THEN 1 + Cardinality({j \in Keys : status[j] # "absent"}) ELSE @]
  /\ gap' = [gap EXCEPT ![k] = FlushGap]
  /\ flushes' = [flushes EXCEPT ![k] = @ + 1]
  /\ worker' = [worker EXCEPT ![w] = [Idle EXCEPT !.pc = "claim", !.key = k]]
  /\ UNCHANGED <<attempts, history>>

\* Mutant: a row being sent can be claimed at once.
Claimable_NotStale(k) ==
  \/ status[k] = "pending" /\ timer[k] = 0
  \/ status[k] = "sending"

\* Mutant: a stale claim is never taken over.
Claimable_PendingOnly(k) == status[k] = "pending" /\ timer[k] = 0

\* The where clause of both claims: pending and due, or sending and stale.
\* There is no test on attempt_count.
Claimable(k) == status[k] \in {"pending", "sending"} /\ timer[k] = 0

\* The set clause of both claims.
SetSending(S) ==
  /\ status' = [k \in Keys |-> IF k \in S THEN "sending" ELSE status[k]]
  /\ attempts' = [k \in Keys |-> IF k \in S THEN attempts[k] + 1 ELSE attempts[k]]
  /\ timer' = [k \in Keys |-> IF k \in S THEN StaleAfter ELSE timer[k]]

\* deliver_outbound_by_dedup_key: claim_outbound_by_dedup_key finds the row.
ClaimByKey(w) ==
  LET k == worker[w].key IN
  /\ worker[w].pc = "claim"
  /\ Claimable(k)
  /\ SetSending({k})
  /\ worker' = [worker EXCEPT ![w] = [@ EXCEPT !.pc = "deliver", !.queue = {k}]]
  /\ UNCHANGED <<born, gap, flushes, history>>

\* It does not: someone else has taken it, or it was sent long ago.
ClaimByKeyNothing(w) ==
  /\ worker[w].pc = "claim"
  /\ ~Claimable(worker[w].key)
  /\ worker' = [worker EXCEPT ![w] = Idle]
  /\ UNCHANGED <<rows, gap, flushes, history>>

Due == {k \in Keys : Claimable(k)}

\* order by created_at asc limit Limit
OldestDue(S) ==
  /\ S \subseteq Due
  /\ S = Due \/ Cardinality(S) = Limit
  /\ Cardinality(S) <= Limit
  /\ \A j \in S, k \in Due \ S : born[j] < born[k]

\* deliver_due_outbound, called by the cron: claim_due_outbound_messages.
ClaimDue(w) ==
  /\ worker[w].pc = "idle"
  /\ Due # {}
  /\ \E S \in SUBSET Due :
       /\ OldestDue(S)
       /\ SetSending(S)
       /\ worker' = [worker EXCEPT ![w] =
            [Idle EXCEPT !.pc = "deliver", !.queue = S]]
  /\ UNCHANGED <<born, gap, flushes, history>>

-----------------------------------------------------------------------------
\* deliver_outbound_message calls send_message on one of the claimed rows (the
\* update returns them in no particular order).  The call succeeds ...
SendOk(w, k) ==
  /\ worker[w].pc = "deliver" /\ k \in worker[w].queue
  /\ delivered' = [delivered EXCEPT ![k] = @ + 1]
  /\ worker' = [worker EXCEPT ![w] = [@ EXCEPT
       !.pc = "mark", !.key = k, !.queue = worker[w].queue \ {k},
       !.result = "ok"]]
  /\ UNCHANGED <<rows, gap, flushes, crashes, lost>>

\* ... or fails with an error of class c; arrived tells whether the provider
\* had sent the message all the same.
SendError(w, k, c, arrived) ==
  /\ worker[w].pc = "deliver" /\ k \in worker[w].queue
  /\ arrived => MayHaveArrived(c)
  /\ delivered' = [delivered EXCEPT ![k] = IF arrived THEN @ + 1 ELSE @]
  /\ lost' = [lost EXCEPT ![k] = IF arrived THEN @ + 1 ELSE @]
  /\ worker' = [worker EXCEPT ![w] = [@ EXCEPT
       !.pc = "mark", !.key = k, !.queue = worker[w].queue \ {k},
       !.result = IF IsRetryable(c) THEN "retryable" ELSE "fatal"]]
  /\ UNCHANGED <<rows, gap, flushes, crashes>>

\* On to the next claimed row, if there is one.
NextRow(w) ==
  worker' = [worker EXCEPT ![w] =
    IF @.queue = {} THEN Idle ELSE [@ EXCEPT !.pc = "deliver"]]

\* mark_outbound_sent: whatever the row's status has become meanwhile.
MarkSent(w) ==
  /\ worker[w].pc = "mark" /\ worker[w].result = "ok"
  /\ status' = [status EXCEPT ![worker[w].key] = "sent"]
  /\ timer' = [timer EXCEPT ![worker[w].key] = 0]
  /\ NextRow(w)
  /\ UNCHANGED <<attempts, born, gap, flushes, history>>

\* least(3600, greatest(30, attempt_count * 30))
Backoff(n) ==
  LET b == IF n * BackoffUnit > BackoffUnit THEN n * BackoffUnit ELSE BackoffUnit
  IN IF b < BackoffCap THEN b ELSE BackoffCap

\* Mutant: off by one at the last attempt.
HasRetry_OneMore(w, k) ==
  worker[w].result = "retryable" /\ attempts[k] <= MaxAttempts

HasRetry(w, k) == worker[w].result = "retryable" /\ attempts[k] < MaxAttempts

\* mark_outbound_failed: back to pending with a backoff, or dead-lettered; a
\* row that is no longer "sending" is left alone.
MarkFailed(w) ==
  LET k == worker[w].key IN
  /\ worker[w].pc = "mark" /\ worker[w].result # "ok"
  /\ \/ /\ status[k] = "sending"
        /\ status' = [status EXCEPT ![k] =
             IF HasRetry(w, k) THEN "pending" ELSE "failed"]
        /\ timer' = [timer EXCEPT ![k] =
             IF HasRetry(w, k) THEN Backoff(attempts[k]) ELSE 0]
     \/ /\ status[k] # "sending"
        /\ UNCHANGED <<status, timer>>
  /\ NextRow(w)
  /\ UNCHANGED <<attempts, born, gap, flushes, history>>

\* The invocation ends midway: a database error, a crash, or maxDuration.
Stop(w) ==
  /\ worker[w].pc # "idle"
  /\ crashes < MaxCrashes
  /\ crashes' = crashes + 1
  /\ lost' = [lost EXCEPT ![worker[w].key] =
       IF worker[w].pc = "mark" /\ worker[w].result = "ok" THEN @ + 1 ELSE @]
  /\ worker' = [worker EXCEPT ![w] = Idle]
  /\ UNCHANGED <<rows, gap, flushes, delivered>>

Down(n) == IF n = 0 THEN 0 ELSE n - 1

\* A minute passes.  No invocation gets older than maxDuration.
Tick ==
  /\ \A w \in Workers : worker[w].pc # "idle" => worker[w].age < MaxDuration
  /\ timer' = [k \in Keys |-> Down(timer[k])]
  /\ gap' = [k \in Keys |-> Down(gap[k])]
  /\ worker' = [w \in Workers |->
       IF worker[w].pc = "idle" THEN worker[w]
       ELSE [worker[w] EXCEPT !.age = @ + 1]]
  /\ UNCHANGED <<status, attempts, born, flushes, history>>

-----------------------------------------------------------------------------
Deliver(w) ==
  \/ ClaimByKey(w)
  \/ ClaimByKeyNothing(w)
  \/ \E k \in Keys : SendOk(w, k)
  \/ \E k \in Keys, c \in ErrorClass, arrived \in BOOLEAN :
       SendError(w, k, c, arrived)
  \/ MarkSent(w)
  \/ MarkFailed(w)

Next ==
  \/ \E w \in Workers, k \in Keys : Flush(w, k)
  \/ \E w \in Workers : ClaimDue(w) \/ Deliver(w) \/ Stop(w)
  \/ Tick

Spec == Init /\ [][Next]_vars

\* An invocation that is not stopped goes on, the cron runs again and again,
\* and time passes.  Nothing makes a send succeed.
FairSpec ==
  /\ Spec
  /\ \A w \in Workers : WF_vars(Deliver(w))
  /\ WF_vars(\E w \in Workers : ClaimDue(w))
  /\ WF_vars(Tick)

-----------------------------------------------------------------------------
\* Two invocations hold one claimed reply at the same time only after a second
\* flush under its key: maxDuration is shorter than the 15 minutes after which
\* a claim is stale.
OneSender ==
  \A v, w \in Workers :
    v # w => \A k \in Holding(v) \cap Holding(w) : flushes[k] > 1

\* The user gets a reply again only if an earlier send was accepted by the
\* provider and not recorded (an error after the fact, or a crash between the
\* send and mark_outbound_sent), or if it was flushed again.
RepeatsExplained == \A k \in Keys : delivered[k] <= flushes[k] + lost[k]

\* The retry budget as the code keeps it: beyond max_attempts, every claim is
\* paid for by an invocation that stopped midway or by a second flush.
AttemptsPaidFor ==
  \A k \in Keys :
    flushes[k] > 0 => attempts[k] <= MaxAttempts + crashes + flushes[k] - 1

\* What a step may do to a settled reply.
SettledStep ==
  \A k \in Keys :
    /\ status[k] = "sent" => status'[k] = "sent"
    /\ status[k] = "failed" /\ status'[k] # "failed"
         => \/ status'[k] = "pending" /\ flushes'[k] > flushes[k]
            \/ status'[k] = "sent" /\ flushes[k] > 1

\* A sent reply stays sent, and a dead-lettered one is never claimed again: it
\* leaves "failed" with a new flush, or by the late mark_outbound_sent of an
\* invocation that overlapped with one.
SettledIsFinal == [][SettledStep]_vars

\* What has become of a reply, for whoever waits for it.
Reply ==
  [k \in Keys |-> CASE status[k] = "absent" -> "none"
                    [] status[k] \in {"pending", "sending"} -> "queued"
                    [] OTHER -> status[k]]

Delivery == INSTANCE ReplyDelivery WITH reply <- Reply

\* The queue implements ReplyDelivery, its fairness included: no reply is
\* forgotten.  Every queued reply is sent or dead-lettered, even if the
\* invocation that queued it, or one that claimed it, stops midway, and in
\* whatever order the marks of overlapping invocations come.
ImplementsDelivery == Delivery!FairSpec
=============================================================================
