------------------------- MODULE OutboundQueueProofs -------------------------
(***************************************************************************)
(* Theorems about OutboundQueue, for any number of replies, invocations,   *)
(* flushes and crashes.                                                    *)
(***************************************************************************)
EXTENDS OutboundQueue, FiniteSetTheorems, TLAPS

-----------------------------------------------------------------------------
(***************************************************************************)
(* Type correctness.                                                       *)
(***************************************************************************)

\* The defaults of a worker's locals are of their types.
LEMMA IdleType == Idle \in Worker
<1>1. (CHOOSE k \in Keys : TRUE) \in Keys
  BY QueueAssumption
<1>2. 0 \in 0..MaxDuration
  BY QueueAssumption
<1> QED
  BY <1>1, <1>2 DEF Idle, Worker

\* A backoff is a number of minutes.
LEMMA BackoffType ==
  ASSUME NEW n \in Nat
  PROVE  Backoff(n) \in Nat
BY QueueAssumption DEF Backoff

\* A row's rank is a number.
LEMMA RankType == 1 + Cardinality({j \in Keys : status[j] # "absent"}) \in Nat
<1>1. IsFiniteSet({j \in Keys : status[j] # "absent"})
  BY QueueAssumption, FS_Subset
<1> QED
  BY <1>1, FS_CardinalityType

\* Claims keep the columns they set in their types.
LEMMA SetSendingType ==
  ASSUME TypeOK, NEW S, SetSending(S)
  PROVE  /\ status' \in [Keys -> Statuses]
         /\ attempts' \in [Keys -> Nat]
         /\ timer' \in [Keys -> Nat]
BY QueueAssumption DEF TypeOK, SetSending, Statuses

\* Going on to the next row keeps the worker's locals in their types.
LEMMA NextRowType ==
  ASSUME TypeOK, NEW w \in Workers, NextRow(w)
  PROVE  worker' \in [Workers -> Worker]
<1>1. worker[w] \in Worker
  BY DEF TypeOK
<1>2. [worker[w] EXCEPT !.pc = "deliver"] \in Worker
  BY <1>1 DEF Worker
<1> QED
  BY <1>2, IdleType DEF NextRow, TypeOK

\* The locals after a send are of their types.
LEMMA SentType ==
  ASSUME NEW r \in Worker, NEW k \in Keys, NEW res \in {"ok", "retryable", "fatal"}
  PROVE  [r EXCEPT !.pc = "mark", !.key = k, !.queue = r.queue \ {k}, !.result = res] \in Worker
<1>1. r.queue \ {k} \in SUBSET Keys
  BY DEF Worker
<1> QED
  BY <1>1 DEF Worker

\* Every step of the specification keeps every variable in its type.
LEMMA TypeStep == TypeOK /\ [Next]_vars => TypeOK'
<1> SUFFICES ASSUME TypeOK, [Next]_vars PROVE TypeOK'
  OBVIOUS
<1> USE DEF TypeOK, rows, history
<1>1. ASSUME NEW w \in Workers, NEW k \in Keys, Flush(w, k) PROVE TypeOK'
  <2>1. status' \in [Keys -> Statuses] /\ timer' \in [Keys -> Nat]
    BY <1>1 DEF Flush, Requeued, Statuses
  <2>2. born' \in [Keys -> Nat]
    BY <1>1, RankType DEF Flush
  <2>3. gap' \in [Keys -> 0..FlushGap] /\ flushes' \in [Keys -> 0..MaxFlushes]
    BY <1>1, QueueAssumption DEF Flush
  <2>4. [Idle EXCEPT !.pc = "claim", !.key = k] \in Worker
    BY IdleType DEF Worker
  <2> QED
    BY <1>1, <2>1, <2>2, <2>3, <2>4 DEF Flush
<1>2. ASSUME NEW w \in Workers, ClaimByKey(w) PROVE TypeOK'
  <2>1. worker[w] \in Worker /\ worker[w].key \in Keys
    BY DEF Worker
  <2>2. [worker[w] EXCEPT !.pc = "deliver", !.queue = {worker[w].key}] \in Worker
    BY <2>1 DEF Worker
  <2>3. worker' \in [Workers -> Worker]
    BY <1>2, <2>2 DEF ClaimByKey
  <2> QED
    BY <1>2, <2>3, SetSendingType DEF ClaimByKey
<1>3. ASSUME NEW w \in Workers, ClaimByKeyNothing(w) PROVE TypeOK'
  BY <1>3, IdleType DEF ClaimByKeyNothing
<1>4. ASSUME NEW w \in Workers, ClaimDue(w) PROVE TypeOK'
  <2>1. PICK S \in SUBSET Due :
          /\ SetSending(S)
          /\ worker' = [worker EXCEPT ![w] = [Idle EXCEPT !.pc = "deliver", !.queue = S]]
    BY <1>4 DEF ClaimDue
  <2>2. S \in SUBSET Keys
    BY DEF Due
  <2>3. [Idle EXCEPT !.pc = "deliver", !.queue = S] \in Worker
    BY <2>2, IdleType DEF Worker
  <2>4. worker' \in [Workers -> Worker]
    BY <2>1, <2>3
  <2> QED
    BY <1>4, <2>1, <2>4, SetSendingType DEF ClaimDue
<1>5. ASSUME NEW w \in Workers, NEW k \in Keys, SendOk(w, k) PROVE TypeOK'
  <2>1. worker[w] \in Worker
    OBVIOUS
  <2>2. worker' \in [Workers -> Worker]
    BY <1>5, <2>1, SentType DEF SendOk
  <2> QED
    BY <1>5, <2>2 DEF SendOk
<1>6. ASSUME NEW w \in Workers, NEW k \in Keys, NEW c \in ErrorClass,
             NEW arrived \in BOOLEAN, SendError(w, k, c, arrived)
      PROVE TypeOK'
  <2>1. worker[w] \in Worker
    OBVIOUS
  <2>2. worker' \in [Workers -> Worker]
    <3> DEFINE res == IF IsRetryable(c) THEN "retryable" ELSE "fatal"
    <3>1. res \in {"ok", "retryable", "fatal"}
      OBVIOUS
    <3>2. [worker[w] EXCEPT !.pc = "mark", !.key = k,
            !.queue = worker[w].queue \ {k}, !.result = res] \in Worker
      BY <2>1, <3>1, SentType
    <3> QED
      BY <1>6, <3>2 DEF SendError
  <2>3. delivered' \in [Keys -> Nat] /\ lost' \in [Keys -> Nat]
    BY <1>6 DEF SendError
  <2> QED
    BY <1>6, <2>2, <2>3 DEF SendError
<1>7. ASSUME NEW w \in Workers, MarkSent(w) PROVE TypeOK'
  <2>1. worker' \in [Workers -> Worker]
    BY <1>7, NextRowType DEF MarkSent
  <2>2. status' \in [Keys -> Statuses] /\ timer' \in [Keys -> Nat]
    BY <1>7 DEF MarkSent, Statuses
  <2> QED
    BY <1>7, <2>1, <2>2 DEF MarkSent
<1>8. ASSUME NEW w \in Workers, MarkFailed(w) PROVE TypeOK'
  <2>1. worker' \in [Workers -> Worker]
    BY <1>8, NextRowType DEF MarkFailed
  <2>2. worker[w].key \in Keys
    BY DEF Worker
  <2>3. Backoff(attempts[worker[w].key]) \in Nat
    BY <2>2, BackoffType
  <2>4. status' \in [Keys -> Statuses] /\ timer' \in [Keys -> Nat]
    <3>1. CASE status[worker[w].key] = "sending"
      <4>1. \A b \in BOOLEAN : (IF b THEN "pending" ELSE "failed") \in Statuses
        BY DEF Statuses
      <4>2. (IF HasRetry(w, worker[w].key) THEN "pending" ELSE "failed") \in Statuses
        BY <4>1 DEF HasRetry
      <4>3. (IF HasRetry(w, worker[w].key) THEN Backoff(attempts[worker[w].key]) ELSE 0) \in Nat
        BY <2>3
      <4> QED
        BY <1>8, <3>1, <4>2, <4>3 DEF MarkFailed
    <3>2. CASE status[worker[w].key] # "sending"
      BY <1>8, <3>2 DEF MarkFailed
    <3> QED
      BY <3>1, <3>2
  <2> QED
    BY <1>8, <2>1, <2>4 DEF MarkFailed
<1>9. ASSUME NEW w \in Workers, Stop(w) PROVE TypeOK'
  <2>0. worker[w].key \in Keys
    BY DEF Worker
  <2>1. lost' \in [Keys -> Nat] /\ crashes' \in 0..MaxCrashes
    BY <1>9, <2>0, QueueAssumption DEF Stop
  <2> QED
    BY <1>9, <2>1, IdleType DEF Stop
<1>10. CASE Tick
  <2>1. timer' \in [Keys -> Nat] /\ gap' \in [Keys -> 0..FlushGap]
    BY <1>10, QueueAssumption DEF Tick, Down
  <2>2. ASSUME NEW w \in Workers, worker[w].pc # "idle"
        PROVE  [worker[w] EXCEPT !.age = @ + 1] \in Worker
    <3>1. worker[w] \in Worker /\ worker[w].age < MaxDuration
      BY <1>10, <2>2 DEF Tick
    <3>2. worker[w].age + 1 \in 0..MaxDuration
      BY <3>1, QueueAssumption DEF Worker
    <3> QED
      BY <3>1, <3>2 DEF Worker
  <2>3. worker' \in [Workers -> Worker]
    BY <1>10, <2>2 DEF Tick
  <2> QED
    BY <1>10, <2>1, <2>3 DEF Tick
<1>11. CASE UNCHANGED vars
  BY <1>11 DEF vars
<1> QED
  BY <1>1, <1>2, <1>3, <1>4, <1>5, <1>6, <1>7, <1>8, <1>9, <1>10, <1>11
     DEF Next, Deliver

\* The empty queue is well typed.
LEMMA TypeInit == Init => TypeOK
BY QueueAssumption, IdleType DEF Init, TypeOK, Statuses

\* Every reachable state of the queue and of its workers has its type: the
\* check constraint on status holds, timers do not run below zero, and no
\* invocation outlives maxDuration.
THEOREM TypeCorrect == Spec => []TypeOK
BY TypeInit, TypeStep, PTL DEF Spec

-----------------------------------------------------------------------------
(***************************************************************************)
(* One sender at a time.                                                   *)
(*                                                                         *)
(* OneSender is kept by the row of a held reply: until the key is flushed  *)
(* again it reads "sending", and the time left before its claim is stale   *)
(* and the age of the invocation that holds it add up to StaleAfter, which *)
(* no invocation reaches.                                                  *)
(***************************************************************************)
QueueShape ==
  \A w \in Workers : /\ worker[w].pc \in {"idle", "claim"} => worker[w].queue = {}
                     /\ worker[w].pc = "mark" => worker[w].key \notin worker[w].queue

Flushed == \A k \in Keys : status[k] # "absent" => flushes[k] > 0

HeldIsSending ==
  \A w \in Workers : \A k \in Holding(w) :
    /\ flushes[k] > 0
    /\ flushes[k] = 1 => /\ status[k] = "sending"
                         /\ StaleAfter <= timer[k] + worker[w].age

HoldInv == TypeOK /\ QueueShape /\ Flushed /\ HeldIsSending /\ OneSender

\* What the proof needs of the types.
LEMMA TypeFacts ==
  ASSUME TypeOK
  PROVE  /\ \A w \in Workers : /\ worker[w] \in Worker
                               /\ worker[w].age \in Nat /\ worker[w].age <= MaxDuration
                               /\ worker[w].key \in Keys
                               /\ worker[w].queue \subseteq Keys
                               /\ Holding(w) \subseteq Keys
         /\ \A k \in Keys : timer[k] \in Nat /\ flushes[k] \in Nat
<1>1. \A w \in Workers : worker[w] \in Worker
  BY DEF TypeOK
<1>2. \A w \in Workers : /\ worker[w].age \in 0..MaxDuration
                         /\ worker[w].key \in Keys
                         /\ worker[w].queue \subseteq Keys
  BY <1>1 DEF Worker
<1>3. \A k \in Keys : timer[k] \in Nat /\ flushes[k] \in Nat
  BY QueueAssumption DEF TypeOK
<1> QED
  BY <1>1, <1>2, <1>3, QueueAssumption DEF Holding

\* A reply that somebody holds cannot be claimed before it is flushed again.
LEMMA HeldNotClaimable ==
  ASSUME HoldInv, NEW w \in Workers, NEW k \in Holding(w), Claimable(k)
  PROVE  flushes[k] > 1
<1>1. worker[w].age \in Nat /\ worker[w].age <= MaxDuration /\ k \in Keys /\ flushes[k] \in Nat
  BY TypeFacts DEF HoldInv
<1>2. flushes[k] > 0 /\ (flushes[k] = 1 => StaleAfter <= timer[k] + worker[w].age)
  BY DEF HoldInv, HeldIsSending
<1>3. timer[k] = 0
  BY DEF Claimable
<1> QED
  BY <1>1, <1>2, <1>3, QueueAssumption

\* A worker that claims the rows of S, all of them claimable.
LEMMA ClaimHold ==
  ASSUME HoldInv, TypeOK', NEW w \in Workers, NEW S \in SUBSET Keys,
         \A k \in S : Claimable(k), SetSending(S), flushes' = flushes,
         worker'[w].pc = "deliver", worker'[w].queue = S,
         \A v \in Workers : v # w => worker'[v] = worker[v]
  PROVE  HoldInv'
<1>0. TypeOK
  BY DEF HoldInv
<1>1. Holding(w)' = S
  BY DEF Holding
<1>2. \A v \in Workers : v # w => Holding(v)' = Holding(v)
  BY DEF Holding
<1>3. \A k \in Keys : /\ k \in S => status'[k] = "sending" /\ timer'[k] = StaleAfter
                      /\ k \notin S => status'[k] = status[k] /\ timer'[k] = timer[k]
  BY DEF SetSending
<1>4. \A k \in S : flushes[k] > 0
  BY DEF HoldInv, Flushed, Claimable
<1>5. \A v \in Workers : \A k \in Holding(v) \cap S : flushes[k] > 1
  BY HeldNotClaimable
<1>6. QueueShape'
  BY DEF HoldInv, QueueShape
<1>7. Flushed'
  BY <1>3, <1>4 DEF HoldInv, Flushed
<1>8. HeldIsSending'
  <2> SUFFICES ASSUME NEW v \in Workers, NEW k \in Holding(v)'
               PROVE  /\ flushes[k] > 0
                      /\ flushes[k] = 1 => /\ status'[k] = "sending"
                                           /\ StaleAfter <= timer'[k] + worker'[v].age
    BY DEF HeldIsSending
  <2>1. worker'[w].age \in Nat
    <3>1. worker'[w] \in Worker
      BY DEF TypeOK
    <3> QED
      BY <3>1, QueueAssumption DEF Worker
  <2>2. CASE v = w
    BY <2>1, <2>2, <1>1, <1>3, <1>4, QueueAssumption
  <2>3. CASE v # w
    <3>1. k \in Holding(v) /\ worker'[v] = worker[v] /\ k \in Keys
      BY <2>3, <1>0, <1>2, TypeFacts
    <3>2. CASE k \in S
      BY <3>1, <3>2, <1>0, <1>5, TypeFacts
    <3>3. CASE k \notin S
      BY <3>1, <3>3, <1>3 DEF HoldInv, HeldIsSending
    <3> QED
      BY <3>2, <3>3
  <2> QED
    BY <2>2, <2>3
<1>9. OneSender'
  BY <1>1, <1>2, <1>5 DEF HoldInv, OneSender
<1> QED
  BY <1>6, <1>7, <1>8, <1>9 DEF HoldInv

\* A worker that lets go of a row, or of everything: what it held shrinks, and
\* only the row it had just sent may change.
LEMMA ReleaseHold ==
  ASSUME HoldInv, TypeOK', NEW w \in Workers, NEW k \in Keys,
         \A j \in Keys : j # k => status'[j] = status[j] /\ timer'[j] = timer[j],
         k \in Holding(w) \/ (status'[k] = status[k] /\ timer'[k] = timer[k]),
         flushes' = flushes,
         Holding(w)' \subseteq Holding(w) \ {k},
         worker'[w].age = worker[w].age \/ Holding(w)' = {},
         worker'[w].pc \in {"idle", "claim"} => worker'[w].queue = {},
         worker'[w].pc # "mark",
         \A v \in Workers : v # w => worker'[v] = worker[v]
  PROVE  HoldInv'
<1>0. TypeOK
  BY DEF HoldInv
<1>1. \A v \in Workers : v # w => Holding(v)' = Holding(v)
  BY DEF Holding
<1>2. \A v \in Workers : v # w /\ k \in Holding(v) /\ k \in Holding(w) => flushes[k] > 1
  BY DEF HoldInv, OneSender
<1>3. QueueShape'
  BY DEF HoldInv, QueueShape
<1>4. Flushed'
  BY DEF HoldInv, Flushed, HeldIsSending
<1>5. HeldIsSending'
  <2> SUFFICES ASSUME NEW v \in Workers, NEW j \in Holding(v)'
               PROVE  /\ flushes[j] > 0
                      /\ flushes[j] = 1 => /\ status'[j] = "sending"
                                           /\ StaleAfter <= timer'[j] + worker'[v].age
    BY DEF HeldIsSending
  <2>1. j \in Holding(v) /\ j \in Keys /\ worker'[v].age = worker[v].age
    BY <1>0, <1>1, TypeFacts
  <2>2. /\ flushes[j] > 0
        /\ flushes[j] = 1 => /\ status[j] = "sending"
                             /\ StaleAfter <= timer[j] + worker[v].age
    BY <2>1 DEF HoldInv, HeldIsSending
  <2>3. CASE j # k
    BY <2>1, <2>2, <2>3
  <2>4. CASE j = k
    <3>1. v # w
      BY <2>4
    <3>2. CASE k \in Holding(w)
      BY <2>1, <2>4, <3>1, <3>2, <1>0, <1>2, TypeFacts
    <3>3. CASE k \notin Holding(w)
      BY <2>1, <2>2, <2>4, <3>3
    <3> QED
      BY <3>2, <3>3
  <2> QED
    BY <2>3, <2>4
<1>6. OneSender'
  BY <1>1 DEF HoldInv, OneSender
<1> QED
  BY <1>3, <1>4, <1>5, <1>6 DEF HoldInv

\* A send moves its row from the queue to the hand: the worker holds the same.
LEMMA SendHold ==
  ASSUME HoldInv, TypeOK', NEW w \in Workers, NEW k \in worker[w].queue,
         worker[w].pc = "deliver",
         UNCHANGED <<status, timer, flushes>>,
         worker'[w].pc = "mark", worker'[w].key = k,
         worker'[w].queue = worker[w].queue \ {k}, worker'[w].age = worker[w].age,
         \A v \in Workers : v # w => worker'[v] = worker[v]
  PROVE  HoldInv'
<1>1. \A v \in Workers : Holding(v)' = Holding(v) /\ worker'[v].age = worker[v].age
  BY DEF Holding
<1>2. QueueShape'
  BY DEF HoldInv, QueueShape
<1> QED
  BY <1>1, <1>2 DEF HoldInv, Flushed, HeldIsSending, OneSender

\* The row a worker has just marked leaves its hand.
LEMMA NextRowHold ==
  ASSUME HoldInv, NEW w \in Workers, worker[w].pc = "mark", NextRow(w)
  PROVE  /\ Holding(w)' \subseteq Holding(w) \ {worker[w].key}
         /\ worker'[w].age = worker[w].age \/ Holding(w)' = {}
         /\ worker'[w].pc \in {"idle", "claim"} => worker'[w].queue = {}
         /\ worker'[w].pc # "mark"
         /\ \A v \in Workers : v # w => worker'[v] = worker[v]
<1>0. worker \in [Workers -> Worker] /\ worker[w] \in Worker
  BY DEF HoldInv, TypeOK
<1>1. worker[w].key \notin worker[w].queue
  BY DEF HoldInv, QueueShape
<1>2. \A v \in Workers : v # w => worker'[v] = worker[v]
  BY <1>0 DEF NextRow
<1>3. CASE worker[w].queue = {}
  <2>1. worker'[w] = Idle
    BY <1>0, <1>3 DEF NextRow
  <2> QED
    BY <1>2, <2>1 DEF Idle, Holding
<1>4. CASE worker[w].queue # {}
  <2>1. worker'[w] = [worker[w] EXCEPT !.pc = "deliver"]
    BY <1>0, <1>4 DEF NextRow
  <2>2. /\ worker'[w].pc = "deliver" /\ worker'[w].queue = worker[w].queue
        /\ worker'[w].age = worker[w].age
    BY <1>0, <2>1 DEF Worker
  <2> QED
    BY <1>1, <1>2, <2>2 DEF Holding
<1> QED
  BY <1>3, <1>4

\* The invariant is inductive.
LEMMA HoldStep == HoldInv /\ [Next]_vars => HoldInv'
<1> SUFFICES ASSUME HoldInv, [Next]_vars PROVE HoldInv'
  OBVIOUS
<1>0. TypeOK /\ TypeOK'
  BY TypeStep DEF HoldInv
<1>a. worker \in [Workers -> Worker] /\ \A v \in Workers : worker[v] \in Worker
  BY <1>0 DEF TypeOK
<1>1. ASSUME NEW w \in Workers, NEW k \in Keys, Flush(w, k) PROVE HoldInv'
  <2>1. /\ worker'[w].pc = "claim" /\ worker'[w].queue = {}
        /\ \A v \in Workers : v # w => worker'[v] = worker[v]
    BY <1>a, <1>1 DEF Flush, Idle
  <2>2. Holding(w)' = {} /\ \A v \in Workers : v # w => Holding(v)' = Holding(v)
    BY <2>1 DEF Holding
  <2>3. flushes'[k] = flushes[k] + 1 /\ \A j \in Keys : j # k => flushes'[j] = flushes[j]
    BY <1>0, <1>1 DEF Flush, TypeOK
  <2>4. \A j \in Keys : j # k => status'[j] = status[j] /\ timer'[j] = timer[j]
    BY <1>0, <1>1 DEF Flush, TypeOK
  <2>5. \A v \in Workers : k \in Holding(v)' => flushes'[k] > 1
    BY <1>0, <2>2, <2>3, TypeFacts DEF HoldInv, HeldIsSending
  <2>6. QueueShape'
    BY <2>1 DEF HoldInv, QueueShape
  <2>7. Flushed'
    BY <1>0, <2>3, <2>4, TypeFacts DEF HoldInv, Flushed
  <2>8. HeldIsSending'
    <3> SUFFICES ASSUME NEW v \in Workers, NEW j \in Holding(v)'
                 PROVE  /\ flushes'[j] > 0
                        /\ flushes'[j] = 1 => /\ status'[j] = "sending"
                                              /\ StaleAfter <= timer'[j] + worker'[v].age
      BY DEF HeldIsSending
    <3>1. v # w /\ j \in Holding(v) /\ j \in Keys /\ flushes[j] \in Nat
      BY <1>0, <2>2, TypeFacts
    <3>2. CASE j = k
      BY <2>3, <2>5, <3>1, <3>2
    <3>3. CASE j # k
      BY <2>1, <2>3, <2>4, <3>1, <3>3 DEF HoldInv, HeldIsSending
    <3> QED
      BY <3>2, <3>3
  <2>9. OneSender'
    <3> SUFFICES ASSUME NEW u \in Workers, NEW v \in Workers, u # v,
                        NEW j \in Holding(u)' \cap Holding(v)'
                 PROVE  flushes'[j] > 1
      BY DEF OneSender
    <3>1. j \in Holding(u) /\ j \in Holding(v) /\ j \in Keys
      BY <1>0, <2>2, TypeFacts
    <3>2. CASE j = k
      BY <2>5, <3>2
    <3>3. CASE j # k
      BY <2>3, <3>1, <3>3 DEF HoldInv, OneSender
    <3> QED
      BY <3>2, <3>3
  <2> QED
    BY <1>0, <2>6, <2>7, <2>8, <2>9 DEF HoldInv
<1>2. ASSUME NEW w \in Workers, ClaimByKey(w) PROVE HoldInv'
  <2> DEFINE S == {worker[w].key}
  <2>1. S \in SUBSET Keys /\ (\A k \in S : Claimable(k)) /\ SetSending(S) /\ flushes' = flushes
    BY <1>0, <1>2, TypeFacts DEF ClaimByKey
  <2>2. worker'[w] = [worker[w] EXCEPT !.pc = "deliver", !.queue = S]
    BY <1>a, <1>2 DEF ClaimByKey
  <2>3. worker'[w].pc = "deliver" /\ worker'[w].queue = S
    BY <1>a, <2>2 DEF Worker
  <2>4. \A v \in Workers : v # w => worker'[v] = worker[v]
    BY <1>a, <1>2 DEF ClaimByKey
  <2> HIDE DEF S
  <2> QED
    BY <1>0, <2>1, <2>3, <2>4, ClaimHold
<1>3. ASSUME NEW w \in Workers, ClaimDue(w) PROVE HoldInv'
  <2>1. PICK S \in SUBSET Due :
          /\ SetSending(S)
          /\ worker' = [worker EXCEPT ![w] = [Idle EXCEPT !.pc = "deliver", !.queue = S]]
    BY <1>3 DEF ClaimDue
  <2>2. S \in SUBSET Keys /\ (\A k \in S : Claimable(k)) /\ flushes' = flushes
    BY <1>3 DEF Due, ClaimDue
  <2>3. worker'[w].pc = "deliver" /\ worker'[w].queue = S
    BY <1>a, <2>1 DEF Idle
  <2>4. \A v \in Workers : v # w => worker'[v] = worker[v]
    BY <1>a, <2>1
  <2> QED
    BY <1>0, <2>1, <2>2, <2>3, <2>4, ClaimHold
<1>4. ASSUME NEW w \in Workers, NEW k \in Keys,
             \/ SendOk(w, k)
             \/ \E c \in ErrorClass, arrived \in BOOLEAN : SendError(w, k, c, arrived)
      PROVE HoldInv'
  <2>1. /\ worker[w].pc = "deliver" /\ k \in worker[w].queue
        /\ UNCHANGED <<status, timer, flushes>>
    BY <1>4 DEF SendOk, SendError, rows
  <2>2. PICK res : worker' = [worker EXCEPT ![w] = [worker[w] EXCEPT
          !.pc = "mark", !.key = k, !.queue = worker[w].queue \ {k}, !.result = res]]
    BY <1>4 DEF SendOk, SendError
  <2>3. /\ worker'[w].pc = "mark" /\ worker'[w].key = k
        /\ worker'[w].queue = worker[w].queue \ {k} /\ worker'[w].age = worker[w].age
    BY <1>a, <2>2 DEF Worker
  <2>4. \A v \in Workers : v # w => worker'[v] = worker[v]
    BY <1>a, <2>2
  <2> QED
    BY <1>0, <2>1, <2>3, <2>4, SendHold
<1>5. ASSUME NEW w \in Workers, MarkSent(w) \/ MarkFailed(w) PROVE HoldInv'
  <2> DEFINE k == worker[w].key
  <2>1. /\ worker[w].pc = "mark" /\ NextRow(w) /\ flushes' = flushes
        /\ \A j \in Keys : j # k => status'[j] = status[j] /\ timer'[j] = timer[j]
    BY <1>0, <1>5 DEF MarkSent, MarkFailed, TypeOK
  <2>2. k \in Keys /\ k \in Holding(w)
    BY <1>0, <2>1, TypeFacts DEF Holding
  <2> HIDE DEF k
  <2> QED
    BY <1>0, <2>1, <2>2, NextRowHold, ReleaseHold DEF k
<1>6. ASSUME NEW w \in Workers, Stop(w) \/ ClaimByKeyNothing(w) PROVE HoldInv'
  <2>1. UNCHANGED <<status, timer, flushes>> /\ worker'[w] = Idle
    BY <1>a, <1>6 DEF Stop, ClaimByKeyNothing, rows
  <2>2. \A v \in Workers : v # w => worker'[v] = worker[v]
    BY <1>a, <1>6 DEF Stop, ClaimByKeyNothing
  <2>3. /\ Holding(w)' = {} /\ worker'[w].queue = {} /\ worker'[w].pc # "mark"
    BY <2>1 DEF Holding, Idle
  <2>4. worker[w].key \in Keys
    BY <1>0, TypeFacts
  <2> QED
    BY <1>0, <2>1, <2>2, <2>3, <2>4, ReleaseHold
<1>7. CASE Tick
  <2>1. UNCHANGED <<status, flushes>> /\ \A k \in Keys : timer'[k] = Down(timer[k])
    BY <1>7 DEF Tick
  <2>2. \A v \in Workers : /\ worker[v].pc = "idle" => worker'[v] = worker[v]
                           /\ worker[v].pc # "idle" => worker'[v] = [worker[v] EXCEPT !.age = @ + 1]
    BY <1>7 DEF Tick
  <2>3. \A v \in Workers : /\ worker'[v].pc = worker[v].pc
                           /\ worker'[v].key = worker[v].key
                           /\ worker'[v].queue = worker[v].queue
                           /\ worker[v].pc # "idle" => worker'[v].age = worker[v].age + 1
    BY <1>a, <2>2 DEF Worker
  <2>4. \A v \in Workers : Holding(v)' = Holding(v)
    BY <2>3 DEF Holding
  <2>5. \A v \in Workers : Holding(v) # {} => worker[v].pc # "idle"
    BY DEF Holding, HoldInv, QueueShape
  <2>6. QueueShape' /\ Flushed' /\ OneSender'
    BY <2>1, <2>3, <2>4 DEF HoldInv, QueueShape, Flushed, OneSender
  <2>7. HeldIsSending'
    <3> SUFFICES ASSUME NEW v \in Workers, NEW j \in Holding(v)
                 PROVE  /\ flushes[j] > 0
                        /\ flushes[j] = 1 => /\ status[j] = "sending"
                                             /\ StaleAfter <= timer'[j] + worker'[v].age
      BY <2>1, <2>4 DEF HeldIsSending
    <3>1. j \in Keys /\ timer[j] \in Nat /\ worker[v].age \in Nat
      BY <1>0, TypeFacts
    <3>2. timer'[j] + worker'[v].age >= timer[j] + worker[v].age
      BY <2>1, <2>3, <2>5, <3>1 DEF Down
    <3>3. /\ flushes[j] > 0
          /\ flushes[j] = 1 => /\ status[j] = "sending"
                               /\ StaleAfter <= timer[j] + worker[v].age
      BY DEF HoldInv, HeldIsSending
    <3>4. timer'[j] \in Nat /\ worker'[v].age \in Nat
      BY <2>1, <2>3, <2>5, <3>1 DEF Down
    <3> QED
      BY <3>1, <3>2, <3>3, <3>4, QueueAssumption
  <2> QED
    BY <1>0, <2>6, <2>7 DEF HoldInv
<1>8. CASE UNCHANGED vars
  <2>1. UNCHANGED <<status, timer, flushes, worker>>
    BY <1>8 DEF vars, rows
  <2>2. \A v \in Workers : Holding(v)' = Holding(v)
    BY <2>1 DEF Holding
  <2> QED
    BY <1>0, <2>1, <2>2 DEF HoldInv, QueueShape, Flushed, HeldIsSending, OneSender
<1> QED
  BY <1>1, <1>2, <1>3, <1>4, <1>5, <1>6, <1>7, <1>8 DEF Next, Deliver

\* Nobody holds a reply in the empty queue.
LEMMA HoldInit == Init => HoldInv
<1> SUFFICES ASSUME Init PROVE HoldInv
  OBVIOUS
<1>1. \A w \in Workers : worker[w].pc = "idle" /\ worker[w].queue = {}
  BY DEF Init, Idle
<1>2. \A w \in Workers : Holding(w) = {}
  BY <1>1 DEF Holding
<1>3. Flushed
  BY DEF Init, Flushed
<1> QED
  BY <1>1, <1>2, <1>3, TypeInit DEF HoldInv, QueueShape, HeldIsSending, OneSender

\* Until its key is flushed again, a queued reply is in the hands of one
\* invocation at a time, whatever crashes: the 15 minutes of the claims are
\* longer than the 5 minutes of an invocation.
THEOREM OneSenderAtATime == Spec => []OneSender
<1>1. HoldInv => OneSender
  BY DEF HoldInv
<1> QED
  BY <1>1, HoldInit, HoldStep, PTL DEF Spec

\* A step that starts where HoldInv holds respects the settled replies.
LEMMA SettledByStep == HoldInv /\ [Next]_vars => [SettledStep]_vars
<1> SUFFICES ASSUME HoldInv, Next PROVE SettledStep
  OBVIOUS
<1>0. TypeOK
  BY DEF HoldInv
<1>1. ASSUME NEW w \in Workers, NEW k \in Keys, Flush(w, k) PROVE SettledStep
  <2>1. status'[k] = Requeued(k) /\ \A j \in Keys : j # k => status'[j] = status[j]
    BY <1>0, <1>1 DEF Flush, TypeOK
  <2>2. flushes'[k] > flushes[k]
    BY <1>0, <1>1, TypeFacts DEF Flush, TypeOK
  <2> QED
    BY <2>1, <2>2 DEF SettledStep, Requeued
<1>2. ASSUME NEW S, \A k \in S : Claimable(k), SetSending(S) PROVE SettledStep
  BY <1>2 DEF SettledStep, SetSending, Claimable
<1>3. ASSUME NEW w \in Workers, ClaimByKey(w) \/ ClaimDue(w) PROVE SettledStep
  BY <1>2, <1>3 DEF ClaimByKey, ClaimDue, Due
<1>4. ASSUME NEW w \in Workers, MarkSent(w) PROVE SettledStep
  <2> DEFINE k == worker[w].key
  <2>1. status'[k] = "sent" /\ \A j \in Keys : j # k => status'[j] = status[j]
    BY <1>0, <1>4, TypeFacts DEF MarkSent, TypeOK
  <2>2. k \in Keys /\ flushes[k] \in Nat /\ flushes[k] > 0 /\ (flushes[k] = 1 => status[k] = "sending")
    BY <1>0, <1>4, TypeFacts DEF MarkSent, HoldInv, HeldIsSending, Holding
  <2> QED
    BY <2>1, <2>2 DEF SettledStep
<1>5. ASSUME NEW w \in Workers, MarkFailed(w) PROVE SettledStep
  <2>1. \A j \in Keys : status[j] # "sending" => status'[j] = status[j]
    BY <1>0, <1>5 DEF MarkFailed, TypeOK
  <2> QED
    BY <2>1 DEF SettledStep
<1>6. ASSUME status' = status PROVE SettledStep
  BY <1>6 DEF SettledStep
<1>7. ASSUME NEW w \in Workers,
             \/ ClaimByKeyNothing(w) \/ Stop(w)
             \/ (\E k \in Keys : SendOk(w, k))
             \/ (\E k \in Keys, c \in ErrorClass, arrived \in BOOLEAN :
                   SendError(w, k, c, arrived))
      PROVE SettledStep
  BY <1>6, <1>7 DEF ClaimByKeyNothing, Stop, SendOk, SendError, rows
<1>8. CASE Tick
  BY <1>6, <1>8 DEF Tick
<1> QED
  BY <1>1, <1>3, <1>4, <1>5, <1>7, <1>8 DEF Next, Deliver

\* A reply the provider has accepted and the queue has recorded is never sent
\* again, and a dead-lettered one is never retried on its own.
THEOREM SettledStays == Spec => SettledIsFinal
BY HoldInit, HoldStep, SettledByStep, PTL DEF Spec, SettledIsFinal

-----------------------------------------------------------------------------
(***************************************************************************)
(* Repeats and attempts.                                                   *)
(*                                                                         *)
(* Both bounds are kept by an account of the sends a row may still get:    *)
(* one by every invocation that holds it unsent, and one more if somebody  *)
(* may claim it.  A row that is "sending" may be claimed only when nobody  *)
(* holds it any more, and then a crash has paid for the claim.             *)
(***************************************************************************)

\* Who holds reply k, and who of them has not sent it.
Holders(k) == {w \in Workers : k \in Holding(w)}

SentIt(w, k) == worker[w].pc = "mark" /\ worker[w].key = k /\ worker[w].result = "ok"

Unsent(k) == {w \in Holders(k) : ~SentIt(w, k)}

\* A claim of the row is to come, or may come when it is stale.
Open(k) == status[k] = "pending" \/ (status[k] = "sending" /\ Holders(k) = {})

Token(k) == IF Open(k) THEN 1 ELSE 0

\* A claim is not stale while anyone holds the row, however often the key was
\* flushed: a flush makes the row pending, and the next claim starts anew.
HeldIsFresh ==
  \A w \in Workers : \A k \in Holding(w) :
    status[k] = "sending" => StaleAfter <= timer[k] + worker[w].age

\* There is a row exactly when there was a flush; only claims count attempts.
RowsFlushed ==
  \A k \in Keys : /\ flushes[k] > 0 <=> status[k] # "absent"
                  /\ flushes[k] = 0 => attempts[k] = 0

\* Every send is paid for by a flush or recorded as lost.
KeySends(k) ==
  /\ IsFiniteSet(Unsent(k))
  /\ delivered[k] + Cardinality(Unsent(k)) + Token(k) <= flushes[k] + lost[k]

\* Every claim beyond the budget is paid for by a crash or another flush.
KeyAttempts(k) ==
  flushes[k] > 0 => attempts[k] + Token(k) <= MaxAttempts + crashes + flushes[k] - 1

AccountInv ==
  /\ HoldInv /\ HeldIsFresh /\ RowsFlushed
  /\ \A k \in Keys : KeySends(k) /\ KeyAttempts(k)

\* Two sets that differ at most in w.
LEMMA OneChange ==
  ASSUME NEW A, NEW B, NEW w, IsFiniteSet(A), A \ {w} = B \ {w}
  PROVE  /\ IsFiniteSet(B) /\ Cardinality(A) \in Nat
         /\ Cardinality(B) = Cardinality(A) - (IF w \in A THEN 1 ELSE 0)
                                            + (IF w \in B THEN 1 ELSE 0)
<1> DEFINE C == A \ {w}
<1>1. /\ IsFiniteSet(C) /\ Cardinality(A) \in Nat
      /\ Cardinality(C) = IF w \in A THEN Cardinality(A) - 1 ELSE Cardinality(A)
  BY FS_RemoveElement, FS_CardinalityType
<1>2. w \notin C /\ (w \in B => B = C \cup {w}) /\ (w \notin B => B = C)
  OBVIOUS
<1> HIDE DEF C
<1>3. /\ IsFiniteSet(C \cup {w})
      /\ Cardinality(C \cup {w}) = Cardinality(C) + 1
  BY <1>1, <1>2, FS_AddElement
<1>4. CASE w \in B
  <2>1. IsFiniteSet(B) /\ Cardinality(B) = Cardinality(C) + 1
    BY <1>2, <1>3, <1>4
  <2> QED
    BY <1>1, <1>4, <2>1
<1>5. CASE w \notin B
  BY <1>1, <1>2, <1>5
<1> QED
  BY <1>4, <1>5

\* What a step of worker w changes of who holds a reply.
LEMMA OthersHold ==
  ASSUME NEW w \in Workers, \A v \in Workers : v # w => worker'[v] = worker[v],
         NEW k \in Keys
  PROVE  /\ Holders(k)' \ {w} = Holders(k) \ {w}
         /\ Unsent(k)' \ {w} = Unsent(k) \ {w}
         /\ w \in Holders(k) <=> k \in Holding(w)
         /\ w \in Holders(k)' <=> k \in Holding(w)'
         /\ w \in Unsent(k) <=> k \in Holding(w) /\ ~SentIt(w, k)
         /\ w \in Unsent(k)' <=> k \in Holding(w)' /\ ~SentIt(w, k)'
BY DEF Holders, Unsent, Holding, SentIt

\* The account of one reply after a step of worker w.
LEMMA KeySendsStep ==
  ASSUME TypeOK, TypeOK', NEW w \in Workers, NEW k \in Keys, KeySends(k),
         \A v \in Workers : v # w => worker'[v] = worker[v],
         delivered'[k] + (IF w \in Unsent(k)' THEN 1 ELSE 0) + Token(k)'
             + flushes[k] + lost[k]
           <= delivered[k] + (IF w \in Unsent(k) THEN 1 ELSE 0) + Token(k)
             + flushes'[k] + lost'[k]
  PROVE  KeySends(k)'
<1> DEFINE A == Unsent(k)
           B == Unsent(k)'
           a == IF w \in A THEN 1 ELSE 0
           b == IF w \in B THEN 1 ELSE 0
<1>1. /\ IsFiniteSet(B) /\ Cardinality(A) \in Nat
      /\ Cardinality(B) = Cardinality(A) - a + b
  BY OthersHold, OneChange DEF KeySends
<1>2. /\ delivered[k] \in Nat /\ delivered'[k] \in Nat /\ lost[k] \in Nat
      /\ lost'[k] \in Nat /\ flushes[k] \in Nat /\ flushes'[k] \in Nat
  BY QueueAssumption DEF TypeOK
<1>3. Token(k) \in Nat /\ Token(k)' \in Nat /\ a \in Nat /\ b \in Nat
  BY DEF Token
<1>4. delivered[k] + Cardinality(A) + Token(k) <= flushes[k] + lost[k]
  BY DEF KeySends
<1>5. delivered'[k] + b + Token(k)' + flushes[k] + lost[k]
        <= delivered[k] + a + Token(k) + flushes'[k] + lost'[k]
  OBVIOUS
<1> HIDE DEF A, B, a, b
<1>6. delivered'[k] + Cardinality(B) + Token(k)' <= flushes'[k] + lost'[k]
  BY <1>1, <1>2, <1>3, <1>4, <1>5
<1> QED
  BY <1>1, <1>6 DEF KeySends, B

\* A reply no step of worker w is about keeps its account.
LEMMA KeyFrame ==
  ASSUME TypeOK, TypeOK', NEW w \in Workers, NEW k \in Keys,
         KeySends(k), KeyAttempts(k),
         \A v \in Workers : v # w => worker'[v] = worker[v],
         k \in Holding(w)' <=> k \in Holding(w),
         k \in Holding(w) => (SentIt(w, k)' <=> SentIt(w, k)),
         status'[k] = status[k], attempts'[k] = attempts[k],
         flushes'[k] = flushes[k], delivered'[k] = delivered[k],
         lost'[k] = lost[k], crashes' >= crashes
  PROVE  KeySends(k)' /\ KeyAttempts(k)'
<1>1. /\ w \in Unsent(k)' <=> w \in Unsent(k)
      /\ Holders(k)' = Holders(k)
  <2>1. /\ Holders(k)' \ {w} = Holders(k) \ {w}
        /\ w \in Holders(k)' <=> w \in Holders(k)
    BY OthersHold
  <2>2. w \in Unsent(k)' <=> w \in Unsent(k)
    BY OthersHold
  <2> QED
    BY <2>1, <2>2
<1>2. Token(k)' = Token(k)
  BY <1>1 DEF Token, Open
<1>3. KeySends(k)'
  <2>1. /\ delivered[k] \in Nat /\ lost[k] \in Nat /\ flushes[k] \in Nat
        /\ Token(k) \in Nat
    BY QueueAssumption DEF TypeOK, Token
  <2> QED
    BY <1>1, <1>2, <2>1, KeySendsStep
<1>4. KeyAttempts(k)'
  <2>1. /\ attempts[k] \in Nat /\ flushes[k] \in Nat /\ Token(k) \in Nat
        /\ crashes \in Nat /\ crashes' \in Nat
    BY QueueAssumption DEF TypeOK, Token
  <2> QED
    BY <1>2, <2>1, QueueAssumption DEF KeyAttempts
<1> QED
  BY <1>3, <1>4

\* What a claim does, of one row or of all that are due.
LEMMA ClaimFacts ==
  ASSUME HoldInv, NEW w \in Workers, ClaimByKey(w) \/ ClaimDue(w)
  PROVE  \E S \in SUBSET Keys :
           /\ \A k \in S : Claimable(k)
           /\ SetSending(S)
           /\ UNCHANGED <<flushes, crashes, delivered, lost>>
           /\ Holding(w) = {} /\ Holding(w)' = S /\ worker'[w].pc = "deliver"
           /\ \A v \in Workers : v # w => worker'[v] = worker[v]
<1>0. /\ worker \in [Workers -> Worker] /\ worker[w] \in Worker
      /\ worker[w].key \in Keys
  BY TypeFacts DEF HoldInv, TypeOK
<1>1. CASE ClaimByKey(w)
  <2> DEFINE S == {worker[w].key}
  <2>1. /\ S \in SUBSET Keys /\ (\A k \in S : Claimable(k)) /\ SetSending(S)
        /\ UNCHANGED <<flushes, crashes, delivered, lost>>
    BY <1>0, <1>1 DEF ClaimByKey, history
  <2>2. worker' = [worker EXCEPT ![w] = [worker[w] EXCEPT !.pc = "deliver", !.queue = S]]
    BY <1>1 DEF ClaimByKey
  <2>3. Holding(w) = {}
    BY <1>1 DEF ClaimByKey, Holding, HoldInv, QueueShape
  <2> HIDE DEF S
  <2>4. /\ worker'[w].pc = "deliver" /\ worker'[w].queue = S
        /\ \A v \in Workers : v # w => worker'[v] = worker[v]
    BY <1>0, <2>2 DEF Worker
  <2>5. Holding(w)' = S
    BY <2>4 DEF Holding
  <2> QED
    BY <2>1, <2>3, <2>4, <2>5
<1>2. CASE ClaimDue(w)
  <2>1. PICK S \in SUBSET Due :
          /\ SetSending(S)
          /\ worker' = [worker EXCEPT ![w] = [Idle EXCEPT !.pc = "deliver", !.queue = S]]
    BY <1>2 DEF ClaimDue
  <2>2. /\ S \in SUBSET Keys /\ (\A k \in S : Claimable(k))
        /\ UNCHANGED <<flushes, crashes, delivered, lost>>
    BY <1>2 DEF Due, ClaimDue, history
  <2>3. Holding(w) = {}
    BY <1>2 DEF ClaimDue, Holding, HoldInv, QueueShape
  <2>4. /\ worker'[w].pc = "deliver" /\ worker'[w].queue = S
        /\ \A v \in Workers : v # w => worker'[v] = worker[v]
    BY <1>0, <2>1 DEF Idle
  <2>5. Holding(w)' = S
    BY <2>4 DEF Holding
  <2> QED
    BY <2>1, <2>2, <2>3, <2>4, <2>5
<1> QED
  BY <1>1, <1>2

\* What a send does to its worker, whatever its result.
LEMMA SendFacts ==
  ASSUME HoldInv, NEW w \in Workers, NEW k \in Keys,
         \/ SendOk(w, k)
         \/ \E c \in ErrorClass, arrived \in BOOLEAN : SendError(w, k, c, arrived)
  PROVE  /\ worker[w].pc = "deliver" /\ k \in worker[w].queue
         /\ worker'[w].pc = "mark" /\ worker'[w].key = k
         /\ worker'[w].age = worker[w].age
         /\ worker'[w].result = "ok" <=> SendOk(w, k)
         /\ Holding(w)' = Holding(w)
         /\ UNCHANGED <<status, attempts, timer, flushes, crashes>>
         /\ \A v \in Workers : v # w => worker'[v] = worker[v]
<1>0. worker \in [Workers -> Worker] /\ worker[w] \in Worker
  BY DEF HoldInv, TypeOK
<1>1. /\ worker[w].pc = "deliver" /\ k \in worker[w].queue
      /\ UNCHANGED <<status, attempts, timer, flushes, crashes>>
  BY DEF SendOk, SendError, rows
<1>2. PICK res : /\ worker' = [worker EXCEPT ![w] = [worker[w] EXCEPT !.pc = "mark",
                      !.key = k, !.queue = worker[w].queue \ {k}, !.result = res]]
                 /\ SendOk(w, k) => res = "ok"
                 /\ res = "ok" => SendOk(w, k)
  <2>1. CASE SendOk(w, k)
    BY <2>1 DEF SendOk
  <2>2. CASE \E c \in ErrorClass, arrived \in BOOLEAN : SendError(w, k, c, arrived)
    <3>1. PICK c \in ErrorClass, arrived \in BOOLEAN : SendError(w, k, c, arrived)
      BY <2>2
    <3> DEFINE res == IF IsRetryable(c) THEN "retryable" ELSE "fatal"
    <3>2. worker' = [worker EXCEPT ![w] = [worker[w] EXCEPT !.pc = "mark",
             !.key = k, !.queue = worker[w].queue \ {k}, !.result = res]]
      BY <3>1 DEF SendError
    <3>3. res # "ok"
      OBVIOUS
    <3>4. SendOk(w, k) => FALSE
      <4>1. worker'[w].result = res
        BY <1>0, <3>2 DEF Worker
      <4>2. SendOk(w, k) => worker'[w].result = "ok"
        BY <1>0 DEF SendOk, Worker
      <4> QED
        BY <3>3, <4>1, <4>2
    <3> HIDE DEF res
    <3> QED
      BY <3>2, <3>3, <3>4
  <2> QED
    BY <2>1, <2>2
<1>3. /\ worker'[w].pc = "mark" /\ worker'[w].key = k
      /\ worker'[w].queue = worker[w].queue \ {k}
      /\ worker'[w].age = worker[w].age /\ worker'[w].result = res
      /\ \A v \in Workers : v # w => worker'[v] = worker[v]
  BY <1>0, <1>2 DEF Worker
<1>4. Holding(w)' = Holding(w)
  BY <1>1, <1>3 DEF Holding
<1> QED
  BY <1>1, <1>2, <1>3, <1>4

\* What marking a row does to its worker.
LEMMA MarkFacts ==
  ASSUME HoldInv, NEW w \in Workers, MarkSent(w) \/ MarkFailed(w)
  PROVE  /\ worker[w].pc = "mark" /\ worker[w].key \in Holding(w)
         /\ worker[w].key \in Keys
         /\ Holding(w)' = Holding(w) \ {worker[w].key}
         /\ worker'[w].pc # "mark"
         /\ worker'[w].age = worker[w].age \/ Holding(w)' = {}
         /\ \A v \in Workers : v # w => worker'[v] = worker[v]
         /\ \A j \in Keys : j # worker[w].key =>
              status'[j] = status[j] /\ timer'[j] = timer[j]
         /\ UNCHANGED <<attempts, flushes, crashes, delivered, lost>>
<1>0. /\ worker \in [Workers -> Worker] /\ worker[w] \in Worker /\ TypeOK
      /\ worker[w].key \in Keys
  BY TypeFacts DEF HoldInv, TypeOK
<1>1. /\ worker[w].pc = "mark" /\ NextRow(w)
      /\ UNCHANGED <<attempts, flushes, crashes, delivered, lost>>
      /\ \A j \in Keys : j # worker[w].key =>
              status'[j] = status[j] /\ timer'[j] = timer[j]
  BY <1>0 DEF MarkSent, MarkFailed, history, TypeOK
<1>2. /\ worker'[w].age = worker[w].age \/ Holding(w)' = {}
      /\ worker'[w].pc # "mark"
      /\ \A v \in Workers : v # w => worker'[v] = worker[v]
  BY <1>1, NextRowHold
<1>3. worker'[w].queue = worker[w].queue
  <2>1. CASE worker[w].queue = {}
    BY <1>0, <1>1, <2>1 DEF NextRow, Idle
  <2>2. CASE worker[w].queue # {}
    BY <1>0, <1>1, <2>2 DEF NextRow, Worker
  <2> QED
    BY <2>1, <2>2
<1>4. worker[w].key \notin worker[w].queue
  BY <1>1 DEF HoldInv, QueueShape
<1>5. /\ worker[w].key \in Holding(w)
      /\ Holding(w)' = Holding(w) \ {worker[w].key}
  BY <1>1, <1>2, <1>3, <1>4 DEF Holding
<1> QED
  BY <1>0, <1>1, <1>2, <1>5

\* What a flush does.
LEMMA FlushFacts ==
  ASSUME HoldInv, NEW w \in Workers, NEW k \in Keys, Flush(w, k)
  PROVE  /\ Holding(w) = {} /\ Holding(w)' = {}
         /\ \A v \in Workers : v # w => worker'[v] = worker[v]
         /\ flushes'[k] = flushes[k] + 1
         /\ status'[k] = IF status[k] = "sent" THEN "sent" ELSE "pending"
         /\ \A j \in Keys : j # k =>
              status'[j] = status[j] /\ timer'[j] = timer[j] /\ flushes'[j] = flushes[j]
         /\ UNCHANGED <<attempts, crashes, delivered, lost>>
<1>0. TypeOK /\ worker \in [Workers -> Worker]
  BY DEF HoldInv, TypeOK
<1>1. Holding(w) = {}
  BY DEF Flush, Holding, HoldInv, QueueShape
<1>2. /\ worker'[w].pc = "claim" /\ worker'[w].queue = {}
      /\ \A v \in Workers : v # w => worker'[v] = worker[v]
  BY <1>0 DEF Flush, Idle
<1>3. Holding(w)' = {}
  BY <1>2 DEF Holding
<1> QED
  BY <1>0, <1>1, <1>2, <1>3 DEF Flush, Requeued, TypeOK, history

\* What the end of an invocation does to what it held.
LEMMA EndFacts ==
  ASSUME HoldInv, NEW w \in Workers, Stop(w) \/ ClaimByKeyNothing(w)
  PROVE  /\ Holding(w)' = {} /\ ~(worker'[w].pc = "mark")
         /\ UNCHANGED <<status, attempts, timer, flushes, delivered>>
         /\ \A v \in Workers : v # w => worker'[v] = worker[v]
<1>0. worker \in [Workers -> Worker]
  BY DEF HoldInv, TypeOK
<1>1. /\ UNCHANGED <<status, attempts, timer, flushes, delivered>>
      /\ worker'[w] = Idle
      /\ \A v \in Workers : v # w => worker'[v] = worker[v]
  BY <1>0 DEF Stop, ClaimByKeyNothing, rows, history
<1> QED
  BY <1>1 DEF Holding, Idle

\* What a minute does.
LEMMA TickFacts ==
  ASSUME HoldInv, Tick
  PROVE  /\ \A v \in Workers : /\ worker'[v].pc = worker[v].pc
                               /\ worker'[v].key = worker[v].key
                               /\ worker'[v].result = worker[v].result
                               /\ Holding(v)' = Holding(v)
                               /\ Holding(v) # {} => worker'[v].age = worker[v].age + 1
         /\ \A k \in Keys : timer'[k] = Down(timer[k])
         /\ UNCHANGED <<status, attempts, flushes, crashes, delivered, lost>>
<1>0. \A v \in Workers : worker[v] \in Worker
  BY DEF HoldInv, TypeOK
<1>1. \A v \in Workers : /\ worker[v].pc = "idle" => worker'[v] = worker[v]
                         /\ worker[v].pc # "idle" => worker'[v] = [worker[v] EXCEPT !.age = @ + 1]
  BY DEF Tick
<1>2. \A v \in Workers : /\ worker'[v].pc = worker[v].pc
                         /\ worker'[v].key = worker[v].key
                         /\ worker'[v].result = worker[v].result
                         /\ worker'[v].queue = worker[v].queue
                         /\ worker[v].pc # "idle" => worker'[v].age = worker[v].age + 1
  BY <1>0, <1>1 DEF Worker
<1>3. \A v \in Workers : Holding(v) # {} => worker[v].pc # "idle"
  BY DEF Holding, HoldInv, QueueShape
<1> QED
  BY <1>2, <1>3 DEF Holding, Tick, history

\* No claim is stale while somebody holds the row.
LEMMA FreshStep == HoldInv /\ HeldIsFresh /\ [Next]_vars => HeldIsFresh'
<1> SUFFICES ASSUME HoldInv, HeldIsFresh, [Next]_vars,
                    NEW u \in Workers, NEW j \in Holding(u)',
                    status'[j] = "sending"
             PROVE  StaleAfter <= timer'[j] + worker'[u].age
  BY DEF HeldIsFresh
<1>0. TypeOK /\ TypeOK'
  BY TypeStep DEF HoldInv
<1>a. \A v \in Workers : worker[v].age \in Nat /\ worker'[v].age \in Nat
  BY <1>0, TypeFacts, QueueAssumption DEF TypeOK, Worker
<1>b. j \in Keys /\ timer[j] \in Nat
  <2>1. j \in Keys
    BY <1>0 DEF Holding, TypeOK, Worker
  <2> QED
    BY <1>0, <2>1, TypeFacts
<1>u. ASSUME j \in Holding(u), worker'[u].age = worker[u].age,
             status'[j] = status[j], timer'[j] = timer[j]
      PROVE  StaleAfter <= timer'[j] + worker'[u].age
  BY <1>u DEF HeldIsFresh
<1>v. ASSUME NEW w \in Workers, u # w, status'[j] = status[j], timer'[j] = timer[j],
             \A v \in Workers : v # w => worker'[v] = worker[v]
      PROVE  StaleAfter <= timer'[j] + worker'[u].age
  <2>1. worker'[u] = worker[u] /\ j \in Holding(u)
    BY <1>v DEF Holding
  <2> QED
    BY <1>u, <1>v, <2>1
<1>1. ASSUME NEW w \in Workers, NEW k \in Keys, Flush(w, k)
      PROVE  StaleAfter <= timer'[j] + worker'[u].age
  <2>1. u # w /\ j # k
    BY <1>1, FlushFacts
  <2> QED
    BY <1>1, <1>b, <1>v, <2>1, FlushFacts
<1>2. ASSUME NEW w \in Workers, ClaimByKey(w) \/ ClaimDue(w)
      PROVE  StaleAfter <= timer'[j] + worker'[u].age
  <2>1. PICK S \in SUBSET Keys :
          /\ SetSending(S) /\ Holding(w)' = S
          /\ \A v \in Workers : v # w => worker'[v] = worker[v]
    BY <1>2, ClaimFacts
  <2>2. CASE j \in S
    <3>1. timer'[j] = StaleAfter
      BY <1>b, <2>1, <2>2 DEF SetSending
    <3> QED
      BY <1>a, <3>1, QueueAssumption
  <2>3. CASE j \notin S
    <3>1. u # w /\ status'[j] = status[j] /\ timer'[j] = timer[j]
      BY <1>b, <2>1, <2>3 DEF SetSending
    <3> QED
      BY <1>v, <2>1, <3>1
  <2> QED
    BY <2>2, <2>3
<1>3. ASSUME NEW w \in Workers, NEW k \in Keys,
             \/ SendOk(w, k)
             \/ \E c \in ErrorClass, arrived \in BOOLEAN : SendError(w, k, c, arrived)
      PROVE  StaleAfter <= timer'[j] + worker'[u].age
  <2>1. /\ Holding(w)' = Holding(w) /\ worker'[w].age = worker[w].age
        /\ UNCHANGED <<status, timer>>
        /\ \A v \in Workers : v # w => worker'[v] = worker[v]
    BY <1>3, SendFacts
  <2> QED
    BY <1>u, <1>v, <2>1
<1>4. ASSUME NEW w \in Workers, MarkSent(w) \/ MarkFailed(w)
      PROVE  StaleAfter <= timer'[j] + worker'[u].age
  <2> DEFINE k == worker[w].key
  <2>1. /\ k \in Keys /\ Holding(w)' = Holding(w) \ {k}
        /\ worker'[w].age = worker[w].age \/ Holding(w)' = {}
        /\ \A v \in Workers : v # w => worker'[v] = worker[v]
        /\ j # k => status'[j] = status[j] /\ timer'[j] = timer[j]
    BY <1>4, <1>b, MarkFacts
  <2>2. status'[k] # "sending"
    BY <1>0, <1>4, <2>1 DEF MarkSent, MarkFailed, TypeOK
  <2> QED
    BY <1>u, <1>v, <2>1, <2>2
<1>5. ASSUME NEW w \in Workers, Stop(w) \/ ClaimByKeyNothing(w)
      PROVE  StaleAfter <= timer'[j] + worker'[u].age
  BY <1>5, <1>v, EndFacts
<1>6. CASE Tick
  <2>1. /\ j \in Holding(u) /\ status[j] = "sending"
        /\ worker'[u].age = worker[u].age + 1 /\ timer'[j] = Down(timer[j])
    BY <1>6, <1>b, TickFacts
  <2>2. StaleAfter <= timer[j] + worker[u].age
    BY <2>1 DEF HeldIsFresh
  <2> QED
    BY <1>a, <1>b, <2>1, <2>2, QueueAssumption DEF Down
<1>7. CASE UNCHANGED vars
  BY <1>7, <1>u DEF vars, rows, Holding
<1> QED
  BY <1>1, <1>2, <1>3, <1>4, <1>5, <1>6, <1>7 DEF Next, Deliver

\* Rows come from flushes, and only the rows have attempts.
LEMMA FlushedStep == HoldInv /\ RowsFlushed /\ [Next]_vars => RowsFlushed'
<1> SUFFICES ASSUME HoldInv, RowsFlushed, [Next]_vars, NEW j \in Keys
             PROVE  /\ flushes'[j] > 0 <=> status'[j] # "absent"
                    /\ flushes'[j] = 0 => attempts'[j] = 0
  BY DEF RowsFlushed
<1>0. /\ TypeOK /\ flushes[j] \in Nat
      /\ flushes[j] > 0 <=> status[j] # "absent"
      /\ flushes[j] = 0 => attempts[j] = 0
  BY TypeFacts DEF HoldInv, RowsFlushed
<1>u. ASSUME flushes'[j] = flushes[j], status'[j] = status[j], attempts'[j] = attempts[j]
      PROVE  /\ flushes'[j] > 0 <=> status'[j] # "absent"
             /\ flushes'[j] = 0 => attempts'[j] = 0
  BY <1>0, <1>u
<1>1. ASSUME NEW w \in Workers, NEW k \in Keys, Flush(w, k)
      PROVE  /\ flushes'[j] > 0 <=> status'[j] # "absent"
             /\ flushes'[j] = 0 => attempts'[j] = 0
  <2>1. CASE j = k
    <3>1. flushes'[j] = flushes[j] + 1 /\ status'[j] # "absent"
      BY <1>1, <2>1, FlushFacts
    <3> QED
      BY <1>0, <3>1
  <2>2. CASE j # k
    BY <1>1, <1>u, <2>2, FlushFacts
  <2> QED
    BY <2>1, <2>2
<1>2. ASSUME NEW w \in Workers, ClaimByKey(w) \/ ClaimDue(w)
      PROVE  /\ flushes'[j] > 0 <=> status'[j] # "absent"
             /\ flushes'[j] = 0 => attempts'[j] = 0
  <2>1. PICK S \in SUBSET Keys :
          SetSending(S) /\ flushes' = flushes /\ \A k \in S : Claimable(k)
    BY <1>2, ClaimFacts
  <2>2. CASE j \in S
    <3>1. flushes[j] > 0 /\ status'[j] = "sending"
      BY <1>0, <2>1, <2>2 DEF Claimable, SetSending
    <3> QED
      BY <1>0, <2>1, <3>1
  <2>3. CASE j \notin S
    BY <1>u, <2>1, <2>3 DEF SetSending
  <2> QED
    BY <2>2, <2>3
<1>3. ASSUME NEW w \in Workers, MarkSent(w) \/ MarkFailed(w)
      PROVE  /\ flushes'[j] > 0 <=> status'[j] # "absent"
             /\ flushes'[j] = 0 => attempts'[j] = 0
  <2>1. /\ worker[w].key \in Holding(w)
        /\ j # worker[w].key => status'[j] = status[j]
        /\ UNCHANGED <<attempts, flushes>>
    BY <1>3, MarkFacts
  <2>2. CASE j = worker[w].key
    <3>1. flushes[j] > 0
      BY <2>1, <2>2 DEF HoldInv, HeldIsSending
    <3>2. status'[j] # "absent"
      BY <1>0, <1>3, <2>2, <3>1 DEF MarkSent, MarkFailed, TypeOK
    <3> QED
      BY <1>0, <2>1, <3>1, <3>2
  <2>3. CASE j # worker[w].key
    BY <1>u, <2>1, <2>3
  <2> QED
    BY <2>2, <2>3
<1>4. ASSUME UNCHANGED <<status, attempts, flushes>>
      PROVE  /\ flushes'[j] > 0 <=> status'[j] # "absent"
             /\ flushes'[j] = 0 => attempts'[j] = 0
  BY <1>4, <1>u
<1> QED
  BY <1>1, <1>2, <1>3, <1>4
     DEF Next, Deliver, ClaimByKeyNothing, Stop, SendOk, SendError, Tick,
         vars, rows, history

\* Whoever may claim a row, nobody holds it, or it is pending.
LEMMA ClaimableIsOpen ==
  ASSUME HoldInv, HeldIsFresh, NEW k \in Keys, Claimable(k)
  PROVE  Open(k)
<1>1. CASE status[k] = "pending"
  BY <1>1 DEF Open
<1>2. CASE status[k] = "sending"
  <2>1. ASSUME NEW w \in Workers, k \in Holding(w) PROVE FALSE
    <3>1. StaleAfter <= timer[k] + worker[w].age /\ timer[k] = 0
      BY <1>2, <2>1 DEF HeldIsFresh, Claimable
    <3>2. worker[w].age \in Nat /\ worker[w].age <= MaxDuration
      BY TypeFacts DEF HoldInv
    <3> QED
      BY <3>1, <3>2, QueueAssumption
  <2> QED
    BY <1>2, <2>1 DEF Open, Holders
<1> QED
  BY <1>1, <1>2 DEF Claimable

\* Both accounts are kept by every step, for every reply.
LEMMA AccountStep == AccountInv /\ [Next]_vars => AccountInv'
<1> SUFFICES ASSUME AccountInv, [Next]_vars
             PROVE  AccountInv'
  OBVIOUS
<1>h. HoldInv /\ HeldIsFresh /\ RowsFlushed
  BY DEF AccountInv
<1>0. TypeOK /\ TypeOK'
  BY <1>h, TypeStep DEF HoldInv
<1> SUFFICES ASSUME NEW j \in Keys
             PROVE  KeySends(j)' /\ KeyAttempts(j)'
  BY <1>h, HoldStep, FreshStep, FlushedStep DEF AccountInv
<1>j. KeySends(j) /\ KeyAttempts(j)
  BY DEF AccountInv
<1>t. /\ delivered[j] \in Nat /\ lost[j] \in Nat /\ flushes[j] \in Nat
      /\ attempts[j] \in Nat /\ crashes \in Nat
      /\ MaxAttempts \in Nat /\ MaxAttempts > 0
  BY <1>0, QueueAssumption DEF TypeOK
<1>k. Token(j) \in {0, 1} /\ Token(j)' \in {0, 1}
  BY DEF Token
<1>1. ASSUME NEW w \in Workers, NEW k \in Keys, Flush(w, k)
      PROVE  KeySends(j)' /\ KeyAttempts(j)'
  <2>1. /\ Holding(w) = {} /\ Holding(w)' = {}
        /\ \A v \in Workers : v # w => worker'[v] = worker[v]
        /\ flushes'[k] = flushes[k] + 1
        /\ j # k => status'[j] = status[j] /\ flushes'[j] = flushes[j]
        /\ UNCHANGED <<attempts, crashes, delivered, lost>>
    BY <1>1, <1>h, FlushFacts
  <2>2. CASE j # k
    BY <1>0, <1>j, <1>t, <2>1, <2>2, KeyFrame
  <2>3. CASE j = k
    <3>1. w \notin Unsent(j) /\ w \notin Unsent(j)'
      BY <2>1, OthersHold
    <3>2. KeySends(j)'
      BY <1>0, <1>j, <1>t, <1>k, <2>1, <2>3, <3>1, KeySendsStep
    <3>3. KeyAttempts(j)'
      <4>1. flushes[j] = 0 => attempts[j] = 0
        BY <1>h DEF RowsFlushed
      <4>2. flushes[j] > 0 =>
              attempts[j] + Token(j) <= MaxAttempts + crashes + flushes[j] - 1
        BY <1>j DEF KeyAttempts
      <4>3. attempts[j] + Token(j)' <= MaxAttempts + crashes + flushes[j]
        BY <1>t, <1>k, <4>1, <4>2
      <4> QED
        BY <1>t, <1>k, <2>1, <2>3, <4>3 DEF KeyAttempts
    <3> QED
      BY <3>2, <3>3
  <2> QED
    BY <2>2, <2>3
<1>2. ASSUME NEW w \in Workers, ClaimByKey(w) \/ ClaimDue(w)
      PROVE  KeySends(j)' /\ KeyAttempts(j)'
  <2>1. PICK S \in SUBSET Keys :
           /\ \A k \in S : Claimable(k)
           /\ SetSending(S)
           /\ UNCHANGED <<flushes, crashes, delivered, lost>>
           /\ Holding(w) = {} /\ Holding(w)' = S /\ worker'[w].pc = "deliver"
           /\ \A v \in Workers : v # w => worker'[v] = worker[v]
    BY <1>2, <1>h, ClaimFacts
  <2>2. CASE j \notin S
    <3>1. status'[j] = status[j] /\ attempts'[j] = attempts[j]
      BY <2>1, <2>2 DEF SetSending
    <3> QED
      BY <1>0, <1>j, <1>t, <2>1, <2>2, <3>1, KeyFrame
  <2>3. CASE j \in S
    <3>1. status'[j] = "sending" /\ attempts'[j] = attempts[j] + 1
      BY <2>1, <2>3 DEF SetSending
    <3>2. w \notin Unsent(j) /\ w \in Holders(j)'
      BY <2>1, <2>3, OthersHold
    <3>3. Token(j) = 1
      BY <1>h, <2>1, <2>3, ClaimableIsOpen DEF Token
    <3>4. Token(j)' = 0
      BY <3>1, <3>2 DEF Token, Open
    <3>5. KeySends(j)'
      <4>1. /\ delivered'[j] = delivered[j] /\ lost'[j] = lost[j]
            /\ flushes'[j] = flushes[j]
        BY <2>1
      <4>2. (IF w \in Unsent(j)' THEN 1 ELSE 0) \in {0, 1}
        OBVIOUS
      <4>3. delivered'[j] + (IF w \in Unsent(j)' THEN 1 ELSE 0) + Token(j)'
              + flushes[j] + lost[j]
            <= delivered[j] + (IF w \in Unsent(j) THEN 1 ELSE 0) + Token(j)
              + flushes'[j] + lost'[j]
        BY <1>t, <3>2, <3>3, <3>4, <4>1, <4>2
      <4> QED
        BY <1>0, <1>j, <2>1, <4>3, KeySendsStep
    <3>6. KeyAttempts(j)'
      BY <1>j, <1>t, <2>1, <3>1, <3>3, <3>4 DEF KeyAttempts
    <3> QED
      BY <3>5, <3>6
  <2> QED
    BY <2>2, <2>3
<1>3. ASSUME NEW w \in Workers, NEW k \in Keys, SendOk(w, k)
      PROVE  KeySends(j)' /\ KeyAttempts(j)'
  <2>1. /\ worker[w].pc = "deliver" /\ k \in worker[w].queue
        /\ worker'[w].pc = "mark" /\ worker'[w].key = k /\ worker'[w].result = "ok"
        /\ Holding(w)' = Holding(w)
        /\ UNCHANGED <<status, attempts, timer, flushes, crashes>>
        /\ \A v \in Workers : v # w => worker'[v] = worker[v]
    BY <1>3, <1>h, SendFacts
  <2>2. /\ delivered'[k] = delivered[k] + 1 /\ lost' = lost
        /\ j # k => delivered'[j] = delivered[j]
    BY <1>0, <1>3 DEF SendOk, TypeOK
  <2>3. CASE j # k
    <3>1. ~SentIt(w, j) /\ ~SentIt(w, j)'
      BY <2>1, <2>3 DEF SentIt
    <3> QED
      BY <1>0, <1>j, <1>t, <2>1, <2>2, <2>3, <3>1, KeyFrame
  <2>4. CASE j = k
    <3>1. w \in Unsent(j) /\ w \notin Unsent(j)'
      BY <2>1, <2>4, OthersHold DEF SentIt, Holding
    <3>2. Holders(j)' = Holders(j)
      <4>1. /\ Holders(j)' \ {w} = Holders(j) \ {w}
            /\ w \in Holders(j)' <=> w \in Holders(j)
        BY <2>1, OthersHold
      <4> QED
        BY <4>1
    <3>3. Token(j)' = Token(j)
      BY <2>1, <3>2 DEF Token, Open
    <3>4. KeySends(j)'
      BY <1>0, <1>j, <1>t, <1>k, <2>1, <2>2, <2>4, <3>1, <3>3, KeySendsStep
    <3>5. KeyAttempts(j)'
      BY <1>j, <2>1, <3>3 DEF KeyAttempts
    <3> QED
      BY <3>4, <3>5
  <2> QED
    BY <2>3, <2>4
<1>4. ASSUME NEW w \in Workers, NEW k \in Keys, NEW c \in ErrorClass,
             NEW arrived \in BOOLEAN, SendError(w, k, c, arrived)
      PROVE  KeySends(j)' /\ KeyAttempts(j)'
  <2>1. /\ worker[w].pc = "deliver" /\ worker'[w].pc = "mark"
        /\ Holding(w)' = Holding(w)
        /\ UNCHANGED <<status, attempts, timer, flushes, crashes>>
        /\ \A v \in Workers : v # w => worker'[v] = worker[v]
    BY <1>4, <1>h, SendFacts
  <2>2. worker'[w].result # "ok"
    <3>1. worker \in [Workers -> Worker] /\ worker[w] \in Worker
      BY <1>0 DEF TypeOK
    <3>2. worker'[w].result = IF IsRetryable(c) THEN "retryable" ELSE "fatal"
      BY <1>4, <3>1 DEF SendError, Worker
    <3> QED
      BY <3>2
  <2>3. \/ delivered'[j] = delivered[j] /\ lost'[j] = lost[j]
        \/ delivered'[j] = delivered[j] + 1 /\ lost'[j] = lost[j] + 1
    BY <1>0, <1>4 DEF SendError, TypeOK
  <2>4. ~SentIt(w, j) /\ ~SentIt(w, j)'
    BY <2>1, <2>2 DEF SentIt
  <2>5. /\ w \in Unsent(j)' <=> w \in Unsent(j)
        /\ Holders(j)' \ {w} = Holders(j) \ {w}
        /\ w \in Holders(j)' <=> w \in Holders(j)
    BY <2>1, <2>4, OthersHold
  <2>6. Holders(j)' = Holders(j)
    BY <2>5
  <2>7. Token(j)' = Token(j)
    BY <2>1, <2>6 DEF Token, Open
  <2>8. KeySends(j)'
    BY <1>0, <1>j, <1>t, <1>k, <2>1, <2>3, <2>5, <2>7, KeySendsStep
  <2>9. KeyAttempts(j)'
    BY <1>j, <2>1, <2>7 DEF KeyAttempts
  <2> QED
    BY <2>8, <2>9
<1>5. ASSUME NEW w \in Workers, MarkSent(w) \/ MarkFailed(w)
      PROVE  KeySends(j)' /\ KeyAttempts(j)'
  <2> DEFINE k == worker[w].key
  <2>1. /\ worker[w].pc = "mark" /\ k \in Holding(w) /\ k \in Keys
        /\ Holding(w)' = Holding(w) \ {k} /\ worker'[w].pc # "mark"
        /\ \A v \in Workers : v # w => worker'[v] = worker[v]
        /\ j # k => status'[j] = status[j]
        /\ UNCHANGED <<attempts, flushes, crashes, delivered, lost>>
    BY <1>5, <1>h, MarkFacts
  <2>2. CASE j # k
    <3>1. ~SentIt(w, j) /\ ~SentIt(w, j)'
      BY <2>1, <2>2 DEF SentIt
    <3> QED
      BY <1>0, <1>j, <1>t, <2>1, <2>2, <3>1, KeyFrame
  <2>3. CASE j = k
    <3>1. w \in Holders(j) /\ w \notin Unsent(j)' /\ (w \in Unsent(j) <=> ~SentIt(w, j))
      BY <2>1, <2>3, OthersHold
    <3>2. CASE MarkSent(w)
      <4>1. status'[j] = "sent"
        BY <1>0, <2>1, <2>3, <3>2 DEF MarkSent, TypeOK
      <4>2. Token(j)' = 0
        BY <4>1 DEF Token, Open
      <4>3. KeySends(j)'
        BY <1>0, <1>j, <1>t, <1>k, <2>1, <3>1, <4>2, KeySendsStep
      <4>4. KeyAttempts(j)'
        BY <1>j, <1>k, <1>t, <2>1, <4>2 DEF KeyAttempts
      <4> QED
        BY <4>3, <4>4
    <3>3. CASE MarkFailed(w) /\ status[j] = "sending"
      <4>1. /\ status'[j] = IF HasRetry(w, j) THEN "pending" ELSE "failed"
            /\ worker[w].result # "ok"
        BY <1>0, <2>1, <2>3, <3>3 DEF MarkFailed, TypeOK
      <4>2. w \in Unsent(j) /\ Token(j) = 0
        BY <3>1, <3>3, <4>1 DEF SentIt, Token, Open
      <4>3. KeySends(j)'
        BY <1>0, <1>j, <1>t, <1>k, <2>1, <3>1, <4>2, KeySendsStep
      <4>4. KeyAttempts(j)'
        <5>1. CASE HasRetry(w, j)
          <6>1. attempts[j] < MaxAttempts
            BY <5>1 DEF HasRetry
          <6>2. attempts[j] + Token(j)' <= MaxAttempts
            BY <1>t, <1>k, <6>1
          <6> QED
            BY <1>t, <1>k, <2>1, <6>2 DEF KeyAttempts
        <5>2. CASE ~HasRetry(w, j)
          <6>1. Token(j)' = 0
            BY <4>1, <5>2 DEF Token, Open
          <6> QED
            BY <1>j, <2>1, <4>2, <6>1 DEF KeyAttempts
        <5> QED
          BY <5>1, <5>2
      <4> QED
        BY <4>3, <4>4
    <3>4. CASE MarkFailed(w) /\ status[j] # "sending"
      <4>1. status'[j] = status[j]
        BY <2>3, <3>4 DEF MarkFailed
      <4>2. Token(j)' = Token(j)
        BY <3>4, <4>1 DEF Token, Open
      <4>3. KeySends(j)'
        BY <1>0, <1>j, <1>t, <1>k, <2>1, <3>1, <4>2, KeySendsStep
      <4>4. KeyAttempts(j)'
        BY <1>j, <2>1, <4>2 DEF KeyAttempts
      <4> QED
        BY <4>3, <4>4
    <3> QED
      BY <1>5, <3>2, <3>3, <3>4
  <2> QED
    BY <2>2, <2>3
<1>6. ASSUME NEW w \in Workers, Stop(w)
      PROVE  KeySends(j)' /\ KeyAttempts(j)'
  <2>1. /\ Holding(w)' = {} /\ worker'[w].pc # "mark"
        /\ UNCHANGED <<status, attempts, timer, flushes, delivered>>
        /\ \A v \in Workers : v # w => worker'[v] = worker[v]
    BY <1>6, <1>h, EndFacts
  <2>2. /\ crashes' = crashes + 1
        /\ lost'[j] = IF SentIt(w, j) THEN lost[j] + 1 ELSE lost[j]
    BY <1>0, <1>6 DEF Stop, SentIt, TypeOK
  <2>3. CASE j \notin Holding(w)
    <3>1. ~SentIt(w, j)
      BY <2>3 DEF SentIt, Holding
    <3> QED
      BY <1>0, <1>j, <1>t, <2>1, <2>2, <2>3, <3>1, KeyFrame
  <2>4. CASE j \in Holding(w)
    <3>1. w \notin Unsent(j)' /\ (w \in Unsent(j) <=> ~SentIt(w, j))
      BY <2>1, <2>4, OthersHold
    <3>2. KeySends(j)'
      <4>1. CASE SentIt(w, j)
        BY <1>0, <1>j, <1>t, <1>k, <2>1, <2>2, <3>1, <4>1, KeySendsStep
      <4>2. CASE ~SentIt(w, j)
        BY <1>0, <1>j, <1>t, <1>k, <2>1, <2>2, <3>1, <4>2, KeySendsStep
      <4> QED
        BY <4>1, <4>2
    <3>3. KeyAttempts(j)'
      BY <1>j, <1>k, <1>t, <2>1, <2>2 DEF KeyAttempts
    <3> QED
      BY <3>2, <3>3
  <2> QED
    BY <2>3, <2>4
<1>7. ASSUME NEW w \in Workers, ClaimByKeyNothing(w)
      PROVE  KeySends(j)' /\ KeyAttempts(j)'
  <2>1. /\ Holding(w)' = {} /\ Holding(w) = {}
        /\ UNCHANGED <<status, attempts, flushes, delivered>>
        /\ \A v \in Workers : v # w => worker'[v] = worker[v]
    BY <1>7, <1>h, EndFacts DEF ClaimByKeyNothing, Holding, HoldInv, QueueShape
  <2>2. UNCHANGED <<crashes, lost>>
    BY <1>7 DEF ClaimByKeyNothing, history
  <2> QED
    BY <1>0, <1>j, <1>t, <2>1, <2>2, KeyFrame
<1>8. ASSUME \A v \in Workers : /\ worker'[v].pc = worker[v].pc
                                /\ worker'[v].key = worker[v].key
                                /\ worker'[v].result = worker[v].result
                                /\ Holding(v)' = Holding(v),
             UNCHANGED <<status, attempts, flushes, crashes, delivered, lost>>
      PROVE  KeySends(j)' /\ KeyAttempts(j)'
  <2>1. Holders(j)' = Holders(j) /\ Unsent(j)' = Unsent(j)
    BY <1>8 DEF Holders, Unsent, SentIt
  <2>2. Token(j)' = Token(j)
    BY <1>8, <2>1 DEF Token, Open
  <2> QED
    BY <1>8, <1>j, <2>1, <2>2 DEF KeySends, KeyAttempts
<1>9. CASE Tick
  BY <1>8, <1>9, <1>h, TickFacts
<1>10. CASE UNCHANGED vars
  BY <1>8, <1>10 DEF vars, rows, history, Holding
<1> QED
  BY <1>1, <1>2, <1>3, <1>4, <1>5, <1>6, <1>7, <1>9, <1>10 DEF Next, Deliver

\* The accounts of the empty queue balance.
LEMMA AccountInit == Init => AccountInv
<1> SUFFICES ASSUME Init PROVE AccountInv
  OBVIOUS
<1>1. \A w \in Workers : Holding(w) = {}
  BY DEF Init, Idle, Holding
<1>2. HeldIsFresh /\ RowsFlushed
  BY <1>1 DEF Init, HeldIsFresh, RowsFlushed
<1>3. ASSUME NEW k \in Keys PROVE KeySends(k) /\ KeyAttempts(k)
  <2>1. Unsent(k) = {} /\ Token(k) = 0
    BY <1>1 DEF Init, Unsent, Holders, Token, Open
  <2>2. IsFiniteSet({}) /\ Cardinality({}) = 0
    BY FS_EmptySet
  <2> QED
    BY <2>1, <2>2 DEF Init, KeySends, KeyAttempts
<1> QED
  BY <1>2, <1>3, HoldInit DEF AccountInv

LEMMA Accounts == Spec => []AccountInv
BY AccountInit, AccountStep, PTL DEF Spec

\* The user gets a reply no more often than it was flushed and a send of it
\* was lost from the record, whatever the number of invocations that claim,
\* overtake one another and crash (send_message, mark_outbound_sent,
\* mark_outbound_failed).
THEOREM EveryRepeatExplained == Spec => []RepeatsExplained
<1>1. AccountInv => RepeatsExplained
  <2> SUFFICES ASSUME AccountInv, NEW k \in Keys
               PROVE  delivered[k] <= flushes[k] + lost[k]
    BY DEF RepeatsExplained
  <2>1. KeySends(k) /\ Cardinality(Unsent(k)) \in Nat /\ Token(k) \in Nat
    BY FS_CardinalityType DEF AccountInv, KeySends, Token
  <2>2. delivered[k] \in Nat /\ flushes[k] \in Nat /\ lost[k] \in Nat
    BY QueueAssumption DEF AccountInv, HoldInv, TypeOK
  <2> QED
    BY <2>1, <2>2 DEF KeySends
<1> QED
  BY <1>1, Accounts, PTL

\* A row is claimed more than max_attempts times only as often as invocations
\* stopped midway or its key was flushed again, although neither claim tests
\* attempt_count.
THEOREM RetryBudget == Spec => []AttemptsPaidFor
<1>1. AccountInv => AttemptsPaidFor
  <2> SUFFICES ASSUME AccountInv, NEW k \in Keys, flushes[k] > 0
               PROVE  attempts[k] <= MaxAttempts + crashes + flushes[k] - 1
    BY DEF AttemptsPaidFor
  <2>1. attempts[k] + Token(k) <= MaxAttempts + crashes + flushes[k] - 1
    BY DEF AccountInv, KeyAttempts
  <2>2. /\ attempts[k] \in Nat /\ flushes[k] \in Nat /\ crashes \in Nat
        /\ Token(k) \in Nat
    BY QueueAssumption DEF AccountInv, HoldInv, TypeOK, Token
  <2> QED
    BY <2>1, <2>2, QueueAssumption
<1> QED
  BY <1>1, Accounts, PTL

-----------------------------------------------------------------------------
(***************************************************************************)
(* The queue implements ReplyDelivery.                                     *)
(***************************************************************************)

\* What a row's status says of its reply, before and after a step.
LEMMA ReplyOf ==
  ASSUME TypeOK, TypeOK', NEW k \in Keys
  PROVE  /\ status[k] = "absent" <=> Reply[k] = "none"
         /\ status[k] \in {"pending", "sending"} <=> Reply[k] = "queued"
         /\ status[k] = "sent" <=> Reply[k] = "sent"
         /\ status[k] = "failed" <=> Reply[k] = "failed"
         /\ status'[k] = "absent" <=> Reply'[k] = "none"
         /\ status'[k] \in {"pending", "sending"} <=> Reply'[k] = "queued"
         /\ status'[k] = "sent" <=> Reply'[k] = "sent"
         /\ status'[k] = "failed" <=> Reply'[k] = "failed"
BY SMT DEF Reply, TypeOK, Statuses

\* A step that changes the status of no row but k changes no reply but k's.
LEMMA ReplyStep ==
  ASSUME TypeOK, TypeOK', NEW k \in Keys,
         \A j \in Keys : j # k => status'[j] = status[j]
  PROVE  Reply' = [Reply EXCEPT ![k] = Reply'[k]]
<1>1. \A j \in Keys : j # k => Reply'[j] = Reply[j]
  BY DEF Reply
<1>2. Reply = [j \in Keys |-> Reply[j]] /\ Reply' = [j \in Keys |-> Reply'[j]]
  BY DEF Reply
<1> QED
  BY <1>1, <1>2

\* Every step of the queue is a step of ReplyDelivery or leaves the replies.
LEMMA DeliveryStep == AccountInv /\ [Next]_vars => [Delivery!Next]_Reply
<1> SUFFICES ASSUME AccountInv, [Next]_vars
             PROVE  Delivery!Next \/ Reply' = Reply
  OBVIOUS
<1>h. HoldInv /\ RowsFlushed
  BY DEF AccountInv
<1>0. TypeOK /\ TypeOK'
  BY <1>h, TypeStep DEF HoldInv
<1>u. ASSUME status' = status PROVE Reply' = Reply
  BY <1>u DEF Reply
<1>s. ASSUME NEW k \in Keys, \A j \in Keys : j # k => status'[j] = status[j]
      PROVE  /\ Reply' = [Reply EXCEPT ![k] = Reply'[k]]
             /\ Reply'[k] = Reply[k] => Reply' = Reply
  <2>1. Reply' = [Reply EXCEPT ![k] = Reply'[k]]
    BY <1>0, <1>s, ReplyStep
  <2>2. Reply = [j \in Keys |-> Reply[j]]
    BY DEF Reply
  <2> QED
    BY <2>1, <2>2
<1>1. ASSUME NEW w \in Workers, NEW k \in Keys, Flush(w, k)
      PROVE  Delivery!Next \/ Reply' = Reply
  <2>1. /\ status'[k] = IF status[k] = "sent" THEN "sent" ELSE "pending"
        /\ \A j \in Keys : j # k => status'[j] = status[j]
    BY <1>1, <1>h, FlushFacts
  <2>2. CASE status[k] = "sent"
    <3>1. Reply[k] = "sent" /\ Reply'[k] = "sent"
      BY <1>0, <2>1, <2>2, ReplyOf
    <3> QED
      BY <1>s, <2>1, <3>1
  <2>3. CASE status[k] \in {"pending", "sending"}
    <3>1. Reply[k] = "queued" /\ Reply'[k] = "queued"
      BY <1>0, <2>1, <2>3, ReplyOf
    <3> QED
      BY <1>s, <2>1, <3>1
  <2>4. CASE status[k] \in {"absent", "failed"}
    <3>1. Reply[k] \in {"none", "failed"} /\ Reply'[k] = "queued"
      BY <1>0, <2>1, <2>4, ReplyOf
    <3>2. Delivery!Queue(k)
      BY <1>s, <2>1, <3>1 DEF Delivery!Queue
    <3> QED
      BY <3>2 DEF Delivery!Next
  <2> QED
    BY <1>0, <2>2, <2>3, <2>4 DEF TypeOK, Statuses
<1>2. ASSUME NEW w \in Workers, ClaimByKey(w) \/ ClaimDue(w)
      PROVE  Reply' = Reply
  <2>1. PICK S \in SUBSET Keys : SetSending(S) /\ \A k \in S : Claimable(k)
    BY <1>2, <1>h, ClaimFacts
  <2>2. \A k \in Keys :
          \/ status'[k] = status[k]
          \/ status'[k] = "sending" /\ status[k] \in {"pending", "sending"}
    BY <2>1 DEF SetSending, Claimable
  <2>3. \A k \in Keys : Reply'[k] = Reply[k]
    <3> SUFFICES ASSUME NEW k \in Keys PROVE Reply'[k] = Reply[k]
      OBVIOUS
    <3>1. CASE status'[k] = status[k]
      BY <3>1 DEF Reply
    <3>2. CASE status'[k] = "sending" /\ status[k] \in {"pending", "sending"}
      BY <1>0, <3>2, ReplyOf
    <3> QED
      BY <2>2, <3>1, <3>2
  <2> QED
    BY <2>3 DEF Reply
<1>3. ASSUME NEW w \in Workers, MarkSent(w) \/ MarkFailed(w)
      PROVE  Delivery!Next \/ Reply' = Reply
  <2> DEFINE k == worker[w].key
  <2>1. /\ k \in Keys /\ k \in Holding(w)
        /\ \A j \in Keys : j # k => status'[j] = status[j]
    BY <1>3, <1>h, MarkFacts
  <2>2. status[k] # "absent"
    BY <1>h, <2>1 DEF HoldInv, HeldIsSending, RowsFlushed
  <2>3. \/ status'[k] = "sent"
        \/ status[k] = "sending" /\ status'[k] \in {"pending", "failed"}
        \/ status'[k] = status[k]
    BY <1>0, <1>3, <2>1 DEF MarkSent, MarkFailed, TypeOK
  <2> HIDE DEF k
  <2>4. CASE status'[k] = status[k] \/ (status[k] = "sending" /\ status'[k] = "pending")
    <3>1. Reply'[k] = Reply[k]
      <4>1. CASE status'[k] = status[k]
        BY <2>1, <4>1 DEF Reply
      <4>2. CASE status[k] = "sending" /\ status'[k] = "pending"
        BY <1>0, <2>1, <4>2, ReplyOf
      <4> QED
        BY <2>4, <4>1, <4>2
    <3> QED
      BY <1>s, <2>1, <3>1
  <2>5. CASE /\ status[k] \in {"pending", "sending"}
             /\ status'[k] \in {"sent", "failed"}
    <3>1. Reply[k] = "queued" /\ Reply'[k] \in {"sent", "failed"}
      BY <1>0, <2>1, <2>5, ReplyOf
    <3>2. Delivery!Settle(k)
      BY <1>s, <2>1, <3>1 DEF Delivery!Settle
    <3> QED
      BY <2>1, <3>2 DEF Delivery!Next
  <2>6. CASE status[k] = "failed" /\ status'[k] = "sent"
    <3>1. Reply[k] = "failed" /\ Reply'[k] = "sent"
      BY <1>0, <2>1, <2>6, ReplyOf
    <3>2. Delivery!SentLate(k)
      BY <1>s, <2>1, <3>1 DEF Delivery!SentLate
    <3> QED
      BY <2>1, <3>2 DEF Delivery!Next
  <2> QED
    BY <1>0, <2>1, <2>2, <2>3, <2>4, <2>5, <2>6 DEF TypeOK, Statuses
<1> QED
  BY <1>u, <1>1, <1>2, <1>3
     DEF Next, Deliver, ClaimByKeyNothing, Stop, SendOk, SendError, Tick, vars, rows

\* The queue implements the safety part of ReplyDelivery: a reply is queued
\* only when it is new or was given up, a queued one is sent or given up by
\* somebody who holds it, and what is sent stays sent.  (That it is settled in
\* the end is ImplementsDelivery, which TLC checks.)
THEOREM QueueImplementsDelivery == Spec => Delivery!Spec
<1>1. Init => Delivery!Init
  BY DEF Init, Delivery!Init, Reply
<1> QED
  BY <1>1, Accounts, DeliveryStep, PTL DEF Spec, Delivery!Spec
=============================================================================
