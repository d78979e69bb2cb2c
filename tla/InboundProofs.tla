---------------------------- MODULE InboundProofs ----------------------------
(***************************************************************************)
(* Theorems about Inbound, for any number of messages, handlers, plans and *)
(* deliveries, and any durations that keep the order of TimeAssumption.    *)
(***************************************************************************)
EXTENDS Inbound, SequenceTheorems, TLAPS

-----------------------------------------------------------------------------
(***************************************************************************)
(* Type correctness.                                                       *)
(***************************************************************************)

\* The defaults of a handler's locals are of their types.
LEMMA IdleType == Idle \in Run
<1>1. AnyMessage \in Messages
  BY MessageAssumption DEF AnyMessage
<1>2. AnyPlan \in Plans
  BY MessageAssumption DEF AnyPlan
<1>3. 0 \in Times
  BY TimeAssumption DEF Times
<1>4. NoConf \in ConfRow
  BY <1>1, <1>2 DEF NoConf, ConfRow
<1> QED
  BY <1>1, <1>2, <1>3, <1>4 DEF Idle, Run, Keys, Replies

\* The dedup id of a delivery is a key of processed_messages.
LEMMA DedupKeyType ==
  ASSUME NEW m \in Messages, NEW t \in Times
  PROVE  DedupKey(m, t) \in Keys
<1>1. 0 \in Times
  BY TimeAssumption DEF Times
<1> QED
  BY <1>1 DEF DedupKey, Keys

\* A handler that returns leaves every local at its default.
LEMMA ReturnType ==
  ASSUME TypeOK, NEW h \in Handlers, Return(h)
  PROVE  run' \in [Handlers -> Run]
BY IdleType DEF TypeOK, Return

\* The empty database is well typed.
LEMMA TypeInit == Init => TypeOK
<1> SUFFICES ASSUME Init PROVE TypeOK
  OBVIOUS
<1>1. 0 \in Times /\ 0 \in 0..MaxDeliveries
  BY TimeAssumption DEF Times
<1> QED
  BY <1>1, IdleType DEF Init, TypeOK, NoRow, ProcessedRow

\* Every step of the specification keeps every variable in its type.
LEMMA TypeStep == TypeOK /\ [Next]_vars => TypeOK'
<1> SUFFICES ASSUME TypeOK, [Next]_vars PROVE TypeOK'
  OBVIOUS
<1> USE DEF TypeOK, tables
<1>1. ASSUME NEW h \in Handlers, NEW m \in Messages, Claim(h, m) PROVE TypeOK'
  <2> DEFINE k == DedupKey(m, now)
  <2>1. k \in Keys
    BY DedupKeyType
  <2>2. now \in Nat /\ deliveries' \in 0..MaxDeliveries
    BY <1>1, TimeAssumption DEF Claim, Times
  <2>3. processed' \in [Keys -> ProcessedRow]
    BY <1>1, <2>1, <2>2 DEF Claim, ProcessedRow
  <2>4. [Idle EXCEPT !.pc = IF m \in YesMessages \cup NoMessages THEN "lookup" ELSE "agent",
                     !.msg = m, !.key = k, !.started = now] \in Run
    BY IdleType, <2>1 DEF Run
  <2>5. run' \in [Handlers -> Run]
    BY <1>1, <2>4 DEF Claim
  <2> QED
    BY <1>1, <2>2, <2>3, <2>5 DEF Claim
<1>2. ASSUME NEW h \in Handlers, NEW c \in confs, Lookup(h, c) PROVE TypeOK'
  <2>1. c \in ConfRow /\ c.plan \in Plans
    BY DEF ConfRow
  <2>2. run[h] \in Run
    OBVIOUS
  <2>3. run' \in [Handlers -> Run]
    BY <1>2, <2>1, <2>2 DEF Lookup, Run, Replies
  <2> QED
    BY <1>2, <2>3 DEF Lookup
<1>3. ASSUME NEW h \in Handlers, LookupNothing(h) PROVE TypeOK'
  <2>1. run' \in [Handlers -> Run]
    BY <1>3 DEF LookupNothing, Run
  <2> QED
    BY <1>3, <2>1 DEF LookupNothing
<1>4. ASSUME NEW h \in Handlers, NEW p \in Plans, RunAgent(h, p) PROVE TypeOK'
  <2>1. ReplyTo(Risk[p]) \in Replies
    BY RiskAssumption DEF ReplyTo, Replies
  <2>2. run' \in [Handlers -> Run]
    BY <1>4, <2>1 DEF RunAgent, Run
  <2> QED
    BY <1>4, <2>2 DEF RunAgent
<1>5. ASSUME NEW h \in Handlers, AgentFails(h) PROVE TypeOK'
  BY <1>5, ReturnType DEF AgentFails
<1>6. ASSUME NEW h \in Handlers, Park(h) PROVE TypeOK'
  <2>1. run' \in [Handlers -> Run]
    BY <1>6 DEF Park, Run
  <2>2. now + ConfirmTtl \in Nat
    BY TimeAssumption DEF Times
  <2>3. run[h].msg \in Messages /\ run[h].plan \in Plans
    BY DEF Run
  <2>4. confs' \in SUBSET ConfRow /\ confSeq' \in Nat
    BY <1>6, <2>2, <2>3 DEF Park, ConfRow
  <2> QED
    BY <1>6, <2>1, <2>4 DEF Park
<1>7. ASSUME NEW h \in Handlers, Cancel(h) PROVE TypeOK'
  <2>1. run' \in [Handlers -> Run]
    BY <1>7 DEF Cancel, Run
  <2>2. confs' \in SUBSET ConfRow
    BY <1>7 DEF Cancel, ConfRow
  <2> QED
    BY <1>7, <2>1, <2>2 DEF Cancel
<1>8. ASSUME NEW h \in Handlers, FlushCommit(h) PROVE TypeOK'
  <2> DEFINE r == run[h]
             k == r.key
             answers == r.reply \in {"done", "cancelled"}
             e == [key |-> k, reply |-> r.reply, plan |-> r.plan, at |-> now,
                   src |-> IF answers THEN r.conf.src ELSE r.msg,
                   conf |-> IF answers THEN r.conf.id ELSE 0,
                   expires |-> IF answers THEN r.conf.expires ELSE 0]
  <2>1. /\ k \in Keys /\ r.reply \in Replies /\ r.plan \in Plans
        /\ r.msg \in Messages /\ r.conf \in ConfRow
    BY DEF Run
  <2>2. r.conf.src \in Messages /\ r.conf.id \in Nat /\ r.conf.expires \in Nat
    BY <2>1 DEF ConfRow
  <2>3. now \in Nat
    BY TimeAssumption DEF Times
  <2>4. e \in Commit
    BY <2>1, <2>2, <2>3 DEF Commit
  <2>5. commits' = Append(commits, e)
    BY <1>8 DEF FlushCommit
  <2>6. commits' \in Seq(Commit)
    BY <2>4, <2>5
  <2>7. confs' \in SUBSET ConfRow
    BY <1>8 DEF FlushCommit, ConsumeRow, ConfRow
  <2>8. processed' \in [Keys -> ProcessedRow]
    BY <1>8, <2>1, <2>3 DEF FlushCommit, ProcessedRow
  <2>9. outbox' \in [Keys -> OutboxRow \cup {NoReply}]
    BY <1>8, <2>1 DEF FlushCommit, OutboxRow
  <2>10. run' \in [Handlers -> Run]
    BY <1>8, ReturnType DEF FlushCommit
  <2> QED
    BY <1>8, <2>6, <2>7, <2>8, <2>9, <2>10 DEF FlushCommit
<1>9. ASSUME NEW h \in Handlers, FlushSuperseded(h) PROVE TypeOK'
  BY <1>9, ReturnType DEF FlushSuperseded
<1>10. ASSUME NEW h \in Handlers, Abort(h) PROVE TypeOK'
  BY <1>10, ReturnType DEF Abort
<1>11. CASE ReapProcessed
  <2>1. processed' \in [Keys -> ProcessedRow]
    BY <1>11 DEF ReapProcessed, NoRow, ProcessedRow
  <2> QED
    BY <1>11, <2>1 DEF ReapProcessed
<1>12. CASE ReapConfirmations
  BY <1>12 DEF ReapConfirmations
<1>13. CASE Tick
  BY <1>13, TimeAssumption DEF Tick, Times
<1>14. CASE UNCHANGED vars
  BY <1>14 DEF vars
<1> QED
  BY <1>1, <1>2, <1>3, <1>4, <1>5, <1>6, <1>7, <1>8, <1>9, <1>10, <1>11,
     <1>12, <1>13, <1>14 DEF Next, HandlerStep

\* Every reachable state of the tables and of the handlers has its type: the
\* check constraints of the tables hold, and no handler has a local unset.
THEOREM TypeCorrect == Spec => []TypeOK
BY TypeInit, TypeStep, PTL DEF Spec

-----------------------------------------------------------------------------
(***************************************************************************)
(* The marker: one flush per dedup id and retention period.                *)
(*                                                                         *)
(* CommitsApart is not inductive: it says nothing of the marker that keeps *)
(* the next flush from committing.  MarkerHolds adds it.                   *)
(***************************************************************************)

\* A flush not older than the retention period still has its marker completed,
\* with a completion time that is not before that flush.
MarkerHolds ==
  \A i \in 1..Len(commits) :
    LET e == commits[i] IN
    /\ e.at <= now
    /\ now <= e.at + KeepCompleted
         => /\ processed[e.key].status = "completed"
            /\ e.at <= processed[e.key].completedAt

MarkerInv == TypeOK /\ MarkerHolds /\ CommitsApart

\* What the other lemmas need of the types.
LEMMA TypeFacts ==
  ASSUME TypeOK
  PROVE  /\ now \in Nat
         /\ \A k \in Keys : /\ processed[k].claimedAt \in Nat
                            /\ processed[k].completedAt \in Nat
         /\ Len(commits) \in Nat
         /\ \A i \in 1..Len(commits) : /\ commits[i].key \in Keys
                                       /\ commits[i].at \in Nat
                                       /\ commits[i].conf \in Nat
         /\ \A h \in Handlers : /\ run[h].key \in Keys
                                /\ run[h].started \in Nat
                                /\ run[h].conf \in ConfRow
<1>1. now \in Nat
  BY TimeAssumption DEF TypeOK, Times
<1>2. \A k \in Keys : processed[k].claimedAt \in Nat /\ processed[k].completedAt \in Nat
  BY DEF TypeOK, ProcessedRow
<1>3. Len(commits) \in Nat /\ \A i \in 1..Len(commits) : commits[i] \in Commit
  BY DEF TypeOK
<1>4. \A i \in 1..Len(commits) :
        commits[i].key \in Keys /\ commits[i].at \in Nat /\ commits[i].conf \in Nat
  BY <1>3 DEF Commit
<1>5. \A h \in Handlers : run[h] \in Run
  BY DEF TypeOK
<1>6. \A h \in Handlers : run[h].key \in Keys /\ run[h].started \in Nat /\ run[h].conf \in ConfRow
  BY <1>5, TimeAssumption DEF Run, Times
<1> QED
  BY <1>1, <1>2, <1>3, <1>4, <1>6

\* The record a flush appends to the history.
NewCommit(h) ==
  LET r == run[h]
      answers == r.reply \in {"done", "cancelled"}
  IN  [key |-> r.key, reply |-> r.reply, plan |-> r.plan, at |-> now,
       src |-> IF answers THEN r.conf.src ELSE r.msg,
       conf |-> IF answers THEN r.conf.id ELSE 0,
       expires |-> IF answers THEN r.conf.expires ELSE 0]

\* A flush appends one record and leaves the others where they are.
LEMMA FlushAppends ==
  ASSUME TypeOK, NEW h \in Handlers, FlushCommit(h)
  PROVE  /\ Len(commits') = Len(commits) + 1
         /\ \A i \in 1..Len(commits) : commits'[i] = commits[i]
         /\ commits'[Len(commits) + 1] = NewCommit(h)
<1>1. commits' = Append(commits, NewCommit(h))
  BY DEF FlushCommit, NewCommit
<1>2. commits \in Seq(Commit)
  BY DEF TypeOK
<1> QED
  BY <1>1, <1>2

\* Steps that leave the history and the markers alone preserve the invariant
\* as long as time does not pass.
LEMMA MarkerFrame ==
  ASSUME MarkerInv, TypeOK', UNCHANGED <<now, processed, commits>>
  PROVE  MarkerInv'
BY DEF MarkerInv, MarkerHolds, CommitsApart

\* The marker invariant is inductive.
LEMMA MarkerStep == MarkerInv /\ [Next]_vars => MarkerInv'
<1> SUFFICES ASSUME MarkerInv, [Next]_vars PROVE MarkerInv'
  OBVIOUS
<1>0. TypeOK /\ TypeOK'
  BY TypeStep DEF MarkerInv
<1>1. ASSUME NEW h \in Handlers, NEW m \in Messages, Claim(h, m) PROVE MarkerInv'
  <2> DEFINE k == DedupKey(m, now)
  <2>1. k \in Keys
    BY <1>0, DedupKeyType DEF TypeOK
  <2>2. processed[k].status # "completed"
    BY <1>1 DEF Claim, Claimable
  <2>3. \A j \in Keys : j # k => processed'[j] = processed[j]
    BY <1>0, <1>1, <2>1 DEF Claim, TypeOK
  <2>4. UNCHANGED <<now, commits>>
    BY <1>1 DEF Claim
  <2> QED
    BY <1>0, <2>2, <2>3, <2>4, TypeFacts DEF MarkerInv, MarkerHolds, CommitsApart
<1>2. ASSUME NEW h \in Handlers, FlushCommit(h) PROVE MarkerInv'
  <2> DEFINE k == run[h].key
             n == Len(commits) + 1
  <2>0. Len(commits) \in Nat
    BY <1>0, TypeFacts
  <2>1. /\ Len(commits') = n
        /\ \A i \in 1..Len(commits) : commits'[i] = commits[i]
        /\ commits'[n].key = k /\ commits'[n].at = now
    <3>1. NewCommit(h).key = k /\ NewCommit(h).at = now
      BY DEF NewCommit
    <3> HIDE DEF k, n
    <3> QED
      BY <1>0, <1>2, <3>1, FlushAppends DEF n
  <2>2. \A i \in 1..Len(commits) :
          commits[i].key = k => commits[i].at + KeepCompleted < now
    BY <1>0, <1>2, TypeFacts, TimeAssumption DEF FlushCommit, MarkerOK, MarkerInv, MarkerHolds
  <2>3. /\ now' = now
        /\ processed'[k].status = "completed" /\ processed'[k].completedAt = now
        /\ \A j \in Keys : j # k => processed'[j] = processed[j]
    BY <1>0, <1>2, TypeFacts DEF FlushCommit, TypeOK
  <2>4. CommitsApart'
    <3> SUFFICES ASSUME NEW i \in 1..n, NEW j \in 1..n, i < j,
                        commits'[i].key = commits'[j].key
                 PROVE  commits'[i].at + KeepCompleted < commits'[j].at
      BY <2>1 DEF CommitsApart
    <3>1. i \in 1..Len(commits)
      BY <2>0
    <3>2. CASE j = n
      BY <2>1, <2>2, <3>1, <3>2
    <3>3. CASE j # n
      <4>1. j \in 1..Len(commits)
        BY <3>3, <2>0
      <4> QED
        BY <2>1, <3>1, <4>1 DEF MarkerInv, CommitsApart
    <3> QED
      BY <3>2, <3>3
  <2>5. MarkerHolds'
    <3> SUFFICES ASSUME NEW i \in 1..n
                 PROVE  /\ commits'[i].at <= now
                        /\ now <= commits'[i].at + KeepCompleted
                             => /\ processed'[commits'[i].key].status = "completed"
                                /\ commits'[i].at <= processed'[commits'[i].key].completedAt
      BY <2>1, <2>3 DEF MarkerHolds
    <3>1. CASE i = n
      BY <2>1, <2>3, <3>1, <1>0, TypeFacts
    <3>2. CASE i # n
      <4>1. i \in 1..Len(commits)
        BY <3>2, <2>0
      <4> QED
        BY <2>1, <2>3, <4>1, <1>0, TypeFacts DEF MarkerInv, MarkerHolds
    <3> QED
      BY <3>1, <3>2
  <2> QED
    BY <1>0, <2>4, <2>5 DEF MarkerInv
<1>3. CASE ReapProcessed
  <2>1. UNCHANGED <<now, commits>>
    BY <1>3 DEF ReapProcessed
  <2>2. \A k \in Keys : processed[k].status = "completed" /\ now <= processed[k].completedAt + KeepCompleted
                          => processed'[k] = processed[k]
    BY <1>0, <1>3, TypeFacts, TimeAssumption DEF ReapProcessed, Reapable
  <2> QED
    BY <1>0, <2>1, <2>2, TypeFacts, TimeAssumption DEF MarkerInv, MarkerHolds, CommitsApart
<1>4. CASE Tick
  <2>1. now' = now + 1 /\ UNCHANGED <<processed, commits>>
    BY <1>4 DEF Tick, tables
  <2> QED
    BY <1>0, <2>1, TypeFacts, TimeAssumption DEF MarkerInv, MarkerHolds, CommitsApart
<1>5. ASSUME NEW h \in Handlers,
             \/ (\E c \in confs : Lookup(h, c)) \/ LookupNothing(h)
             \/ (\E p \in Plans : RunAgent(h, p)) \/ AgentFails(h)
             \/ Park(h) \/ Cancel(h) \/ FlushSuperseded(h) \/ Abort(h)
      PROVE MarkerInv'
  BY <1>0, <1>5, MarkerFrame DEF Lookup, LookupNothing, RunAgent, AgentFails, Park,
     Cancel, FlushSuperseded, Abort, tables
<1>6. CASE ReapConfirmations \/ UNCHANGED vars
  BY <1>0, <1>6, MarkerFrame DEF ReapConfirmations, vars, tables
<1> QED
  BY <1>1, <1>2, <1>3, <1>4, <1>5, <1>6 DEF Next, HandlerStep

\* One dedup id is flushed once per retention period of its marker: however
\* handlers overlap, outlive their claim or crash, a second flush under the
\* same id commits only after reap_processed_messages could drop the first.
THEOREM FlushedOnce == Spec => []CommitsApart
<1>1. Init => MarkerInv
  <2> SUFFICES ASSUME Init PROVE MarkerInv
    OBVIOUS
  <2>1. TypeOK
    BY TypeInit
  <2>2. 1..Len(commits) = {}
    BY DEF Init
  <2> QED
    BY <2>1, <2>2 DEF MarkerInv, MarkerHolds, CommitsApart
<1>2. MarkerInv => CommitsApart
  BY DEF MarkerInv
<1> QED
  BY <1>1, <1>2, MarkerStep, PTL DEF Spec

-----------------------------------------------------------------------------
(***************************************************************************)
(* The claim: who may work on a dedup id besides the handler that has it.  *)
(*                                                                         *)
(* TakeoverOnlyWhenStale needs the row that every handler at work leaves   *)
(* behind: it is there (the cron's cutoffs are longer than maxDuration),   *)
(* and no older than the handler.                                          *)
(***************************************************************************)
ClaimHolds ==
  \A h \in Handlers : Alive(h) =>
    LET p == processed[run[h].key] IN
    /\ run[h].started <= now
    /\ \/ p.status = "claimed" /\ run[h].started <= p.claimedAt
       \/ p.status = "completed" /\ run[h].started <= p.completedAt

ClaimInv == TypeOK /\ ClaimHolds /\ TakeoverOnlyWhenStale

\* The handlers at work after a step were at work before it, on the same claim.
NoNewClaim ==
  \A h \in Handlers : Alive(h)' => /\ Alive(h)
                                   /\ run'[h].key = run[h].key
                                   /\ run'[h].started = run[h].started

\* The steps of a handler between its claim and its return.
LEMMA InnerSteps ==
  ASSUME TypeOK, NEW h \in Handlers,
         \/ (\E c \in confs : Lookup(h, c)) \/ LookupNothing(h)
         \/ (\E p \in Plans : RunAgent(h, p)) \/ Park(h) \/ Cancel(h)
  PROVE  NoNewClaim /\ UNCHANGED <<now, processed>>
<1>1. UNCHANGED <<now, processed>>
  BY DEF Lookup, LookupNothing, RunAgent, Park, Cancel, tables
<1>2. run[h].pc # "idle"
  BY DEF Lookup, LookupNothing, RunAgent, Park, Cancel, At
<1>3. run'[h].key = run[h].key /\ run'[h].started = run[h].started
  <2> DEFINE SameClaim == run'[h].key = run[h].key /\ run'[h].started = run[h].started
  <2>0. run \in [Handlers -> Run] /\ run[h] \in Run
    BY DEF TypeOK
  <2>1. ASSUME NEW c \in confs, Lookup(h, c) PROVE SameClaim
    BY <2>0, <2>1 DEF Lookup, Run
  <2>2. ASSUME NEW p \in Plans, RunAgent(h, p) PROVE SameClaim
    BY <2>0, <2>2 DEF RunAgent, Run
  <2>3. CASE LookupNothing(h) \/ Park(h) \/ Cancel(h)
    <3>1. run' = [run EXCEPT ![h].pc = "agent"] \/ run' = [run EXCEPT ![h].pc = "flush"]
      BY <2>3 DEF LookupNothing, Park, Cancel
    <3> QED
      BY <2>0, <3>1 DEF Run
  <2> QED
    BY <2>1, <2>2, <2>3
<1>4. \A g \in Handlers : g # h => run'[g] = run[g]
  BY DEF Lookup, LookupNothing, RunAgent, Park, Cancel, TypeOK
<1> QED
  BY <1>1, <1>2, <1>3, <1>4 DEF NoNewClaim, Alive

\* The returns.
LEMMA ReturnSteps ==
  ASSUME TypeOK, NEW h \in Handlers, Return(h), now' = now
  PROVE  NoNewClaim /\ ~Alive(h)'
<1>1. run'[h].pc = "idle" /\ \A g \in Handlers : g # h => run'[g] = run[g]
  BY DEF Return, TypeOK, Idle
<1> QED
  BY <1>1 DEF NoNewClaim, Alive

\* A step that claims nothing cannot break the rule for takeovers.
LEMMA TakeoverFrame ==
  ASSUME TakeoverOnlyWhenStale, NoNewClaim
  PROVE  TakeoverOnlyWhenStale'
BY DEF TakeoverOnlyWhenStale, NoNewClaim

\* The claim invariant is inductive.
LEMMA ClaimStep == ClaimInv /\ [Next]_vars => ClaimInv'
<1> SUFFICES ASSUME ClaimInv, [Next]_vars PROVE ClaimInv'
  OBVIOUS
<1>0. TypeOK /\ TypeOK'
  BY TypeStep DEF ClaimInv
<1>1. ASSUME NEW h \in Handlers, NEW m \in Messages, Claim(h, m) PROVE ClaimInv'
  <2> DEFINE k == DedupKey(m, now)
  <2>1. k \in Keys
    BY <1>0, DedupKeyType DEF TypeOK
  <2>2. now' = now /\ processed'[k].status = "claimed" /\ processed'[k].claimedAt = now
    BY <1>0, <1>1, <2>1 DEF Claim, TypeOK
  <2>3. \A j \in Keys : j # k => processed'[j] = processed[j]
    BY <1>0, <1>1, <2>1 DEF Claim, TypeOK
  <2>4. run'[h].key = k /\ run'[h].started = now
    BY <1>0, <1>1 DEF Claim, TypeOK, Idle
  <2>5. \A g \in Handlers : g # h => run'[g] = run[g]
    BY <1>0, <1>1 DEF Claim, TypeOK
  <2>6. \A g \in Handlers : Alive(g) /\ run[g].key = k => run[g].started + ClaimTtl <= now
    <3>1. \/ processed[k].status = "absent"
          \/ processed[k].status = "claimed" /\ processed[k].claimedAt + ClaimTtl <= now
      BY <1>1 DEF Claim, Claimable
    <3>2. \A g \in Handlers : Alive(g) /\ run[g].key = k
            => \/ processed[k].status = "claimed" /\ run[g].started <= processed[k].claimedAt
               \/ processed[k].status = "completed"
      BY DEF ClaimInv, ClaimHolds
    <3>3. processed[k].claimedAt \in Nat /\ \A g \in Handlers : run[g].started \in Nat
      BY <1>0, <2>1, TypeFacts
    <3> HIDE DEF k
    <3> QED
      BY <3>1, <3>2, <3>3, <1>0, TypeFacts, TimeAssumption
  <2>7. \A g \in Handlers : g # h => Alive(g)' = Alive(g)
    BY <2>2, <2>5 DEF Alive
  <2>8. ClaimHolds'
    <3> SUFFICES ASSUME NEW g \in Handlers, Alive(g)'
                 PROVE  LET p == processed'[run'[g].key] IN
                        /\ run'[g].started <= now
                        /\ \/ p.status = "claimed" /\ run'[g].started <= p.claimedAt
                           \/ p.status = "completed" /\ run'[g].started <= p.completedAt
      BY <2>2 DEF ClaimHolds
    <3>1. CASE g = h
      BY <3>1, <2>2, <2>4, <1>0, TypeFacts
    <3>2. CASE g # h
      BY <3>2, <2>2, <2>3, <2>5, <2>7, <1>0, TypeFacts DEF ClaimInv, ClaimHolds
    <3> QED
      BY <3>1, <3>2
  <2>9. TakeoverOnlyWhenStale'
    <3> SUFFICES ASSUME NEW f \in Handlers, NEW g \in Handlers,
                        Alive(f)', Alive(g)', f # g, run'[f].key = run'[g].key
                 PROVE  \/ run'[f].started + ClaimTtl <= run'[g].started
                        \/ run'[g].started + ClaimTtl <= run'[f].started
      BY DEF TakeoverOnlyWhenStale
    <3>1. CASE f = h
      BY <3>1, <2>4, <2>5, <2>6, <2>7
    <3>2. CASE g = h
      BY <3>2, <2>4, <2>5, <2>6, <2>7
    <3>3. CASE f # h /\ g # h
      BY <3>3, <2>5, <2>7 DEF ClaimInv, TakeoverOnlyWhenStale
    <3> QED
      BY <3>1, <3>2, <3>3
  <2> QED
    BY <1>0, <2>8, <2>9 DEF ClaimInv
<1>2. ASSUME NEW h \in Handlers, FlushCommit(h) PROVE ClaimInv'
  <2> DEFINE k == run[h].key
  <2>1. now' = now /\ processed'[k].status = "completed" /\ processed'[k].completedAt = now
    BY <1>0, <1>2, TypeFacts DEF FlushCommit, TypeOK
  <2>2. \A j \in Keys : j # k => processed'[j] = processed[j]
    BY <1>0, <1>2, TypeFacts DEF FlushCommit, TypeOK
  <2>3. NoNewClaim
    BY <1>0, <1>2, <2>1, ReturnSteps DEF FlushCommit
  <2>4. ClaimHolds'
    BY <1>0, <2>1, <2>2, <2>3, TypeFacts DEF ClaimInv, ClaimHolds, NoNewClaim
  <2> QED
    BY <1>0, <2>3, <2>4, TakeoverFrame DEF ClaimInv
<1>3. CASE ReapProcessed
  <2>1. now' = now /\ run' = run
    BY <1>3 DEF ReapProcessed
  <2>2. NoNewClaim
    BY <2>1 DEF NoNewClaim, Alive
  <2>3. \A h \in Handlers : Alive(h) => processed'[run[h].key] = processed[run[h].key]
    <3> SUFFICES ASSUME NEW h \in Handlers, Alive(h)
                 PROVE  processed'[run[h].key] = processed[run[h].key]
      OBVIOUS
    <3> DEFINE p == processed[run[h].key]
    <3>1. /\ run[h].key \in Keys /\ run[h].started \in Nat /\ now \in Nat
          /\ p.claimedAt \in Nat /\ p.completedAt \in Nat
      BY <1>0, TypeFacts
    <3>2. now <= run[h].started + MaxDuration
      BY DEF Alive
    <3>3. \/ p.status = "claimed" /\ run[h].started <= p.claimedAt
          \/ p.status = "completed" /\ run[h].started <= p.completedAt
      BY DEF ClaimInv, ClaimHolds
    <3>4. ~Reapable(p)
      BY <3>1, <3>2, <3>3, TimeAssumption DEF Reapable
    <3> QED
      BY <1>3, <3>1, <3>4 DEF ReapProcessed
  <2>4. ClaimHolds'
    BY <2>1, <2>2, <2>3 DEF ClaimInv, ClaimHolds, NoNewClaim
  <2> QED
    BY <1>0, <2>2, <2>4, TakeoverFrame DEF ClaimInv
<1>4. CASE Tick
  <2>1. now' = now + 1 /\ run' = run /\ processed' = processed
    BY <1>4 DEF Tick, tables
  <2>2. NoNewClaim
    BY <1>0, <2>1, TypeFacts, TimeAssumption DEF NoNewClaim, Alive
  <2>3. ClaimHolds'
    BY <1>0, <2>1, <2>2, TypeFacts DEF ClaimInv, ClaimHolds, NoNewClaim
  <2> QED
    BY <1>0, <2>2, <2>3, TakeoverFrame DEF ClaimInv
<1>5. ASSUME NoNewClaim, UNCHANGED <<now, processed>> PROVE ClaimInv'
  <2>1. ClaimHolds'
    BY <1>5 DEF ClaimInv, ClaimHolds, NoNewClaim
  <2> QED
    BY <1>0, <1>5, <2>1, TakeoverFrame DEF ClaimInv
<1>6. ASSUME NEW h \in Handlers,
             \/ (\E c \in confs : Lookup(h, c)) \/ LookupNothing(h)
             \/ (\E p \in Plans : RunAgent(h, p)) \/ Park(h) \/ Cancel(h)
      PROVE ClaimInv'
  BY <1>0, <1>5, <1>6, InnerSteps
<1>7. ASSUME NEW h \in Handlers, AgentFails(h) \/ FlushSuperseded(h) \/ Abort(h)
      PROVE ClaimInv'
  <2>1. Return(h) /\ UNCHANGED <<now, processed>>
    BY <1>7 DEF AgentFails, FlushSuperseded, Abort, tables
  <2> QED
    BY <1>0, <1>5, <2>1, ReturnSteps
<1>8. CASE ReapConfirmations \/ UNCHANGED vars
  <2>1. UNCHANGED <<now, processed, run>>
    BY <1>8 DEF ReapConfirmations, vars, tables
  <2>2. NoNewClaim
    BY <2>1 DEF NoNewClaim, Alive
  <2> QED
    BY <1>5, <2>1, <2>2
<1> QED
  BY <1>1, <1>2, <1>3, <1>4, <1>6, <1>7, <1>8 DEF Next, HandlerStep

\* Two invocations work on one dedup id only if the later one found a claim
\* older than CLAIM_TTL_MS; neither the flush of one of them nor the cron's
\* hygiene opens the id to a third before that.
THEOREM TakeoverSafe == Spec => []TakeoverOnlyWhenStale
<1>1. Init => ClaimInv
  <2> SUFFICES ASSUME Init PROVE ClaimInv
    OBVIOUS
  <2>1. \A h \in Handlers : ~Alive(h)
    BY DEF Init, Alive, Idle
  <2> QED
    BY <2>1, TypeInit DEF ClaimInv, ClaimHolds, TakeoverOnlyWhenStale
<1>2. ClaimInv => TakeoverOnlyWhenStale
  BY DEF ClaimInv
<1> QED
  BY <1>1, <1>2, ClaimStep, PTL DEF Spec

-----------------------------------------------------------------------------
(***************************************************************************)
(* The confirmation protocol: what is parked is applied once, in time,     *)
(* only by a "yes", and not after a "no".                                  *)
(***************************************************************************)

\* No confirmation parked up to number n waits for an answer.
Gone(n) == \A c \in confs : c.id <= n => c.status # "pending"

\* Numbers are unique, and only risky plans are parked.
RowsOK ==
  /\ \A c \in confs : c.id <= confSeq /\ Risk[c.plan] = "NeedsConfirmation"
  /\ \A c, d \in confs : c.id = d.id => c = d

\* What a handler knows at the point it has reached.
LocalsOK(r) ==
  /\ r.started <= now
  /\ r.key[1] = r.msg
  /\ r.conf.id <= confSeq
  /\ r.pc = "park" => r.reply = "ask" /\ Risk[r.plan] = "NeedsConfirmation"
  /\ r.pc = "cancel" => r.reply = "cancelled"
  /\ r.pc = "flush" =>
       /\ r.reply = "reply" => Risk[r.plan] = "Safe"
       /\ r.reply = "done" => /\ Risk[r.plan] = "NeedsConfirmation"
                              /\ r.msg \in YesMessages
                              /\ r.started < r.conf.expires
       /\ r.reply = "cancelled" => Gone(r.conf.id)

HandlersOK == \A h \in Handlers : LocalsOK(run[h])

\* The flushes behind us were of parked numbers, and a cancel left nothing.
CommitsOK ==
  \A i \in 1..Len(commits) :
    /\ commits[i].conf <= confSeq
    /\ commits[i].reply = "cancelled" => Gone(commits[i].conf)

ConfInv ==
  /\ TypeOK /\ RowsOK /\ HandlersOK /\ CommitsOK
  /\ ConfirmationAppliedOnce /\ CancelSticks /\ RiskyNeedsYes /\ AppliedInTime

-----------------------------------------------------------------------------
(***************************************************************************)
(* The table.                                                              *)
(***************************************************************************)

\* Whatever row number n still has reads consumed.
Consumed(n) == \A c \in confs : c.id = n => c.status = "consumed"

\* The types of a parked row.
LEMMA RowType ==
  ASSUME TypeOK
  PROVE  /\ confSeq \in Nat
         /\ \A c \in confs : /\ c \in ConfRow /\ c.id \in Nat /\ c.expires \in Nat
                             /\ c.plan \in Plans
         /\ \A h \in Handlers : /\ run[h] \in Run /\ run[h].conf \in ConfRow
                                /\ run[h].conf.id \in Nat /\ run[h].conf.expires \in Nat
<1>1. confSeq \in Nat /\ \A c \in confs : c \in ConfRow
  BY DEF TypeOK
<1>2. \A h \in Handlers : run[h] \in Run /\ run[h].conf \in ConfRow
  BY DEF TypeOK, Run
<1> QED
  BY <1>1, <1>2 DEF ConfRow

\* The only steps that touch pending_confirmations.
LEMMA ConfSteps ==
  ASSUME [Next]_vars
  PROVE  \/ UNCHANGED <<confs, confSeq>>
         \/ \E h \in Handlers : Park(h) \/ Cancel(h) \/ FlushCommit(h)
         \/ ReapConfirmations
BY DEF Next, HandlerStep, vars, tables, Claim, Lookup, LookupNothing, RunAgent,
       AgentFails, FlushSuperseded, Abort, ReapProcessed, Tick

\* Parking adds at most one row, under a fresh number and from the handler's plan.
LEMMA ParkAdds ==
  ASSUME TypeOK, NEW h \in Handlers, Park(h)
  PROVE  \/ UNCHANGED <<confs, confSeq>>
         \/ \E new : /\ new.id = confSeq + 1 /\ new.plan = run[h].plan
                     /\ confSeq' = confSeq + 1
                     /\ confs' = confs \cup {new}
<1>1. CASE AlreadyParked(run[h].msg)
  BY <1>1 DEF Park
<1>2. CASE ~AlreadyParked(run[h].msg)
  <2> DEFINE new == [id |-> confSeq + 1, src |-> run[h].msg, plan |-> run[h].plan,
                     status |-> "pending", expires |-> now + ConfirmTtl]
  <2>1. new.id = confSeq + 1 /\ new.plan = run[h].plan
    OBVIOUS
  <2>2. confSeq' = confSeq + 1 /\ confs' = confs \cup {new}
    BY <1>2 DEF Park
  <2> QED
    BY <2>1, <2>2
<1> QED
  BY <1>1, <1>2

\* Every row a step leaves behind comes from one with the same number and plan;
\* it is pending only if that one was, and stays consumed.
Retires ==
  /\ confSeq' = confSeq
  /\ \A c \in confs' : \E d \in confs :
       /\ c.id = d.id /\ c.plan = d.plan
       /\ c.status = "pending" => d.status = "pending"
       /\ d.status = "consumed" => c.status = "consumed"
  /\ (\A c, d \in confs : c.id = d.id => c = d)
       => (\A c, d \in confs' : c.id = d.id => c = d)

\* Cancelling, consuming and reaping do no more than that.
LEMMA RetireSteps ==
  ASSUME TypeOK,
         \/ \E h \in Handlers : Cancel(h) \/ FlushCommit(h)
         \/ ReapConfirmations
  PROVE  Retires
<1>0. \A c \in confs : c \in ConfRow
  BY RowType
<1>1. ASSUME NEW h \in Handlers, Cancel(h) PROVE Retires
  <2> DEFINE After(c) == IF c.status = "pending"
                           THEN [c EXCEPT !.status = "cancelled"] ELSE c
  <2>1. confSeq' = confSeq /\ confs' = {After(c) : c \in confs}
    BY <1>1 DEF Cancel
  <2>2. \A c \in confs : /\ After(c).id = c.id /\ After(c).plan = c.plan
                         /\ After(c).status # "pending"
                         /\ c.status = "consumed" => After(c).status = "consumed"
    BY <1>0 DEF ConfRow
  <2> HIDE DEF After
  <2>3. \A c \in confs' : \E d \in confs : c = After(d)
    BY <2>1
  <2> QED
    BY <2>1, <2>2, <2>3 DEF Retires
<1>2. ASSUME NEW h \in Handlers, FlushCommit(h) PROVE Retires
  <2> DEFINE After(c) == IF c.id = run[h].conf.id
                           THEN [c EXCEPT !.status = "consumed"] ELSE c
  <2>1. confSeq' = confSeq /\ (confs' = confs \/ confs' = {After(c) : c \in confs})
    BY <1>2 DEF FlushCommit, ConsumeRow
  <2>2. \A c \in confs : /\ After(c).id = c.id /\ After(c).plan = c.plan
                         /\ After(c).status = "pending" => c.status = "pending"
                         /\ c.status = "consumed" => After(c).status = "consumed"
    BY <1>0 DEF ConfRow
  <2> HIDE DEF After
  <2>3. CASE confs' = confs
    BY <2>1, <2>3 DEF Retires
  <2>4. CASE confs' = {After(c) : c \in confs}
    <3>1. \A c \in confs' : \E d \in confs : c = After(d)
      BY <2>4
    <3> QED
      BY <2>1, <2>2, <3>1 DEF Retires
  <2> QED
    BY <2>1, <2>3, <2>4
<1>3. CASE ReapConfirmations
  BY <1>3 DEF ReapConfirmations, Retires
<1> QED
  BY <1>1, <1>2, <1>3

\* No step makes a settled number pending again, or changes a consumed row.
LEMMA RowsForward ==
  ASSUME TypeOK, RowsOK, [Next]_vars
  PROVE  /\ confSeq <= confSeq'
         /\ \A n \in Nat : n <= confSeq /\ Gone(n) => Gone(n)'
         /\ \A n \in Nat : n <= confSeq /\ Consumed(n) => Consumed(n)'
<1> USE RowType
<1>1. CASE UNCHANGED <<confs, confSeq>>
  BY <1>1 DEF Gone, Consumed
<1>2. ASSUME NEW h \in Handlers, Park(h), ~UNCHANGED <<confs, confSeq>>
      PROVE  /\ confSeq <= confSeq'
             /\ \A n \in Nat : n <= confSeq /\ Gone(n) => Gone(n)'
             /\ \A n \in Nat : n <= confSeq /\ Consumed(n) => Consumed(n)'
  <2>1. PICK new : /\ new.id = confSeq + 1 /\ confSeq' = confSeq + 1
                   /\ confs' = confs \cup {new}
    BY <1>2, ParkAdds
  <2>2. \A n \in Nat : n <= confSeq => ~(new.id <= n) /\ new.id # n
    BY <2>1
  <2> QED
    BY <2>1, <2>2 DEF Gone, Consumed
<1>3. CASE Retires
  BY <1>3 DEF Retires, Gone, Consumed
<1> QED
  BY <1>1, <1>2, <1>3, ConfSteps, RetireSteps

\* Numbers stay unique, and only risky plans are parked.
LEMMA RowsStep ==
  ASSUME TypeOK, RowsOK, HandlersOK, [Next]_vars
  PROVE  RowsOK'
<1> USE RowType
<1>1. CASE UNCHANGED <<confs, confSeq>>
  BY <1>1 DEF RowsOK
<1>2. ASSUME NEW h \in Handlers, Park(h), ~UNCHANGED <<confs, confSeq>> PROVE RowsOK'
  <2>1. PICK new : /\ new.id = confSeq + 1 /\ new.plan = run[h].plan
                   /\ confSeq' = confSeq + 1 /\ confs' = confs \cup {new}
    BY <1>2, ParkAdds
  <2>2. Risk[run[h].plan] = "NeedsConfirmation"
    BY <1>2 DEF Park, At, HandlersOK, LocalsOK
  <2>3. \A c \in confs : c.id # new.id /\ c.id <= confSeq'
    BY <2>1 DEF RowsOK
  <2> QED
    BY <2>1, <2>2, <2>3 DEF RowsOK
<1>3. CASE Retires
  BY <1>3 DEF RowsOK, Retires
<1> QED
  BY <1>1, <1>2, <1>3, ConfSteps, RetireSteps

-----------------------------------------------------------------------------
(***************************************************************************)
(* The handlers.                                                           *)
(***************************************************************************)

\* What a handler knows stays true while others take steps.
LEMMA LocalsKept ==
  ASSUME TypeOK, RowsOK, [Next]_vars, now <= now', TypeOK',
         NEW g \in Handlers, LocalsOK(run[g]), run'[g] = run[g]
  PROVE  LocalsOK(run[g])'
<1>1. /\ run[g].conf.id \in Nat /\ confSeq \in Nat /\ confSeq' \in Nat
      /\ run[g].started \in Nat /\ now \in Nat /\ now' \in Nat
  BY RowType, TypeFacts, TimeAssumption DEF TypeOK, Times
<1>2. confSeq <= confSeq' /\ (run[g].conf.id <= confSeq /\ Gone(run[g].conf.id)
                                => Gone(run[g].conf.id)')
  BY <1>1, RowsForward
<1>3. run[g].started <= now' /\ run[g].conf.id <= confSeq'
  BY <1>1, <1>2 DEF LocalsOK
<1>4. run[g].pc = "flush" /\ run[g].reply = "cancelled" => Gone(run[g].conf.id)'
  BY <1>2 DEF LocalsOK
<1> QED
  BY <1>3, <1>4 DEF LocalsOK

\* A handler that returns knows nothing.
LEMMA LocalsReturn ==
  ASSUME TypeOK, TypeOK', NEW h \in Handlers, Return(h)
  PROVE  LocalsOK(run[h])'
<1>1. run'[h] = Idle
  BY DEF TypeOK, Return
<1>2. 0 <= now' /\ 0 <= confSeq'
  BY TimeAssumption DEF TypeOK, Times
<1> QED
  BY <1>1, <1>2 DEF LocalsOK, Idle, NoConf

\* No step makes time go back.
LEMMA TimeForward ==
  ASSUME TypeOK, [Next]_vars
  PROVE  now <= now'
<1>1. now \in Nat
  BY TypeFacts
<1>2. now' = now \/ now' = now + 1
  BY DEF Next, HandlerStep, vars, tables, Claim, Lookup, LookupNothing, RunAgent,
         AgentFails, Park, Cancel, FlushCommit, FlushSuperseded, Abort,
         ReapProcessed, ReapConfirmations, Tick
<1> QED
  BY <1>1, <1>2

\* A handler's own step leaves it with what its next point needs.
LEMMA HandlersStep ==
  ASSUME TypeOK, RowsOK, HandlersOK, [Next]_vars
  PROVE  HandlersOK'
<1>0. now <= now' /\ TypeOK'
  BY TimeForward, TypeStep
<1>1. ASSUME NEW h \in Handlers, LocalsOK(run[h])',
             \A g \in Handlers : g # h => run'[g] = run[g]
      PROVE  HandlersOK'
  <2> SUFFICES ASSUME NEW g \in Handlers, g # h PROVE LocalsOK(run[g])'
    BY <1>1 DEF HandlersOK
  <2> QED
    BY <1>0, <1>1, LocalsKept DEF HandlersOK
<1>2. CASE run' = run
  BY <1>0, <1>2, LocalsKept DEF HandlersOK
<1>3. ASSUME NEW h \in Handlers, NEW m \in Messages, Claim(h, m) PROVE HandlersOK'
  <2>1. run'[h] = [Idle EXCEPT
          !.pc = IF m \in YesMessages \cup NoMessages THEN "lookup" ELSE "agent",
          !.msg = m, !.key = DedupKey(m, now), !.started = now]
    BY <1>3 DEF Claim, TypeOK
  <2>2. /\ run'[h].pc \in {"lookup", "agent"} /\ run'[h].msg = m
        /\ run'[h].key = DedupKey(m, now) /\ run'[h].started = now
        /\ run'[h].conf.id = 0
    BY <2>1 DEF Idle, NoConf
  <2>3. DedupKey(m, now)[1] = m
    BY DEF DedupKey
  <2>4. now' = now /\ 0 <= confSeq' /\ now \in Nat
    BY <1>3, <1>0, TypeFacts DEF Claim, TypeOK
  <2>5. LocalsOK(run[h])'
    BY <2>2, <2>3, <2>4 DEF LocalsOK
  <2> QED
    BY <1>1, <1>3, <2>5 DEF Claim, TypeOK
<1>4. ASSUME NEW h \in Handlers, NEW c \in confs, Lookup(h, c) PROVE HandlersOK'
  <2>1. /\ run[h] \in Run /\ run[h].pc = "lookup"
        /\ c.id <= confSeq /\ Risk[c.plan] = "NeedsConfirmation" /\ now < c.expires
    BY <1>4, RowType, TypeFacts DEF Lookup, At, IsLatest, Answerable, RowsOK
  <2>2. /\ run'[h].conf = c /\ run'[h].plan = c.plan
        /\ run'[h].msg = run[h].msg /\ run'[h].key = run[h].key
        /\ run'[h].started = run[h].started
        /\ \/ /\ run[h].msg \in YesMessages
              /\ run'[h].reply = "done" /\ run'[h].pc = "flush"
           \/ /\ run[h].msg \notin YesMessages
              /\ run'[h].reply = "cancelled" /\ run'[h].pc = "cancel"
    BY <1>4, <2>1 DEF Lookup, TypeOK, Run
  <2>3. run[h].started <= now /\ run[h].key[1] = run[h].msg
    BY DEF HandlersOK, LocalsOK
  <2>4. run[h].started < c.expires
    BY <2>1, <2>3, TypeFacts, RowType
  <2>5. now' = now /\ confSeq' = confSeq
    BY <1>4 DEF Lookup, tables
  <2>6. LocalsOK(run[h])'
    BY <2>1, <2>2, <2>3, <2>4, <2>5 DEF LocalsOK
  <2> QED
    BY <1>1, <1>4, <2>6 DEF Lookup, TypeOK
<1>5. ASSUME NEW h \in Handlers, LookupNothing(h) PROVE HandlersOK'
  <2>1. run'[h] = [run[h] EXCEPT !.pc = "agent"] /\ run[h] \in Run
    BY <1>5 DEF LookupNothing, TypeOK
  <2>2. /\ run'[h].pc = "agent" /\ run'[h].started = run[h].started
        /\ run'[h].key = run[h].key /\ run'[h].msg = run[h].msg
        /\ run'[h].conf = run[h].conf
    BY <2>1 DEF Run
  <2>3. now' = now /\ confSeq' = confSeq
    BY <1>5 DEF LookupNothing, tables
  <2>4. LocalsOK(run[h])'
    BY <2>2, <2>3 DEF HandlersOK, LocalsOK
  <2> QED
    BY <1>1, <1>5, <2>4 DEF LookupNothing, TypeOK
<1>6. ASSUME NEW h \in Handlers, NEW p \in Plans, RunAgent(h, p) PROVE HandlersOK'
  <2>1. run[h] \in Run
    BY DEF TypeOK
  <2>2. /\ run'[h].plan = p /\ run'[h].reply = ReplyTo(Risk[p])
        /\ run'[h].pc = IF ReplyTo(Risk[p]) = "ask" THEN "park" ELSE "flush"
        /\ run'[h].started = run[h].started
        /\ run'[h].key = run[h].key /\ run'[h].msg = run[h].msg
        /\ run'[h].conf = run[h].conf
    BY <1>6, <2>1 DEF RunAgent, Run, TypeOK
  <2>3. \/ Risk[p] = "Safe" /\ ReplyTo(Risk[p]) = "reply"
        \/ Risk[p] = "NeedsConfirmation" /\ ReplyTo(Risk[p]) = "ask"
        \/ Risk[p] = "Reject" /\ ReplyTo(Risk[p]) = "rejection"
    BY RiskAssumption DEF ReplyTo
  <2>4. now' = now /\ confSeq' = confSeq
    BY <1>6 DEF RunAgent, tables
  <2>5. LocalsOK(run[h])'
    BY <2>2, <2>3, <2>4 DEF HandlersOK, LocalsOK
  <2> QED
    BY <1>1, <1>6, <2>5 DEF RunAgent, TypeOK
<1>7. ASSUME NEW h \in Handlers, Park(h) PROVE HandlersOK'
  <2>1. run'[h] = [run[h] EXCEPT !.pc = "flush"] /\ run[h] \in Run
    BY <1>7 DEF Park, TypeOK
  <2>2. /\ run'[h].pc = "flush" /\ run'[h].started = run[h].started
        /\ run'[h].key = run[h].key /\ run'[h].msg = run[h].msg
        /\ run'[h].conf = run[h].conf /\ run'[h].reply = "ask"
    BY <1>7, <2>1 DEF Run, Park, At, HandlersOK, LocalsOK
  <2>3. now' = now /\ run[h].conf.id <= confSeq'
    BY <1>7, RowType, RowsForward, <1>0 DEF Park, HandlersOK, LocalsOK, TypeOK
  <2>4. LocalsOK(run[h])'
    BY <2>2, <2>3 DEF HandlersOK, LocalsOK
  <2> QED
    BY <1>1, <1>7, <2>4 DEF Park, TypeOK
<1>8. ASSUME NEW h \in Handlers, Cancel(h) PROVE HandlersOK'
  <2>1. run'[h] = [run[h] EXCEPT !.pc = "flush"] /\ run[h] \in Run
    BY <1>8 DEF Cancel, TypeOK
  <2>2. /\ run'[h].pc = "flush" /\ run'[h].started = run[h].started
        /\ run'[h].key = run[h].key /\ run'[h].msg = run[h].msg
        /\ run'[h].conf = run[h].conf /\ run'[h].reply = "cancelled"
    BY <1>8, <2>1 DEF Run, Cancel, At, HandlersOK, LocalsOK
  <2>3. now' = now /\ confSeq' = confSeq
    BY <1>8 DEF Cancel
  <2>4. \A c \in confs' : c.status # "pending"
    BY <1>8, RowType DEF Cancel, ConfRow
  <2>5. LocalsOK(run[h])'
    BY <2>2, <2>3, <2>4 DEF HandlersOK, LocalsOK, Gone
  <2> QED
    BY <1>1, <1>8, <2>5 DEF Cancel, TypeOK
<1>9. ASSUME NEW h \in Handlers, Return(h) PROVE HandlersOK'
  <2>1. LocalsOK(run[h])'
    BY <1>0, <1>9, LocalsReturn
  <2> QED
    BY <1>1, <1>9, <2>1 DEF Return, TypeOK
<1>10. CASE \/ \E h \in Handlers : \/ AgentFails(h) \/ FlushCommit(h)
                                   \/ FlushSuperseded(h) \/ Abort(h)
            \/ ReapProcessed \/ ReapConfirmations \/ Tick \/ UNCHANGED vars
  BY <1>2, <1>9, <1>10 DEF AgentFails, FlushCommit, FlushSuperseded, Abort,
     ReapProcessed, ReapConfirmations, Tick, vars
<1> QED
  BY <1>3, <1>4, <1>5, <1>6, <1>7, <1>8, <1>10 DEF Next, HandlerStep

-----------------------------------------------------------------------------
(***************************************************************************)
(* The flushes.                                                            *)
(***************************************************************************)

\* Only a flush that commits extends the history.
LEMMA HistorySteps ==
  ASSUME [Next]_vars
  PROVE  commits' = commits \/ \E h \in Handlers : FlushCommit(h)
BY DEF Next, HandlerStep, vars, tables, Claim, Lookup, LookupNothing, RunAgent,
       AgentFails, Park, Cancel, FlushSuperseded, Abort, ReapProcessed,
       ReapConfirmations, Tick

\* The four properties, as facts about the flushes and the rows they left.
HistoryOK ==
  /\ CommitsOK
  /\ ConfirmationAppliedOnce /\ CancelSticks /\ RiskyNeedsYes /\ AppliedInTime

\* Steps that do not flush keep them: no row they left comes back.
LEMMA HistoryKept ==
  ASSUME TypeOK, RowsOK, HistoryOK, [Next]_vars, commits' = commits
  PROVE  HistoryOK'
<1>1. CommitsOK'
  <2> SUFFICES ASSUME NEW i \in 1..Len(commits)
               PROVE  /\ commits[i].conf <= confSeq'
                      /\ commits[i].reply = "cancelled" => Gone(commits[i].conf)'
    BY DEF CommitsOK
  <2>1. commits[i].conf \in Nat /\ confSeq \in Nat /\ confSeq' \in Nat
    BY TypeFacts, TypeStep DEF TypeOK
  <2>2. commits[i].conf <= confSeq /\ (commits[i].reply = "cancelled" => Gone(commits[i].conf))
    BY DEF HistoryOK, CommitsOK
  <2> QED
    BY <2>1, <2>2, RowsForward
<1>2. ConfirmationAppliedOnce'
  <2>1. Applications' = Applications
    BY DEF Applications
  <2>2. ASSUME NEW i \in Applications PROVE Consumed(commits[i].conf)'
    <3>1. i \in 1..Len(commits)
      BY DEF Applications
    <3>2. commits[i].conf \in Nat /\ commits[i].conf <= confSeq
      BY <3>1, TypeFacts DEF HistoryOK, CommitsOK
    <3>3. Consumed(commits[i].conf)
      BY DEF HistoryOK, ConfirmationAppliedOnce, Consumed
    <3> QED
      BY <3>2, <3>3, RowsForward
  <2>3. \A i \in Applications : \A c \in confs' : c.id = commits[i].conf => c.status = "consumed"
    BY <2>2 DEF Consumed
  <2> QED
    BY <2>1, <2>3 DEF HistoryOK, ConfirmationAppliedOnce
<1>3. CancelSticks' /\ RiskyNeedsYes' /\ AppliedInTime'
  BY DEF HistoryOK, CancelSticks, RiskyNeedsYes, AppliedInTime, Applications
<1> QED
  BY <1>1, <1>2, <1>3 DEF HistoryOK

\* A flush extends them: the row it consumes was pending until then.
LEMMA HistoryFlush ==
  ASSUME TypeOK, RowsOK, HandlersOK, HistoryOK, NEW h \in Handlers, FlushCommit(h)
  PROVE  HistoryOK'
<1> DEFINE n == Len(commits)
           new == NewCommit(h)
           r == run[h]
           GoneNext(m) == \A c \in confs' : c.id <= m => c.status # "pending"
           ConsumedNext(m) == \A c \in confs' : c.id = m => c.status = "consumed"
<1>1. /\ n \in Nat /\ Len(commits') = n + 1 /\ commits'[n + 1] = new
      /\ \A i \in 1..n : commits'[i] = commits[i]
  BY FlushAppends, TypeFacts
<1>2. 1..(n + 1) = (1..n) \cup {n + 1}
  BY <1>1
<1>3. [Next]_vars
  BY DEF Next, HandlerStep
<1>4. /\ TypeOK' /\ confSeq' = confSeq /\ confSeq \in Nat /\ now \in Nat
      /\ \A i \in 1..n : commits[i].conf \in Nat
      /\ r.conf.id \in Nat /\ r.conf.expires \in Nat /\ r.started \in Nat
  BY <1>3, TypeStep, TypeFacts, RowType DEF FlushCommit
<1>5. LocalsOK(r) /\ r.pc = "flush" /\ now <= r.started + MaxDuration
  BY DEF HandlersOK, FlushCommit, At
<1>6. /\ new.reply = r.reply /\ new.plan = r.plan /\ new.key = r.key /\ new.at = now
      /\ r.reply \in {"done", "cancelled"}
           => new.conf = r.conf.id /\ new.expires = r.conf.expires
      /\ r.reply \notin {"done", "cancelled"} => new.conf = 0
  BY DEF NewCommit
<1>7. new.conf \in Nat /\ new.conf <= confSeq
  BY <1>4, <1>5, <1>6 DEF LocalsOK
<1>8. Applications' = Applications \cup (IF r.reply = "done" THEN {n + 1} ELSE {})
  BY <1>1, <1>2, <1>6 DEF Applications
<1>9. ASSUME r.reply = "done"
      PROVE  \E c \in confs : c.id = new.conf /\ c.status = "pending"
  BY <1>6, <1>9 DEF FlushCommit, ConsumeOK, StillPending
<1>0. /\ \A m \in Nat : m <= confSeq /\ Gone(m) => GoneNext(m)
      /\ \A m \in Nat : m <= confSeq /\ Consumed(m) => ConsumedNext(m)
  BY <1>3, RowsForward DEF Gone, Consumed
<1> HIDE DEF n, new, GoneNext, ConsumedNext
<1>10. CommitsOK'
  <2>1. ASSUME NEW i \in 1..n
        PROVE  /\ commits[i].conf <= confSeq
               /\ commits[i].reply = "cancelled" => GoneNext(commits[i].conf)
    <3>1. commits[i].conf <= confSeq /\ (commits[i].reply = "cancelled" => Gone(commits[i].conf))
      BY <2>1 DEF HistoryOK, CommitsOK, n
    <3> QED
      BY <1>0, <1>4, <3>1
  <2>2. new.reply = "cancelled" => GoneNext(new.conf)
    <3>1. new.reply = "cancelled" => Gone(new.conf)
      BY <1>5, <1>6 DEF LocalsOK
    <3> QED
      BY <1>0, <1>7, <3>1
  <2>3. ASSUME NEW i \in 1..Len(commits')
        PROVE  /\ commits'[i].conf <= confSeq'
               /\ commits'[i].reply = "cancelled" => GoneNext(commits'[i].conf)
    <3>1. CASE i \in 1..n
      BY <1>1, <1>4, <2>1, <3>1
    <3>2. CASE i = n + 1
      BY <1>1, <1>4, <1>7, <2>2, <3>2
    <3> QED
      BY <1>1, <1>2, <3>1, <3>2
  <2> QED
    BY <2>3 DEF CommitsOK, Gone, GoneNext
<1>11. ConfirmationAppliedOnce'
  <2>1. ASSUME NEW i \in Applications PROVE Consumed(commits[i].conf)
    BY DEF HistoryOK, ConfirmationAppliedOnce, Consumed
  <2>2. ASSUME NEW i \in Applications PROVE ConsumedNext(commits[i].conf)
    <3>1. i \in 1..n
      BY DEF Applications, n
    <3>2. commits[i].conf \in Nat /\ commits[i].conf <= confSeq
      BY <1>4, <3>1 DEF HistoryOK, CommitsOK, n
    <3> QED
      BY <1>0, <2>1, <3>2
  <2>3. ASSUME r.reply = "done" PROVE ConsumedNext(new.conf)
    <3>1. confs' = ConsumeRow(r.conf.id) /\ new.conf = r.conf.id
      BY <1>6, <2>3 DEF FlushCommit
    <3>2. \A c \in confs : c \in ConfRow
      BY RowType
    <3> QED
      BY <3>1, <3>2 DEF ConsumedNext, ConsumeRow, ConfRow
  <2>4. ASSUME r.reply = "done", NEW i \in Applications
        PROVE  commits[i].conf # new.conf
    BY <1>9, <2>1, <2>4 DEF Consumed
  <2>5. ASSUME NEW i \in Applications', NEW j \in Applications',
               commits'[i].conf = commits'[j].conf
        PROVE  i = j
    <3>1. Applications \subseteq 1..n
      BY DEF Applications, n
    <3>2. CASE i \in Applications /\ j \in Applications
      BY <1>1, <2>5, <3>1, <3>2 DEF HistoryOK, ConfirmationAppliedOnce
    <3>3. CASE i \notin Applications \/ j \notin Applications
      BY <1>1, <1>8, <2>4, <2>5, <3>1, <3>3
    <3> QED
      BY <3>2, <3>3
  <2>6. ASSUME NEW i \in Applications', NEW c \in confs', c.id = commits'[i].conf
        PROVE  c.status = "consumed"
    <3>1. CASE i \in Applications
      <4>1. commits'[i] = commits[i]
        BY <1>1, <3>1 DEF Applications, n
      <4> QED
        BY <2>2, <2>6, <3>1, <4>1 DEF ConsumedNext
    <3>2. CASE i \notin Applications
      <4>1. i = n + 1 /\ r.reply = "done"
        BY <1>8, <3>2
      <4> QED
        BY <1>1, <2>3, <2>6, <4>1 DEF ConsumedNext
    <3> QED
      BY <3>1, <3>2
  <2> QED
    BY <2>5, <2>6 DEF ConfirmationAppliedOnce
<1>12. CancelSticks'
  <2> SUFFICES ASSUME NEW i \in 1..Len(commits'), NEW j \in Applications', i < j,
                      commits'[i].reply = "cancelled"
               PROVE  commits'[i].conf < commits'[j].conf
    BY DEF CancelSticks
  <2>1. j \in 1..(n + 1) /\ i \in 1..n /\ commits'[i] = commits[i]
    BY <1>1, <1>2 DEF Applications
  <2>2. CASE j \in Applications
    <3>1. commits'[j] = commits[j]
      BY <1>1, <2>2 DEF Applications, n
    <3> QED
      BY <2>1, <2>2, <3>1 DEF HistoryOK, CancelSticks, n
  <2>3. CASE j \notin Applications
    <3>1. commits'[j] = new /\ r.reply = "done"
      BY <1>1, <1>8, <2>3
    <3>2. Gone(commits[i].conf)
      BY <2>1 DEF HistoryOK, CommitsOK, n
    <3>3. ~(new.conf <= commits[i].conf)
      BY <1>9, <3>1, <3>2 DEF Gone
    <3> QED
      BY <1>4, <1>7, <2>1, <3>1, <3>3
  <2> QED
    BY <2>2, <2>3
<1>13. RiskyNeedsYes'
  <2> SUFFICES ASSUME NEW i \in 1..Len(commits'),
                      commits'[i].reply \in LedgerReplies, Risk[commits'[i].plan] # "Safe"
               PROVE  /\ commits'[i].reply = "done" /\ commits'[i].key[1] \in YesMessages
                      /\ Risk[commits'[i].plan] = "NeedsConfirmation"
    BY DEF RiskyNeedsYes
  <2>1. CASE i \in 1..n
    BY <1>1, <2>1 DEF HistoryOK, RiskyNeedsYes, n
  <2>2. CASE i = n + 1
    <3>1. commits'[i] = new
      BY <1>1, <2>2
    <3>2. r.reply = "done"
      BY <1>5, <1>6, <3>1 DEF LocalsOK, LedgerReplies
    <3> QED
      BY <1>5, <1>6, <3>1, <3>2 DEF LocalsOK
  <2> QED
    BY <1>1, <1>2, <2>1, <2>2
<1>14. AppliedInTime'
  <2> SUFFICES ASSUME NEW i \in Applications'
               PROVE  commits'[i].at < commits'[i].expires + MaxDuration
    BY DEF AppliedInTime
  <2>1. CASE i \in Applications
    <3>1. commits'[i] = commits[i]
      BY <1>1, <2>1 DEF Applications, n
    <3> QED
      BY <2>1, <3>1 DEF HistoryOK, AppliedInTime
  <2>2. CASE i \notin Applications
    <3>1. commits'[i] = new /\ r.reply = "done"
      BY <1>1, <1>8, <2>2
    <3>2. r.started < r.conf.expires
      BY <1>5, <3>1 DEF LocalsOK
    <3> QED
      BY <1>4, <1>5, <1>6, <3>1, <3>2, TimeAssumption
  <2> QED
    BY <2>1, <2>2
<1> QED
  BY <1>10, <1>11, <1>12, <1>13, <1>14 DEF HistoryOK

-----------------------------------------------------------------------------
\* The confirmation protocol's invariant holds of the empty database ...
LEMMA ConfInit == Init => ConfInv
<1> SUFFICES ASSUME Init PROVE ConfInv
  OBVIOUS
<1>1. TypeOK
  BY TypeInit
<1>2. confs = {} /\ confSeq = 0 /\ now = 0 /\ 1..Len(commits) = {}
  BY DEF Init
<1>3. \A h \in Handlers : LocalsOK(run[h])
  BY <1>2 DEF Init, LocalsOK, Idle, NoConf
<1> QED
  BY <1>1, <1>2, <1>3 DEF ConfInv, RowsOK, HandlersOK, CommitsOK, Applications,
     ConfirmationAppliedOnce, CancelSticks, RiskyNeedsYes, AppliedInTime

\* ... and is kept by every step.
LEMMA ConfStep == ConfInv /\ [Next]_vars => ConfInv'
<1> SUFFICES ASSUME ConfInv, [Next]_vars PROVE ConfInv'
  OBVIOUS
<1>1. TypeOK /\ RowsOK /\ HandlersOK /\ HistoryOK
  BY DEF ConfInv, HistoryOK
<1>2. TypeOK' /\ RowsOK' /\ HandlersOK'
  BY <1>1, TypeStep, RowsStep, HandlersStep
<1>3. HistoryOK'
  BY <1>1, HistorySteps, HistoryKept, HistoryFlush
<1> QED
  BY <1>2, <1>3 DEF ConfInv, HistoryOK

\* A parked write set is applied at most once, whatever yes messages race for
\* it (consume_confirmation_in_tx).
THEOREM AppliedOnce == Spec => []ConfirmationAppliedOnce
<1>1. ConfInv => ConfirmationAppliedOnce
  BY DEF ConfInv
<1> QED
  BY <1>1, ConfInit, ConfStep, PTL DEF Spec

\* After "okay, cancelled" nothing parked up to then is applied
\* (cancel_pending_confirmations commits before the reply does).
THEOREM CancelIsFinal == Spec => []CancelSticks
<1>1. ConfInv => CancelSticks
  BY DEF ConfInv
<1> QED
  BY <1>1, ConfInit, ConfStep, PTL DEF Spec

\* Whatever the model proposes and whatever the policy's thresholds are, a plan
\* that is not safe reaches the ledger only through a yes (classify_writes).
THEOREM PolicyGate == Spec => []RiskyNeedsYes
<1>1. ConfInv => RiskyNeedsYes
  BY DEF ConfInv
<1> QED
  BY <1>1, ConfInit, ConfStep, PTL DEF Spec

\* Parked writes are applied less than one invocation after they expire
\* (latest_pending_confirmation is the only test of expires_at).
THEOREM ExpiryHolds == Spec => []AppliedInTime
<1>1. ConfInv => AppliedInTime
  BY DEF ConfInv
<1> QED
  BY <1>1, ConfInit, ConfStep, PTL DEF Spec

-----------------------------------------------------------------------------
(***************************************************************************)
(* The refinement: Inbound implements GatedLedger.  A flush of a "yes" has *)
(* read the parked writes long before it consumes the row; that they are   *)
(* the row's is what the refinement needs beyond ConfInv.                  *)
(***************************************************************************)

\* The writes a "yes" is about to flush are those of the row it answers.
HeldPlan ==
  \A h \in Handlers :
    run[h].pc = "flush" /\ run[h].reply = "done"
      => \A c \in confs : c.id = run[h].conf.id => c.plan = run[h].plan

\* A handler comes to flush parked writes in one way only.
LEMMA HeldSource ==
  ASSUME TypeOK, HandlersOK, [Next]_vars, NEW g \in Handlers,
         run'[g].pc = "flush", run'[g].reply = "done"
  PROVE  run'[g] = run[g] \/ \E c \in confs : Lookup(g, c)
<1> SUFFICES ASSUME run'[g] # run[g] PROVE \E c \in confs : Lookup(g, c)
  OBVIOUS
<1>1. run[g] \in Run
  BY DEF TypeOK
<1>2. PICK h \in Handlers : HandlerStep(h)
  BY DEF Next, vars, ReapProcessed, ReapConfirmations, Tick
<1>3. g = h
  BY <1>2 DEF TypeOK, HandlerStep, Claim, Lookup, LookupNothing, RunAgent, AgentFails,
     Park, Cancel, FlushCommit, FlushSuperseded, Abort, Return
<1>4. ~\E m \in Messages : Claim(g, m)
  BY <1>1 DEF Claim, Idle, TypeOK
<1>5. ~LookupNothing(g)
  BY <1>1 DEF LookupNothing, Run, TypeOK
<1>6. ASSUME NEW p \in Plans, RunAgent(g, p) PROVE FALSE
  <2>1. run'[g].reply = ReplyTo(Risk[p])
    BY <1>1, <1>6 DEF RunAgent, Run, TypeOK
  <2>2. ReplyTo(Risk[p]) \in {"reply", "ask", "rejection"}
    BY RiskAssumption DEF ReplyTo
  <2> QED
    BY <2>1, <2>2
<1>7. ASSUME Park(g) \/ Cancel(g) PROVE FALSE
  <2>1. run'[g].reply = run[g].reply
    BY <1>1, <1>7 DEF Park, Cancel, Run, TypeOK
  <2>2. run[g].reply \in {"ask", "cancelled"}
    BY <1>7 DEF Park, Cancel, At, HandlersOK, LocalsOK
  <2> QED
    BY <2>1, <2>2
<1>8. ~Return(g)
  BY DEF Return, Idle, TypeOK
<1> QED
  BY <1>2, <1>3, <1>4, <1>5, <1>6, <1>7, <1>8
     DEF HandlerStep, AgentFails, FlushCommit, FlushSuperseded, Abort

\* Rows keep their number and their writes, and no new row takes an old number.
LEMMA PlansKept ==
  ASSUME TypeOK, RowsOK, [Next]_vars, NEW n \in Nat, n <= confSeq, NEW p,
         \A c \in confs : c.id = n => c.plan = p
  PROVE  \A c \in confs' : c.id = n => c.plan = p
<1>1. CASE UNCHANGED <<confs, confSeq>>
  BY <1>1
<1>2. ASSUME NEW h \in Handlers, Park(h), ~UNCHANGED <<confs, confSeq>>
      PROVE  \A c \in confs' : c.id = n => c.plan = p
  <2>1. PICK new : new.id = confSeq + 1 /\ confs' = confs \cup {new}
    BY <1>2, ParkAdds
  <2>2. new.id # n
    BY <2>1, RowType
  <2> QED
    BY <2>1, <2>2
<1>3. CASE Retires
  BY <1>3 DEF Retires
<1> QED
  BY <1>1, <1>2, <1>3, ConfSteps, RetireSteps

\* What a "yes" holds stays what the row holds, until it flushes.
LEMMA HeldStep == ConfInv /\ HeldPlan /\ [Next]_vars => HeldPlan'
<1> SUFFICES ASSUME ConfInv, HeldPlan, [Next]_vars, NEW g \in Handlers,
                    run'[g].pc = "flush", run'[g].reply = "done"
             PROVE  \A c \in confs' : c.id = run'[g].conf.id => c.plan = run'[g].plan
  BY DEF HeldPlan
<1>0. TypeOK /\ RowsOK /\ HandlersOK
  BY DEF ConfInv
<1>1. CASE run'[g] = run[g]
  <2>1. run[g].conf.id \in Nat /\ run[g].conf.id <= confSeq
    BY <1>0, RowType DEF HandlersOK, LocalsOK
  <2>2. \A c \in confs : c.id = run[g].conf.id => c.plan = run[g].plan
    BY <1>1 DEF HeldPlan
  <2> QED
    BY <1>0, <1>1, <2>1, <2>2, PlansKept
<1>2. ASSUME NEW d \in confs, Lookup(g, d)
      PROVE  \A c \in confs' : c.id = run'[g].conf.id => c.plan = run'[g].plan
  <2>1. run[g] \in Run
    BY <1>0 DEF TypeOK
  <2>2. run'[g].conf = d /\ run'[g].plan = d.plan /\ confs' = confs
    BY <1>0, <1>2, <2>1 DEF Lookup, TypeOK, Run, tables
  <2> QED
    BY <1>0, <2>2 DEF RowsOK
<1> QED
  BY <1>0, <1>1, <1>2, HeldSource

\* A flush that carries writes enters them after all others.
LEMMA FlushEnters ==
  ASSUME TypeOK, NEW h \in Handlers, FlushCommit(h)
  PROVE  /\ run[h].reply \in LedgerReplies => Gate!Enter(run[h].plan)
         /\ run[h].reply \notin LedgerReplies => Logged' = Logged
<1> DEFINE n == Len(commits)
           Holds(i) == commits[i].reply \in LedgerReplies
           e == [place |-> n + 1, plan |-> run[h].plan]
<1>1. /\ n \in Nat /\ Len(commits') = n + 1 /\ commits'[n + 1] = NewCommit(h)
      /\ \A i \in 1..n : commits'[i] = commits[i]
  BY FlushAppends, TypeFacts
<1>2. 1..(n + 1) = (1..n) \cup {n + 1} /\ n + 1 \notin 1..n
  BY <1>1
<1>3. commits'[n + 1].reply = run[h].reply /\ commits'[n + 1].plan = run[h].plan
  BY <1>1 DEF NewCommit
<1>4. Logged = {[place |-> i, plan |-> commits[i].plan] : i \in {j \in 1..n : Holds(j)}}
  BY DEF Logged
<1>5. Logged' = {[place |-> i, plan |-> commits'[i].plan] :
                   i \in {j \in 1..(n + 1) : commits'[j].reply \in LedgerReplies}}
  BY <1>1 DEF Logged
<1> HIDE DEF n
<1>6. CASE run[h].reply \in LedgerReplies
  <2>1. Logged' = Logged \cup {e}
    <3>1. {j \in 1..(n + 1) : commits'[j].reply \in LedgerReplies}
            = {j \in 1..n : Holds(j)} \cup {n + 1}
      BY <1>1, <1>2, <1>3, <1>6
    <3> QED
      BY <1>1, <1>2, <1>3, <1>4, <1>5, <3>1
  <2>2. \A d \in Logged : d.place \in 1..n
    BY <1>4
  <2>3. e.place = n + 1 /\ e.plan = run[h].plan
    OBVIOUS
  <2>4. e \in Logged' \ Logged /\ \A d \in Logged : d.place < e.place
    BY <1>1, <1>2, <2>1, <2>2, <2>3
  <2> QED
    BY <1>6, <2>1, <2>3, <2>4 DEF Gate!Enter
<1>7. CASE run[h].reply \notin LedgerReplies
  <2>1. {j \in 1..(n + 1) : commits'[j].reply \in LedgerReplies} = {j \in 1..n : Holds(j)}
    BY <1>1, <1>2, <1>3, <1>7
  <2> QED
    BY <1>1, <1>4, <1>5, <1>7, <2>1
<1> QED
  BY <1>6, <1>7

\* The answer of a "yes" takes exactly the row it answers from the open.
LEMMA ConsumeCloses ==
  ASSUME TypeOK, RowsOK, HeldPlan, NEW h \in Handlers, FlushCommit(h),
         run[h].reply = "done"
  PROVE  LET e == [id |-> run[h].conf.id, plan |-> run[h].plan]
         IN  e \in Open /\ Open' = Open \ {e}
<1> DEFINE n == run[h].conf.id
           e == [id |-> n, plan |-> run[h].plan]
           After(c) == IF c.id = n THEN [c EXCEPT !.status = "consumed"] ELSE c
<1>1. \A c \in confs : c.id = n => c.plan = run[h].plan
  BY DEF HeldPlan, FlushCommit, At
<1>2. PICK d \in confs : d.id = n /\ d.status = "pending"
  BY DEF FlushCommit, ConsumeOK, StillPending
<1>3. e \in Open
  BY <1>1, <1>2 DEF Open
<1>4. confs' = {After(c) : c \in confs}
  BY DEF FlushCommit, ConsumeRow
<1>5. \A c \in confs : /\ c.id # n => After(c) = c
                       /\ c.id = n => After(c).status = "consumed"
  BY RowType DEF ConfRow
<1> HIDE DEF After
<1>6. {c \in confs' : c.status = "pending"} = {c \in confs : c.status = "pending" /\ c.id # n}
  BY <1>4, <1>5
<1>7. Open' = {[id |-> c.id, plan |-> c.plan] : c \in {d1 \in confs' : d1.status = "pending"}}
  BY DEF Open
<1>8. \A x : x \in Open' <=> \E c \in confs : /\ c.status = "pending" /\ c.id # n
                                              /\ x = [id |-> c.id, plan |-> c.plan]
  BY <1>6, <1>7
<1>9. \A c \in confs : [id |-> c.id, plan |-> c.plan] = e <=> c.id = n
  BY <1>1
<1>10. \A x : x \in Open <=> \E c \in confs : /\ c.status = "pending"
                                              /\ x = [id |-> c.id, plan |-> c.plan]
  BY DEF Open
<1> HIDE DEF e
<1>11. Open' = Open \ {e}
  BY <1>8, <1>9, <1>10
<1> QED
  BY <1>3, <1>11 DEF e

\* Every step is a step of GatedLedger, or changes nothing it sees.
LEMMA GateStep == ConfInv /\ HeldPlan /\ [Next]_vars => [Gate!Next]_(Gate!vars)
<1> SUFFICES ASSUME ConfInv, HeldPlan, [Next]_vars
             PROVE  Gate!Next \/ UNCHANGED <<Logged, Open, confSeq>>
  BY DEF Gate!vars
<1>0. TypeOK /\ RowsOK /\ HandlersOK
  BY DEF ConfInv
<1>1. ASSUME NEW h \in Handlers, FlushCommit(h)
      PROVE  Gate!Next \/ UNCHANGED <<Logged, Open, confSeq>>
  <2>1. run[h] \in Run /\ run[h].plan \in Plans /\ run[h].reply \in Replies
    BY <1>0 DEF TypeOK, Run
  <2>2. confSeq' = confSeq /\ (run[h].reply # "done" => confs' = confs)
    BY <1>1 DEF FlushCommit
  <2>3. CASE run[h].reply = "reply"
    <3>1. Risk[run[h].plan] = "Safe"
      BY <1>0, <1>1, <2>3 DEF FlushCommit, At, HandlersOK, LocalsOK
    <3>2. Open' = Open
      BY <2>2, <2>3 DEF Open
    <3>3. Gate!Enter(run[h].plan)
      BY <1>0, <1>1, <2>3, FlushEnters DEF LedgerReplies
    <3>4. Gate!Log(run[h].plan)
      BY <2>2, <3>1, <3>2, <3>3 DEF Gate!Log
    <3> QED
      BY <2>1, <3>4 DEF Gate!Next
  <2>4. CASE run[h].reply = "done"
    <3> DEFINE e == [id |-> run[h].conf.id, plan |-> run[h].plan]
    <3>1. e \in Open /\ Open' = Open \ {e} /\ e.plan = run[h].plan
      BY <1>0, <1>1, <2>4, ConsumeCloses
    <3>2. Gate!Enter(run[h].plan)
      BY <1>0, <1>1, <2>4, FlushEnters DEF LedgerReplies
    <3> HIDE DEF e
    <3>3. Gate!Apply(e)
      BY <2>2, <3>1, <3>2 DEF Gate!Apply
    <3> QED
      BY <3>1, <3>3 DEF Gate!Next
  <2>5. CASE run[h].reply \notin LedgerReplies
    <3>1. Open' = Open
      BY <2>2, <2>5 DEF Open, LedgerReplies
    <3>2. Logged' = Logged
      BY <1>0, <1>1, <2>5, FlushEnters
    <3> QED
      BY <2>2, <3>1, <3>2
  <2> QED
    BY <2>3, <2>4, <2>5 DEF LedgerReplies
<1>2. ASSUME NEW h \in Handlers, Park(h)
      PROVE  Gate!Next \/ UNCHANGED <<Logged, Open, confSeq>>
  <2>1. Logged' = Logged
    BY <1>2 DEF Park, Logged
  <2>2. CASE AlreadyParked(run[h].msg)
    BY <1>2, <2>1, <2>2 DEF Park, Open
  <2>3. CASE ~AlreadyParked(run[h].msg)
    <3> DEFINE new == [id |-> confSeq + 1, src |-> run[h].msg, plan |-> run[h].plan,
                       status |-> "pending", expires |-> now + ConfirmTtl]
    <3>1. confSeq' = confSeq + 1 /\ confs' = confs \cup {new}
      BY <1>2, <2>3 DEF Park
    <3>2. /\ new.id = confSeq + 1 /\ new.plan = run[h].plan /\ new.status = "pending"
      OBVIOUS
    <3> HIDE DEF new
    <3>3. Open' = Open \cup {[id |-> confSeq + 1, plan |-> run[h].plan]}
      <4>1. {c \in confs' : c.status = "pending"} = {c \in confs : c.status = "pending"} \cup {new}
        BY <3>1, <3>2
      <4>2. Open' = {[id |-> c.id, plan |-> c.plan] : c \in {d \in confs' : d.status = "pending"}}
        BY DEF Open
      <4> QED
        BY <3>2, <4>1, <4>2 DEF Open
    <3>4. Risk[run[h].plan] = "NeedsConfirmation" /\ run[h].plan \in Plans
      BY <1>0, <1>2 DEF Park, At, HandlersOK, LocalsOK, TypeOK, Run
    <3>5. Gate!Park(run[h].plan)
      BY <2>1, <3>1, <3>3, <3>4 DEF Gate!Park
    <3> QED
      BY <3>4, <3>5 DEF Gate!Next
  <2> QED
    BY <2>2, <2>3
<1>3. ASSUME confSeq' = confSeq, commits' = commits,
             \A c \in confs' : c.status = "pending" => c \in confs
      PROVE  Gate!Next \/ UNCHANGED <<Logged, Open, confSeq>>
  <2>1. Logged' = Logged
    BY <1>3 DEF Logged
  <2>2. Open' \subseteq Open
    <3>1. Open' = {[id |-> c.id, plan |-> c.plan] : c \in {d \in confs' : d.status = "pending"}}
      BY DEF Open
    <3> QED
      BY <1>3, <3>1 DEF Open
  <2>3. Open' = Open \ (Open \ Open') /\ Open \ Open' \in SUBSET Open
    BY <2>2
  <2>4. Gate!Close(Open \ Open')
    BY <1>3, <2>1, <2>3 DEF Gate!Close
  <2> QED
    BY <2>3, <2>4 DEF Gate!Next
<1>4. ASSUME NEW h \in Handlers, Cancel(h)
      PROVE  /\ confSeq' = confSeq /\ commits' = commits
             /\ \A c \in confs' : c.status = "pending" => c \in confs
  BY <1>0, <1>4, RowType DEF Cancel, ConfRow
<1>5. CASE ReapConfirmations
  BY <1>3, <1>5 DEF ReapConfirmations
<1>6. CASE UNCHANGED <<confs, confSeq, commits>>
  BY <1>6 DEF Logged, Open
<1>7. \/ UNCHANGED <<confs, confSeq, commits>>
      \/ \E h \in Handlers : Park(h) \/ Cancel(h) \/ FlushCommit(h)
      \/ ReapConfirmations
  BY DEF Next, HandlerStep, vars, tables, Claim, Lookup, LookupNothing, RunAgent,
         AgentFails, FlushSuperseded, Abort, ReapProcessed, Tick
<1> QED
  BY <1>1, <1>2, <1>3, <1>4, <1>5, <1>6, <1>7

\* Seen from the ledger, concurrent invocations, redeliveries, crashes and late
\* answers are invisible: each flush logs one safe plan or applies one parked
\* write set, as parked, and closes it in that same transaction (flush_writes).
THEOREM GateImplemented == Spec => ImplementsGate
<1>1. Init => Gate!Init /\ HeldPlan
  <2> SUFFICES ASSUME Init PROVE Gate!Init /\ HeldPlan
    OBVIOUS
  <2>1. confs = {} /\ confSeq = 0 /\ 1..Len(commits) = {}
    BY DEF Init
  <2>2. Logged = {} /\ Open = {}
    BY <2>1 DEF Logged, Open
  <2> QED
    BY <2>1, <2>2 DEF Gate!Init, HeldPlan
<1> QED
  BY <1>1, ConfInit, ConfStep, HeldStep, GateStep, PTL DEF Spec, ImplementsGate, Gate!Spec
=============================================================================
