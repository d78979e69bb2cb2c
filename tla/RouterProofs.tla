----------------------------- MODULE RouterProofs -----------------------------
(***************************************************************************)
(* What the router of routes.rs promises: the webhook, for any number of   *)
(* invocations, any window, limit, retention and maxDuration with Window + *)
(* MaxDuration <= Keep; and the probe of /ready beside the migrations it   *)
(* asks about, for any number of deployments and probes, any length of the *)
(* baseline and any set of bundles.                                        *)
(***************************************************************************)
EXTENDS Webhook, Migrations, FiniteSetTheorems, TLAPS

-----------------------------------------------------------------------------
(***************************************************************************)
(* The webhook and its limiter.                                            *)
(***************************************************************************)

\* The invocations whose count for window t is on the way.
Counting(t) ==
  {i \in Invocations : inv[i].pc = "count" /\ WindowStart(inv[i].stamp) = t}

\* A webhook invocation past the gates, as opposed to a cron run.
Serving(i) == inv[i].pc \in {"pool", "stamp", "count", "handle"}

\* An invocation has started, and a stamp was read after the start.
StampsOK ==
  \A i \in Invocations :
    /\ inv[i].started <= now
    /\ inv[i].pc = "count" =>
         inv[i].started <= inv[i].stamp /\ inv[i].stamp <= now

\* The row of a window counts every request the window admitted, until the
\* window is older than the retention.
RowsOK ==
  \A t \in Times : admitted[t] <= count[t] \/ t + Keep < now

\* A row never counts more than the window's stamped requests that are not
\* still on the way.
SpentOK ==
  \A t \in Times :
    /\ IsFiniteSet(Counting(t))
    /\ count[t] + Cardinality(Counting(t)) <= stamped[t]

\* Only an authentic request gets past the gates.
ServedOK == \A i \in Invocations : Serving(i) => inv[i].authentic

-----------------------------------------------------------------------------

LEMMA WindowFacts ==
  /\ Window \in Nat \ {0}
  /\ Limit \in Nat \ {0}
BY RateAssumption DEF Window, Limit

\* window_start truncates to an instant at most one window ago.
LEMMA WindowStartFacts ==
  ASSUME NEW t \in Times
  PROVE  /\ WindowStart(t) \in Times
         /\ WindowStart(t) <= t
         /\ t < WindowStart(t) + Window
<1>1. t % Window \in 0..(Window - 1)
  BY WindowFacts, RateAssumption DEF Times
<1>2. t % Window <= t
  <2>1. t = Window * (t \div Window) + (t % Window) /\ t \div Window \in Int
    BY WindowFacts, RateAssumption DEF Times
  <2>2. t \div Window >= 0
    BY WindowFacts, RateAssumption DEF Times
  <2>3. Window * (t \div Window) >= 0
    BY <2>1, <2>2, WindowFacts
  <2>4. QED BY <1>1, <2>1, <2>3, WindowFacts, RateAssumption DEF Times
<1>3. QED BY <1>1, <1>2, WindowFacts, RateAssumption DEF WindowStart, Times

\* What a gate answers is a status, or 0 to go on; 0 is for the authentic.
LEMMA GateFacts ==
  ASSUME NEW r \in Request, NEW env \in BOOLEAN
  PROVE  /\ Authentic(r) \in BOOLEAN
         /\ Gate(r, env) \in Statuses \cup {0}
         /\ Gate(r, env) = 0 => Authentic(r)
         /\ Gate(r, env) = 200 => r.body # "message"
<1>1. Authentic(r) \in BOOLEAN
  BY RateAssumption DEF Authentic, Request
<1>2. QED BY <1>1, SMT DEF Gate, Statuses, Request, Bodies

\* Every step gives an answer or says that it gives none.
LEMMA ReplyFacts ==
  ASSUME TypeOK, NEW i \in Invocations, NEW status \in Statuses,
         NEW handled \in BOOLEAN, Reply(i, status, handled)
  PROVE  /\ inv' \in [Invocations -> Invocation]
         /\ answer' \in Answer
         /\ inv' = [inv EXCEPT ![i] = Idle]
         /\ answer'.status = status /\ answer'.handled = handled
         /\ answer'.authentic = inv[i].authentic
         /\ answer'.message = inv[i].message
         /\ answer'.stamp = inv[i].stamp
<1>1. Idle \in Invocation
  BY RateAssumption DEF Idle, Invocation, Times
<1>2. inv[i] \in Invocation
  BY DEF TypeOK
<1>3. QED BY <1>1, <1>2 DEF TypeOK, Reply, Answer, Invocation

\* TypeOK is preserved by every step.
LEMMA TypeStep == TypeOK /\ [Next]_vars => TypeOK'
<1> SUFFICES ASSUME TypeOK, [Next]_vars
             PROVE  TypeOK'
  OBVIOUS
<1> USE DEF TypeOK
<1>i. Idle \in Invocation
  BY RateAssumption DEF Idle, Invocation, Times
<1>s. 429 \in Statuses /\ 503 \in Statuses
  BY DEF Statuses
<1>r. ASSUME NEW i \in Invocations, NEW status \in Statuses,
             Reply(i, status, FALSE)
      PROVE  inv' \in [Invocations -> Invocation] /\ answer' \in Answer
  BY <1>r, ReplyFacts
<1>1. ASSUME NEW r \in Request, NEW env \in BOOLEAN, Refuse(r, env)
      PROVE  TypeOK'
  <2>1. answer' \in Answer
    BY <1>1, GateFacts, RateAssumption DEF Refuse, Answer, Times
  <2>2. QED BY <1>1, <2>1 DEF Refuse
<1>2. ASSUME NEW i \in Invocations, NEW r \in Request, Arrive(i, r)
      PROVE  TypeOK'
  <2>1. inv' \in [Invocations -> Invocation]
    BY <1>2, <1>i, GateFacts DEF Arrive, Invocation, Idle
  <2>2. requests' \in 0..MaxRequests
    BY <1>2, RateAssumption DEF Arrive
  <2>3. QED BY <1>2, <2>1, <2>2 DEF Arrive, Silent
<1>3. ASSUME NEW i \in Invocations, Connect(i)
      PROVE  TypeOK'
  <2>1. CASE Goto(i, "stamp") /\ Silent
    BY <1>3, <2>1 DEF Connect, Goto, Silent, Invocation
  <2>2. CASE Reply(i, 503, FALSE)
    BY <1>3, <1>r, <1>s, <2>2 DEF Connect
  <2>3. QED BY <1>3, <2>1, <2>2 DEF Connect
<1>4. ASSUME NEW i \in Invocations, Stamp(i)
      PROVE  TypeOK'
  <2>1. inv' \in [Invocations -> Invocation]
    BY <1>4 DEF Stamp, Invocation
  <2>2. stamped' \in [Times -> Nat]
    BY <1>4, WindowStartFacts DEF Stamp
  <2>3. QED BY <1>4, <2>1, <2>2 DEF Stamp, Silent
<1>5. ASSUME NEW i \in Invocations, Increment(i)
      PROVE  count' \in [Times -> Nat]
  BY <1>5, WindowStartFacts DEF Increment, Bucket, Invocation
<1>6. ASSUME NEW i \in Invocations, Count(i)
      PROVE  TypeOK'
  <2>1. CASE /\ Goto(i, "handle") /\ Silent
             /\ admitted' = [admitted EXCEPT ![WindowStart(inv[i].stamp)] = @ + 1]
    <3>1. inv' \in [Invocations -> Invocation]
      BY <2>1 DEF Goto, Invocation
    <3>2. admitted' \in [Times -> Nat]
      <4>1. inv[i].stamp \in Times
        BY DEF Invocation
      <4>2. WindowStart(inv[i].stamp) \in Times
        BY <4>1, WindowStartFacts
      <4>3. QED BY <2>1, <4>2
    <3>3. QED BY <1>5, <1>6, <2>1, <3>1, <3>2 DEF Count, Silent
  <2>2. CASE Reply(i, 429, FALSE) /\ UNCHANGED admitted
    BY <1>5, <1>6, <1>r, <1>s, <2>2 DEF Count
  <2>3. QED BY <1>6, <2>1, <2>2 DEF Count
<1>7. ASSUME NEW i \in Invocations, CountFails(i)
      PROVE  TypeOK'
  <2>1. inv' \in [Invocations -> Invocation] /\ answer' \in Answer
    BY <1>7, <1>r, <1>s DEF CountFails
  <2>2. count' \in [Times -> Nat]
    BY <1>5, <1>7 DEF CountFails
  <2>3. QED BY <1>7, <2>1, <2>2 DEF CountFails
<1>8. ASSUME NEW i \in Invocations, NEW ok \in BOOLEAN, Handle(i, ok)
      PROVE  TypeOK'
  <2>1. StatusOf(ok) \in Statuses /\ (ok /\ inv[i].message) \in BOOLEAN
    BY DEF StatusOf, Statuses, Invocation
  <2>2. QED BY <1>8, <2>1, ReplyFacts DEF Handle
<1>9. ASSUME NEW i \in Invocations, Abort(i)
      PROVE  TypeOK'
  BY <1>9, <1>i DEF Abort, Silent
<1>10. ASSUME NEW i \in Invocations, Cron(i)
       PROVE  TypeOK'
  BY <1>10, <1>i DEF Cron, Silent, Idle, Invocation
<1>11. ASSUME NEW i \in Invocations, Reap(i)
       PROVE  TypeOK'
  BY <1>11, <1>i DEF Reap, Silent
<1>12. CASE Tick
  BY <1>12, RateAssumption DEF Tick, Silent, Times
<1>13. CASE UNCHANGED vars
  BY <1>13 DEF vars
<1>14. QED
  BY <1>1, <1>2, <1>3, <1>4, <1>6, <1>7, <1>8, <1>9, <1>10, <1>11, <1>12,
     <1>13 DEF Next

\* TypeOK holds in every state of the webhook: in particular a window's start
\* is never before the clock's origin, so a count always has a row to go to.
THEOREM TypeCorrect == Spec => []TypeOK
<1>1. Init => TypeOK
  BY RateAssumption DEF Init, TypeOK, Times, Idle, Invocation
<1>2. QED BY <1>1, TypeStep, PTL DEF Spec

-----------------------------------------------------------------------------
(***************************************************************************)
(* One step per operation on the four parts of the invariant.              *)
(***************************************************************************)

\* StampsOK is preserved: the clock only moves forward, and a stamp is the
\* clock of a step after the start.
LEMMA StampsStep == TypeOK /\ StampsOK /\ [Next]_vars => StampsOK'
<1> SUFFICES ASSUME TypeOK, StampsOK, [Next]_vars
             PROVE  StampsOK'
  OBVIOUS
<1> USE DEF StampsOK
<1>t. now \in Nat /\ inv \in [Invocations -> Invocation]
  BY RateAssumption DEF TypeOK, Times
<1>v. \A i \in Invocations : inv[i].started \in Nat /\ inv[i].stamp \in Nat
  BY RateAssumption DEF TypeOK, Times, Invocation
<1>i. Idle.started = 0 /\ Idle.pc = "idle"
  BY DEF Idle
<1>g. ASSUME NEW i \in Invocations, NEW p \in {"stamp", "handle"}, Goto(i, p),
             now' = now
      PROVE  StampsOK'
  BY <1>t, <1>g DEF Goto, Invocation
<1>a. ASSUME NEW i \in Invocations, inv' = [inv EXCEPT ![i] = Idle], now' = now
      PROVE  StampsOK'
  BY <1>t, <1>a, <1>i
<1>1. ASSUME NEW r \in Request, NEW env \in BOOLEAN, Refuse(r, env)
      PROVE  StampsOK'
  BY <1>1 DEF Refuse
<1>2. ASSUME NEW i \in Invocations, NEW r \in Request, Arrive(i, r)
      PROVE  StampsOK'
  BY <1>2, <1>t DEF Arrive, Idle
<1>3. ASSUME NEW i \in Invocations, Connect(i)
      PROVE  StampsOK'
  BY <1>3, <1>g, <1>a DEF Connect, Reply
<1>4. ASSUME NEW i \in Invocations, Stamp(i)
      PROVE  StampsOK'
  BY <1>4, <1>t, <1>v DEF Stamp, Invocation
<1>6. ASSUME NEW i \in Invocations, Count(i)
      PROVE  StampsOK'
  BY <1>6, <1>g, <1>a DEF Count, Reply
<1>7. ASSUME NEW i \in Invocations, CountFails(i)
      PROVE  StampsOK'
  BY <1>7, <1>a DEF CountFails, Reply
<1>8. ASSUME NEW i \in Invocations, NEW ok \in BOOLEAN, Handle(i, ok)
      PROVE  StampsOK'
  BY <1>8, <1>a DEF Handle, Reply
<1>9. ASSUME NEW i \in Invocations, Abort(i)
      PROVE  StampsOK'
  BY <1>9, <1>a DEF Abort
<1>10. ASSUME NEW i \in Invocations, Cron(i)
       PROVE  StampsOK'
  BY <1>10, <1>t DEF Cron, Idle
<1>11. ASSUME NEW i \in Invocations, Reap(i)
       PROVE  StampsOK'
  BY <1>11, <1>a DEF Reap
<1>12. CASE Tick
  BY <1>12, <1>t, <1>v DEF Tick
<1>13. CASE UNCHANGED vars
  BY <1>13 DEF vars
<1>14. QED
  BY <1>1, <1>2, <1>3, <1>4, <1>6, <1>7, <1>8, <1>9, <1>10, <1>11, <1>12,
     <1>13 DEF Next

\* A count that is still in time goes to a row the cron may not have reaped:
\* the row is younger than the retention (Window + MaxDuration <= Keep).
LEMMA LiveRow ==
  ASSUME TypeOK, StampsOK, NEW i \in Invocations, At(i, "count")
  PROVE  /\ Bucket(i) \in Times
         /\ Bucket(i) + Keep >= now
<1>1. inv[i].stamp \in Times /\ inv[i].started \in Times /\ now \in Times
  BY DEF TypeOK, Invocation
<1>2. /\ Bucket(i) \in Times
      /\ inv[i].stamp < Bucket(i) + Window
  BY <1>1, WindowStartFacts DEF Bucket
<1>3. now <= inv[i].started + MaxDuration /\ inv[i].started <= inv[i].stamp
  BY DEF StampsOK, At
<1>4. QED
  BY <1>1, <1>2, <1>3, WindowFacts, RateAssumption DEF Times

\* RowsOK is preserved, and no window is admitted more than Limit times.
LEMMA RowsStep ==
  TypeOK /\ StampsOK /\ RowsOK /\ AdmittedPerWindow /\ [Next]_vars
    => (RowsOK /\ AdmittedPerWindow)'
<1> SUFFICES ASSUME TypeOK, StampsOK, RowsOK, AdmittedPerWindow, [Next]_vars
             PROVE  (RowsOK /\ AdmittedPerWindow)'
  OBVIOUS
<1>t. /\ now \in Nat /\ Keep \in Nat /\ Times \subseteq Nat
      /\ count \in [Times -> Nat] /\ admitted \in [Times -> Nat]
  BY RateAssumption DEF TypeOK, Times
<1>u. ASSUME UNCHANGED <<now, count, admitted>>
      PROVE  (RowsOK /\ AdmittedPerWindow)'
  BY <1>u DEF RowsOK, AdmittedPerWindow
<1>5. ASSUME NEW i \in Invocations, At(i, "count"), Increment(i), now' = now,
             UNCHANGED admitted
      PROVE  (RowsOK /\ AdmittedPerWindow)'
  BY <1>5, <1>t, LiveRow DEF RowsOK, AdmittedPerWindow, Increment
<1>6. ASSUME NEW i \in Invocations, Count(i)
      PROVE  (RowsOK /\ AdmittedPerWindow)'
  <2>1. CASE /\ Allowed(count[Bucket(i)] + 1)
             /\ admitted' = [admitted EXCEPT ![WindowStart(inv[i].stamp)] = @ + 1]
    <3>1. Bucket(i) \in Times /\ admitted[Bucket(i)] <= count[Bucket(i)]
      <4>1. Bucket(i) \in Times /\ Bucket(i) + Keep >= now
        BY <1>6, LiveRow DEF Count
      <4>2. Bucket(i) \in Nat
        BY <1>t, <4>1
      <4>3. QED BY <1>t, <4>1, <4>2 DEF RowsOK
    <3>2. admitted[Bucket(i)] + 1 <= Limit
      <4>1. count[Bucket(i)] + 1 <= Limit
        BY <2>1 DEF Allowed
      <4>2. count[Bucket(i)] \in Nat /\ admitted[Bucket(i)] \in Nat
        BY <3>1, <1>t
      <4>3. QED BY <3>1, <4>1, <4>2, WindowFacts
    <3>3. /\ admitted' = [admitted EXCEPT ![Bucket(i)] = @ + 1]
          /\ count' = [count EXCEPT ![Bucket(i)] = @ + 1]
          /\ now' = now
      BY <1>6, <2>1 DEF Count, Increment, Bucket
    <3>4. QED BY <1>t, <3>1, <3>2, <3>3 DEF RowsOK, AdmittedPerWindow
  <2>2. CASE UNCHANGED admitted
    BY <1>5, <1>6, <2>2 DEF Count
  <2>3. QED BY <1>6, <2>1, <2>2 DEF Count
<1>7. ASSUME NEW i \in Invocations, CountFails(i)
      PROVE  (RowsOK /\ AdmittedPerWindow)'
  BY <1>5, <1>7, <1>u DEF CountFails
<1>11. ASSUME NEW i \in Invocations, Reap(i)
       PROVE  (RowsOK /\ AdmittedPerWindow)'
  <2>1. inv[i].started \in Nat /\ inv[i].started <= now
    BY <1>t DEF TypeOK, StampsOK, Invocation
  <2>2. \A t \in Times : count'[t] = count[t] \/ t + Keep < now
    BY <1>11, <1>t, <2>1 DEF Reap, Reapable
  <2>3. QED BY <1>11, <1>t, <2>2 DEF Reap, RowsOK, AdmittedPerWindow
<1>12. CASE Tick
  BY <1>12, <1>t DEF Tick, RowsOK, AdmittedPerWindow
<1>13. CASE UNCHANGED vars
  BY <1>13, <1>u DEF vars
<1>14. QED
  BY <1>u, <1>6, <1>7, <1>11, <1>12, <1>13
     DEF Next, Refuse, Arrive, Connect, Stamp, Handle, Abort, Cron

\* At most Limit requests of one window reach the service (durable_rate_ok,
\* check_and_increment), whatever the number of concurrent invocations and
\* whenever the cron reaps the limiter's rows: the bound survives because a
\* row outlives every count that may still go to it.
THEOREM AdmissionBounded == Spec => []AdmittedPerWindow
<1>1. Init => StampsOK /\ RowsOK /\ AdmittedPerWindow
  BY WindowFacts, RateAssumption
     DEF Init, StampsOK, RowsOK, AdmittedPerWindow, Idle, Times
<1>2. QED BY <1>1, StampsStep, RowsStep, TypeCorrect, PTL DEF Spec

-----------------------------------------------------------------------------
(***************************************************************************)
(* Who spends the budget.                                                  *)
(***************************************************************************)

\* The counts on the way change only by the invocation that steps.
LEMMA CountingWithout ==
  ASSUME TypeOK, NEW i \in Invocations, NEW v, v.pc # "count",
         inv' = [inv EXCEPT ![i] = v], NEW t \in Times
  PROVE  Counting(t)' = Counting(t) \ {i}
BY DEF Counting, TypeOK

\* An invocation that is not counting leaves no count on the way.
LEMMA CountingSame ==
  ASSUME TypeOK, NEW i \in Invocations, NEW v, v.pc # "count",
         inv[i].pc # "count", inv' = [inv EXCEPT ![i] = v], NEW t \in Times
  PROVE  Counting(t)' = Counting(t)
BY DEF Counting, TypeOK

\* SpentOK does not depend on who else counts.
LEMMA SpentDrops ==
  ASSUME TypeOK, SpentOK, NEW i \in Invocations, NEW v, v.pc # "count",
         inv' = [inv EXCEPT ![i] = v], UNCHANGED stamped,
         count' = count \/ (inv[i].pc = "count" /\ Increment(i))
  PROVE  SpentOK'
<1>t. count \in [Times -> Nat] /\ stamped \in [Times -> Nat]
  BY DEF TypeOK
<1> SUFFICES ASSUME NEW t \in Times
             PROVE  /\ IsFiniteSet(Counting(t)')
                    /\ count'[t] + Cardinality(Counting(t)') <= stamped'[t]
  BY DEF SpentOK
<1>1. /\ IsFiniteSet(Counting(t)) /\ Cardinality(Counting(t)) \in Nat
      /\ count[t] + Cardinality(Counting(t)) <= stamped[t]
  BY FS_CardinalityType DEF SpentOK
<1>2. Counting(t)' = Counting(t) \ {i}
  BY CountingWithout
<1>3. /\ IsFiniteSet(Counting(t) \ {i})
      /\ Cardinality(Counting(t) \ {i}) =
           IF i \in Counting(t) THEN Cardinality(Counting(t)) - 1
                                ELSE Cardinality(Counting(t))
  BY <1>1, FS_RemoveElement
<1>4. CASE count' = count
  BY <1>t, <1>1, <1>2, <1>3, <1>4
<1>5. CASE inv[i].pc = "count" /\ Increment(i)
  <2>1. CASE t = Bucket(i)
    <3>1. i \in Counting(t) /\ count'[t] = count[t] + 1
      BY <1>5, <1>t, <2>1 DEF Counting, Bucket, Increment
    <3>2. QED BY <1>t, <1>1, <1>2, <1>3, <3>1
  <2>2. CASE t # Bucket(i)
    <3>1. count'[t] = count[t]
      BY <1>5, <1>t, <2>2 DEF Increment
    <3>2. QED BY <1>t, <1>1, <1>2, <1>3, <3>1
  <2>3. QED BY <2>1, <2>2
<1>6. QED BY <1>4, <1>5

\* SpentOK is preserved by every step.
LEMMA SpentStep == TypeOK /\ SpentOK /\ [Next]_vars => SpentOK'
<1> SUFFICES ASSUME TypeOK, SpentOK, [Next]_vars
             PROVE  SpentOK'
  OBVIOUS
<1>t. /\ count \in [Times -> Nat] /\ stamped \in [Times -> Nat] /\ now \in Times
      /\ inv \in [Invocations -> Invocation]
  BY DEF TypeOK
<1>u. ASSUME UNCHANGED <<inv, count, stamped>>
      PROVE  SpentOK'
  BY <1>u DEF SpentOK, Counting
<1>i. Idle.pc # "count"
  BY DEF Idle
<1>a. ASSUME NEW i \in Invocations, inv' = [inv EXCEPT ![i] = Idle],
             UNCHANGED stamped,
             count' = count \/ (inv[i].pc = "count" /\ Increment(i))
      PROVE  SpentOK'
  BY <1>a, <1>i, SpentDrops
<1>g. ASSUME NEW i \in Invocations, NEW p \in {"stamp", "handle"}, Goto(i, p),
             UNCHANGED stamped,
             count' = count \/ (inv[i].pc = "count" /\ Increment(i))
      PROVE  SpentOK'
  <2> DEFINE v == [inv[i] EXCEPT !.pc = p]
  <2>1. inv' = [inv EXCEPT ![i] = v]
    BY <1>g DEF Goto
  <2>2. v.pc # "count"
    BY <1>t DEF Invocation
  <2> HIDE DEF v
  <2>3. QED BY <1>g, <2>1, <2>2, SpentDrops
<1>1. ASSUME NEW r \in Request, NEW env \in BOOLEAN, Refuse(r, env)
      PROVE  SpentOK'
  BY <1>1, <1>u DEF Refuse
<1>2. ASSUME NEW i \in Invocations, NEW r \in Request, Arrive(i, r)
      PROVE  SpentOK'
  <2> DEFINE v == [Idle EXCEPT !.pc = "pool", !.started = now,
                   !.authentic = Authentic(r), !.message = r.body = "message"]
  <2>1. inv' = [inv EXCEPT ![i] = v] /\ UNCHANGED <<stamped, count>>
    BY <1>2 DEF Arrive
  <2>2. v.pc # "count"
    BY DEF Idle
  <2> HIDE DEF v
  <2>3. QED BY <2>1, <2>2, SpentDrops
<1>3. ASSUME NEW i \in Invocations, Connect(i)
      PROVE  SpentOK'
  BY <1>3, <1>g, <1>a DEF Connect, Reply
<1>4. ASSUME NEW i \in Invocations, Stamp(i)
      PROVE  SpentOK'
  <2> SUFFICES ASSUME NEW t \in Times
               PROVE  /\ IsFiniteSet(Counting(t)')
                      /\ count'[t] + Cardinality(Counting(t)') <= stamped'[t]
    BY DEF SpentOK
  <2>1. /\ IsFiniteSet(Counting(t)) /\ Cardinality(Counting(t)) \in Nat
        /\ count[t] + Cardinality(Counting(t)) <= stamped[t]
    BY FS_CardinalityType DEF SpentOK
  <2>2. /\ inv[i].pc = "stamp"
        /\ \A j \in Invocations : j # i => inv'[j] = inv[j]
        /\ inv'[i].pc = "count" /\ inv'[i].stamp = now
    BY <1>4, <1>t DEF Stamp, At, Invocation
  <2>3. /\ count' = count
        /\ stamped' = [stamped EXCEPT ![WindowStart(now)] = @ + 1]
    BY <1>4 DEF Stamp
  <2>4. CASE t = WindowStart(now)
    <3>1. Counting(t)' = Counting(t) \cup {i} /\ i \notin Counting(t)
      BY <2>2, <2>4 DEF Counting
    <3>2. /\ IsFiniteSet(Counting(t) \cup {i})
          /\ Cardinality(Counting(t) \cup {i}) = Cardinality(Counting(t)) + 1
      BY <2>1, <3>1, FS_AddElement
    <3>3. stamped'[t] = stamped[t] + 1
      BY <1>t, <2>3, <2>4
    <3>4. QED BY <1>t, <2>1, <2>3, <3>1, <3>2, <3>3
  <2>5. CASE t # WindowStart(now)
    <3>1. Counting(t)' = Counting(t)
      BY <2>2, <2>5 DEF Counting
    <3>2. stamped'[t] = stamped[t]
      BY <1>t, <2>3, <2>5
    <3>3. QED BY <2>1, <2>3, <3>1, <3>2
  <2>6. QED BY <2>4, <2>5
<1>6. ASSUME NEW i \in Invocations, Count(i)
      PROVE  SpentOK'
  BY <1>6, <1>g, <1>a DEF Count, Reply, At
<1>7. ASSUME NEW i \in Invocations, CountFails(i)
      PROVE  SpentOK'
  BY <1>7, <1>a DEF CountFails, Reply, At
<1>8. ASSUME NEW i \in Invocations, NEW ok \in BOOLEAN, Handle(i, ok)
      PROVE  SpentOK'
  BY <1>8, <1>a DEF Handle, Reply
<1>9. ASSUME NEW i \in Invocations, Abort(i)
      PROVE  SpentOK'
  BY <1>9, <1>a DEF Abort
<1>10. ASSUME NEW i \in Invocations, Cron(i)
       PROVE  SpentOK'
  <2> DEFINE v == [Idle EXCEPT !.pc = "reap", !.started = now]
  <2>1. inv' = [inv EXCEPT ![i] = v] /\ UNCHANGED <<stamped, count>>
    BY <1>10 DEF Cron
  <2>2. v.pc # "count"
    BY DEF Idle
  <2> HIDE DEF v
  <2>3. QED BY <2>1, <2>2, SpentDrops
<1>11. ASSUME NEW i \in Invocations, Reap(i)
       PROVE  SpentOK'
  <2> SUFFICES ASSUME NEW t \in Times
               PROVE  /\ IsFiniteSet(Counting(t)')
                      /\ count'[t] + Cardinality(Counting(t)') <= stamped'[t]
    BY DEF SpentOK
  <2>1. /\ IsFiniteSet(Counting(t)) /\ Cardinality(Counting(t)) \in Nat
        /\ count[t] + Cardinality(Counting(t)) <= stamped[t]
    BY FS_CardinalityType DEF SpentOK
  <2>2. Counting(t)' = Counting(t)
    BY <1>11, <1>i, CountingSame DEF Reap, At
  <2>3. count'[t] \in {0, count[t]} /\ stamped' = stamped
    BY <1>11 DEF Reap
  <2>4. QED BY <1>t, <2>1, <2>2, <2>3
<1>12. CASE Tick
  BY <1>12, <1>u DEF Tick
<1>13. CASE UNCHANGED vars
  BY <1>13, <1>u DEF vars
<1>14. QED
  BY <1>1, <1>2, <1>3, <1>4, <1>6, <1>7, <1>8, <1>9, <1>10, <1>11, <1>12,
     <1>13 DEF Next

\* A 429 is given only in a window whose requests past the gates exceed the
\* limit: a row counts no other request, and none twice (check_and_increment).
THEOREM OnlyTheTokenSpends == Spec => []LimitedOnlyWhenSpent
<1>1. Init => SpentOK /\ LimitedOnlyWhenSpent
  <2> SUFFICES ASSUME Init
               PROVE  SpentOK /\ LimitedOnlyWhenSpent
    OBVIOUS
  <2>1. \A t \in Times : Counting(t) = {}
    BY DEF Init, Counting, Idle
  <2>2. SpentOK
    BY <2>1, FS_EmptySet DEF SpentOK, Init
  <2>3. LimitedOnlyWhenSpent
    BY DEF Init, LimitedOnlyWhenSpent
  <2>4. QED BY <2>2, <2>3
<1>2. TypeOK /\ SpentOK /\ LimitedOnlyWhenSpent /\ [Next]_vars
        => LimitedOnlyWhenSpent'
  <2> SUFFICES ASSUME TypeOK, SpentOK, LimitedOnlyWhenSpent, [Next]_vars,
                      answer' # NoAnswer, answer'.status = 429
               PROVE  stamped'[WindowStart(answer'.stamp)] > Limit
    BY DEF LimitedOnlyWhenSpent
  <2>1. ASSUME NEW i \in Invocations, Count(i)
        PROVE  stamped'[WindowStart(answer'.stamp)] > Limit
    <3>1. /\ ~Allowed(count[Bucket(i)] + 1) /\ answer'.stamp = inv[i].stamp
          /\ stamped' = stamped /\ inv[i].pc = "count"
      BY <2>1 DEF Count, Silent, Reply, At
    <3>2. Bucket(i) \in Times /\ i \in Counting(Bucket(i))
      BY <3>1, WindowStartFacts DEF Bucket, Counting, TypeOK, Invocation
    <3>3. Cardinality(Counting(Bucket(i))) \in Nat \ {0}
      BY <3>2, FS_CardinalityType, FS_EmptySet DEF SpentOK
    <3>4. count[Bucket(i)] \in Nat /\ stamped[Bucket(i)] \in Nat
      BY <3>2 DEF TypeOK
    <3>5. count[Bucket(i)] + Cardinality(Counting(Bucket(i)))
            <= stamped[Bucket(i)]
      BY <3>2 DEF SpentOK
    <3>6. stamped[Bucket(i)] > Limit
      BY <3>1, <3>3, <3>4, <3>5, WindowFacts DEF Allowed
    <3>7. QED BY <3>1, <3>6 DEF Bucket
  <2>2. ASSUME NEW r \in Request, NEW env \in BOOLEAN, Refuse(r, env)
        PROVE  FALSE
    BY <2>2, SMT DEF Refuse, Gate
  <2>3. CASE UNCHANGED vars
    BY <2>3 DEF vars, LimitedOnlyWhenSpent
  <2>4. ASSUME NEW i \in Invocations, Connect(i) \/ CountFails(i)
        PROVE  FALSE
    BY <2>4 DEF Connect, CountFails, Reply, Silent
  <2>5. ASSUME NEW i \in Invocations, NEW ok \in BOOLEAN, Handle(i, ok)
        PROVE  FALSE
    BY <2>5 DEF Handle, Reply, StatusOf
  <2>6. ~Silent
    BY DEF Silent
  <2>7. QED
    BY <2>1, <2>2, <2>3, <2>4, <2>5, <2>6
       DEF Next, Arrive, Stamp, Abort, Cron, Reap, Tick
<1>3. QED BY <1>1, <1>2, SpentStep, TypeCorrect, PTL DEF Spec

\* Only authentic requests are handled, and a message of the user is
\* acknowledged with a 200 only when the service returned without an error
\* (sendblue_webhook's order of gates and its answers).
THEOREM NoLossByAcknowledgement == Spec => []AcknowledgedMeansHandled
<1>1. Init => ServedOK /\ AcknowledgedMeansHandled
  BY DEF Init, ServedOK, Serving, Idle, AcknowledgedMeansHandled
<1>2. TypeOK /\ ServedOK /\ [Next]_vars => ServedOK'
  <2> SUFFICES ASSUME TypeOK, ServedOK, [Next]_vars
               PROVE  ServedOK'
    OBVIOUS
  <2>t. inv \in [Invocations -> Invocation]
    BY DEF TypeOK
  <2>a. ASSUME NEW i \in Invocations, inv' = [inv EXCEPT ![i] = Idle]
        PROVE  ServedOK'
    BY <2>a, <2>t DEF ServedOK, Serving, Idle
  <2>g. ASSUME NEW i \in Invocations, NEW p, Goto(i, p), Serving(i)
        PROVE  ServedOK'
    BY <2>g, <2>t DEF Goto, ServedOK, Serving, Invocation
  <2>1. ASSUME NEW i \in Invocations, NEW r \in Request, Arrive(i, r)
        PROVE  ServedOK'
    BY <2>1, <2>t, GateFacts DEF Arrive, ServedOK, Serving, Idle
  <2>2. ASSUME NEW i \in Invocations, Connect(i)
        PROVE  ServedOK'
    BY <2>2, <2>a, <2>g DEF Connect, Reply, At, Serving
  <2>3. ASSUME NEW i \in Invocations, Stamp(i)
        PROVE  ServedOK'
    BY <2>3, <2>t DEF Stamp, At, ServedOK, Serving, Invocation
  <2>4. ASSUME NEW i \in Invocations, Count(i)
        PROVE  ServedOK'
    BY <2>4, <2>a, <2>g DEF Count, Reply, At, Serving
  <2>5. ASSUME NEW i \in Invocations, Cron(i)
        PROVE  ServedOK'
    BY <2>5, <2>t DEF Cron, ServedOK, Serving, Idle
  <2>6. CASE UNCHANGED inv
    BY <2>6 DEF ServedOK, Serving
  <2>7. QED
    BY <2>a, <2>1, <2>2, <2>3, <2>4, <2>5, <2>6
       DEF Next, Refuse, CountFails, Handle, Abort, Reap, Tick, Reply, vars
<1>3. TypeOK /\ ServedOK /\ AcknowledgedMeansHandled /\ [Next]_vars
        => AcknowledgedMeansHandled'
  <2> SUFFICES ASSUME TypeOK, ServedOK, AcknowledgedMeansHandled, [Next]_vars
               PROVE  AcknowledgedMeansHandled'
    OBVIOUS
  <2>1. ASSUME NEW r \in Request, NEW env \in BOOLEAN, Refuse(r, env)
        PROVE  AcknowledgedMeansHandled'
    <3>1. Gate(r, env) = 200 => r.body # "message"
      BY GateFacts
    <3>2. /\ answer'.status = Gate(r, env) /\ answer'.handled = FALSE
          /\ answer'.message = (r.body = "message")
      BY <2>1 DEF Refuse
    <3>3. QED BY <3>1, <3>2 DEF AcknowledgedMeansHandled
  <2>2. ASSUME NEW i \in Invocations, NEW ok \in BOOLEAN, Handle(i, ok)
        PROVE  AcknowledgedMeansHandled'
    <3>1. inv[i].authentic /\ inv[i].message \in BOOLEAN
      BY <2>2 DEF Handle, At, ServedOK, Serving, TypeOK, Invocation
    <3>2. /\ answer'.status = StatusOf(ok)
          /\ answer'.handled = (ok /\ inv[i].message)
          /\ answer'.authentic = inv[i].authentic
          /\ answer'.message = inv[i].message
      BY <2>2 DEF Handle, Reply
    <3>3. QED BY <3>1, <3>2 DEF AcknowledgedMeansHandled, StatusOf
  <2>3. CASE Silent
    BY <2>3 DEF Silent, AcknowledgedMeansHandled
  <2>4. CASE UNCHANGED vars
    BY <2>4 DEF vars, AcknowledgedMeansHandled
  <2>5. ASSUME NEW i \in Invocations, Connect(i) \/ Count(i) \/ CountFails(i)
        PROVE  AcknowledgedMeansHandled'
    <3>1. Silent \/ (answer'.status \in {429, 503} /\ answer'.handled = FALSE)
      BY <2>5 DEF Connect, Count, CountFails, Reply
    <3>2. QED BY <2>3, <3>1 DEF AcknowledgedMeansHandled
  <2>6. QED
    BY <2>1, <2>2, <2>3, <2>4, <2>5
       DEF Next, Arrive, Stamp, Abort, Cron, Reap, Tick
<1>4. QED BY <1>1, <1>2, <1>3, TypeCorrect, PTL DEF Spec

-----------------------------------------------------------------------------
(***************************************************************************)
(* The migrations and the probe.                                           *)
(***************************************************************************)
\* The first n versions.
Seg(n) == 0..(n - 1)

IsSeg(S) == \E n \in 0..Newest : S = Seg(n)

Increasing(s) == \A i, j \in DOMAIN s : i < j => s[i] < s[j]

\* The schema has the first so many objects.  A database without the tracking
\* table is one the old tooling left.
DbOK ==
  /\ IsSeg(db.objects)
  /\ db.tracked => db.applied = db.objects
  /\ ~db.tracked => /\ db.applied = {}
                    /\ db.objects \in {{}, Seg(LegacyCount - 1), Seg(LegacyCount)}

\* What was executed is there, in order.
HistoryOK ==
  /\ Increasing(executed)
  /\ \A i \in DOMAIN executed : executed[i] \in db.objects

\* What a run with the lock sees: the committed database until its loop, and
\* in it a longer segment, whose new versions are those it executed in order.
InLoop(r) ==
  /\ r.view.tracked
  /\ r.view.applied = r.view.objects
  /\ IsSeg(r.view.objects)
  /\ db.objects \subseteq r.view.objects
  /\ Seg(r.next) \subseteq r.view.objects
  /\ Increasing(r.did)
  /\ \A i \in DOMAIN r.did : r.did[i] \in r.view.objects \ db.objects

RunOK(d) ==
  LET r == run[d] IN
  /\ r.pc \in {"locked", "tracked", "loop"} => lock = d
  /\ r.pc # "loop" => r.did = <<>> /\ r.next = 0
  /\ r.pc = "locked" => r.view = db
  /\ r.pc = "tracked" => r.view = [db EXCEPT !.tracked = TRUE]
  /\ r.pc = "loop" => InLoop(r)

\* A table that was seen is still there, and a schema that was enough is enough.
ProbeOK(p) ==
  /\ probe[p].seen => db.tracked
  /\ probe[p].answer = "ok" => Seg(probe[p].bundle) \subseteq db.objects

MigrationsInv ==
  /\ DbOK
  /\ HistoryOK
  /\ \A d \in Deploys : RunOK(d)
  /\ \A p \in Probes : ProbeOK(p)

-----------------------------------------------------------------------------

LEMMA NewestFacts ==
  /\ Newest \in Bundles /\ Newest \in Nat /\ Newest > LegacyCount
  /\ \A k \in Bundles : k \in Nat /\ LegacyCount < k /\ k <= Newest
  /\ LegacyCount \in Nat /\ LegacyCount >= 2
<1>1. Newest \in Bundles /\ \A k \in Bundles : k <= Newest
  BY MigrationsAssumption DEF Newest
<1>2. QED BY <1>1, MigrationsAssumption

LEMMA DatabaseFacts ==
  /\ Empty \in Database
  /\ Legacy(LegacyCount - 1) \in Database
  /\ Legacy(LegacyCount) \in Database
  /\ NoRun \in Run
<1>1. 0..(LegacyCount - 2) \subseteq Versions /\ 0..(LegacyCount - 1) \subseteq Versions
  BY NewestFacts DEF Versions
<1>2. Empty \in Database /\ Legacy(LegacyCount - 1) \in Database
        /\ Legacy(LegacyCount) \in Database
  BY <1>1, NewestFacts DEF Empty, Legacy, Database
<1>3. QED BY <1>2, NewestFacts DEF NoRun, Run

\* MigrationsTypeOK is preserved by every step.
LEMMA MigrationsTypeStep == MigrationsTypeOK /\ [MigrationsNext]_migrationsVars => MigrationsTypeOK'
<1> SUFFICES ASSUME MigrationsTypeOK, [MigrationsNext]_migrationsVars
             PROVE  MigrationsTypeOK'
  OBVIOUS
<1> USE DEF MigrationsTypeOK
<1>i. NoRun \in Run
  BY DatabaseFacts
<1>r. \A d \in Deploys : run[d] \in Run
  OBVIOUS
<1>1. ASSUME NEW d \in Deploys, NEW n \in Bundles, Begin(d, n)
      PROVE  MigrationsTypeOK'
  <2>1. run' \in [Deploys -> Run]
    BY <1>1, <1>i DEF Begin, Run, NoRun
  <2>2. started' \in 0..MaxRuns
    BY <1>1, MigrationsAssumption DEF Begin
  <2>3. QED BY <1>1, <2>1, <2>2 DEF Begin
<1>2. ASSUME NEW d \in Deploys, Lock(d)
      PROVE  MigrationsTypeOK'
  <2>1. run' \in [Deploys -> Run]
    BY <1>2 DEF Lock, Run
  <2>2. QED BY <1>2, <2>1 DEF Lock
<1>3. ASSUME NEW d \in Deploys, EnsureTrackingTable(d)
      PROVE  MigrationsTypeOK'
  <2> DEFINE w == [run[d].view EXCEPT !.tracked = TRUE]
  <2>1. w \in Database
    BY <1>r DEF Run, Database
  <2>2. run' = [run EXCEPT ![d] = [run[d] EXCEPT !.pc = "tracked", !.view = w]]
    BY <1>3 DEF EnsureTrackingTable
  <2> HIDE DEF w
  <2>3. run' \in [Deploys -> Run]
    BY <1>r, <2>1, <2>2 DEF Run
  <2>4. QED BY <1>3, <2>3 DEF EnsureTrackingTable
<1>4. ASSUME NEW d \in Deploys, BaselineExistingSchema(d)
      PROVE  MigrationsTypeOK'
  <2>1. BaselineOf(run[d].view) \subseteq Versions
    BY NewestFacts DEF BaselineOf, Versions
  <2> DEFINE w == [run[d].view EXCEPT !.applied = @ \cup BaselineOf(run[d].view)]
  <2>2. w \in Database
    BY <1>r, <2>1 DEF Run, Database
  <2>3. run' = [run EXCEPT ![d] = [run[d] EXCEPT !.pc = "loop", !.view = w]]
    BY <1>4 DEF BaselineExistingSchema
  <2> HIDE DEF w
  <2>4. run' \in [Deploys -> Run]
    BY <1>r, <2>2, <2>3 DEF Run
  <2>5. QED BY <1>4, <2>4 DEF BaselineExistingSchema
<1>5. ASSUME NEW d \in Deploys, SkipApplied(d)
      PROVE  MigrationsTypeOK'
  <2>1. run[d].next + 1 \in 0..Newest
    BY <1>5, <1>r, NewestFacts DEF SkipApplied, Run
  <2>2. run' \in [Deploys -> Run]
    BY <1>5, <2>1 DEF SkipApplied, Run
  <2>3. QED BY <1>5, <2>2 DEF SkipApplied
<1>6. ASSUME NEW d \in Deploys, Apply(d)
      PROVE  MigrationsTypeOK'
  <2>1. run[d].next + 1 \in 0..Newest /\ run[d].next \in Versions
    BY <1>6, <1>r, NewestFacts DEF Apply, Run, Versions
  <2>2. Append(run[d].did, run[d].next) \in Seq(Versions)
    BY <1>r, <2>1 DEF Run
  <2> DEFINE v == run[d].next
             w == [run[d].view EXCEPT !.objects = @ \cup {v},
                                      !.applied = @ \cup {v}]
  <2>3. w \in Database
    BY <1>r, <2>1 DEF Run, Database
  <2>4. run' = [run EXCEPT ![d] = [run[d] EXCEPT !.next = v + 1, !.view = w,
                                                 !.did = Append(@, v)]]
    BY <1>6 DEF Apply
  <2> HIDE DEF w
  <2>5. run' \in [Deploys -> Run]
    BY <1>r, <2>1, <2>2, <2>3, <2>4 DEF Run
  <2>6. QED BY <1>6, <2>5 DEF Apply
<1>7. ASSUME NEW d \in Deploys, Commit(d)
      PROVE  MigrationsTypeOK'
  <2>1. run[d].view \in Database /\ run[d].did \in Seq(Versions)
    BY <1>r DEF Run
  <2>2. executed' \in Seq(Versions)
    BY <1>7, <2>1 DEF Commit
  <2>3. QED BY <1>7, <1>i, <2>1, <2>2 DEF Commit
<1>8. ASSUME NEW d \in Deploys, Fail(d)
      PROVE  MigrationsTypeOK'
  BY <1>8, <1>i DEF Fail
<1>9. ASSUME NEW p \in Probes, AskTracked(p)
      PROVE  MigrationsTypeOK'
  BY <1>9 DEF AskTracked, Probe, Database
<1>10. ASSUME NEW p \in Probes, CountApplied(p)
       PROVE  MigrationsTypeOK'
  BY <1>10 DEF CountApplied, Probe
<1>11. CASE UNCHANGED migrationsVars
  BY <1>11 DEF migrationsVars
<1>12. QED
  BY <1>1, <1>2, <1>3, <1>4, <1>5, <1>6, <1>7, <1>8, <1>9, <1>10, <1>11
     DEF MigrationsNext

\* MigrationsTypeOK holds in every state: no run leaves the versions of the bundles.
THEOREM MigrationsTypeCorrect == MigrationsSpec => []MigrationsTypeOK
<1>1. MigrationsInit => MigrationsTypeOK
  <2> SUFFICES ASSUME MigrationsInit
               PROVE  MigrationsTypeOK
    OBVIOUS
  <2>1. db \in Database /\ run \in [Deploys -> Run]
    BY DatabaseFacts DEF MigrationsInit
  <2>2. probe \in [Probes -> Probe]
    <3> DEFINE P == {[pc |-> "idle", seen |-> FALSE, bundle |-> n,
                      answer |-> "none"] : n \in Bundles}
    <3>1. P \subseteq Probe
      <4>1. ASSUME NEW n \in Bundles
            PROVE  [pc |-> "idle", seen |-> FALSE, bundle |-> n,
                    answer |-> "none"] \in Probe
        BY DEF Probe
      <4>2. QED BY <4>1
    <3>2. probe \in [Probes -> P]
      BY DEF MigrationsInit
    <3> HIDE DEF P
    <3>3. QED BY <3>1, <3>2
  <2>3. QED BY <2>1, <2>2, MigrationsAssumption DEF MigrationsInit, MigrationsTypeOK
<1>2. QED BY <1>1, MigrationsTypeStep, PTL DEF MigrationsSpec

-----------------------------------------------------------------------------
(***************************************************************************)
(* Segments of versions and increasing sequences.                          *)
(***************************************************************************)

\* A version missing from a segment that has all earlier ones is its successor.
LEMMA SegExtend ==
  ASSUME NEW S, IsSeg(S), NEW v \in Versions, v \notin S, Seg(v) \subseteq S
  PROVE  IsSeg(S \cup {v}) /\ Seg(v + 1) \subseteq S \cup {v}
<1>1. PICK n \in 0..Newest : S = Seg(n)
  BY DEF IsSeg
<1>2. n = v
  BY <1>1, NewestFacts DEF Seg, Versions
<1>3. S \cup {v} = Seg(v + 1) /\ v + 1 \in 0..Newest
  BY <1>1, <1>2, NewestFacts DEF Seg, Versions
<1>4. QED BY <1>3 DEF IsSeg

\* What a segment has comes before what it has not.
LEMMA SegOrder ==
  ASSUME NEW S, IsSeg(S), NEW x \in S, NEW y \in Nat, y \notin S
  PROVE  x < y
BY NewestFacts DEF IsSeg, Seg

\* A segment with enough elements has the first ones.
LEMMA SegCount ==
  ASSUME NEW S, IsSeg(S), NEW n \in Nat, Cardinality(S) >= n
  PROVE  Seg(n) \subseteq S
<1>1. PICK m \in 0..Newest : S = Seg(m)
  BY DEF IsSeg
<1>2. Cardinality(S) = m
  BY <1>1, FS_Interval, NewestFacts DEF Seg
<1>3. QED BY <1>1, <1>2, NewestFacts DEF Seg

\* Two increasing sequences, the second above the first.
LEMMA IncreasingConcat ==
  ASSUME NEW s \in Seq(Versions), NEW t \in Seq(Versions), Increasing(s), Increasing(t),
         \A i \in DOMAIN s, j \in DOMAIN t : s[i] < t[j]
  PROVE  Increasing(s \o t)
<1> DEFINE u == s \o t
<1>1. /\ u \in Seq(Versions) /\ Len(u) = Len(s) + Len(t)
      /\ \A i \in 1..Len(u) : u[i] = IF i <= Len(s) THEN s[i] ELSE t[i - Len(s)]
  OBVIOUS
<1> HIDE DEF u
<1> SUFFICES ASSUME NEW i \in DOMAIN u, NEW j \in DOMAIN u, i < j
             PROVE  u[i] < u[j]
  BY DEF Increasing, u
<1>2. i \in 1..Len(u) /\ j \in 1..Len(u) /\ Len(s) \in Nat /\ Len(t) \in Nat
  BY <1>1
<1>3. CASE j <= Len(s)
  <2>1. i \in DOMAIN s /\ j \in DOMAIN s /\ u[i] = s[i] /\ u[j] = s[j]
    BY <1>1, <1>2, <1>3
  <2>2. QED BY <2>1 DEF Increasing
<1>4. CASE i <= Len(s) /\ j > Len(s)
  <2>1. /\ i \in DOMAIN s /\ j - Len(s) \in DOMAIN t
        /\ u[i] = s[i] /\ u[j] = t[j - Len(s)]
    BY <1>1, <1>2, <1>4
  <2>2. QED BY <2>1
<1>5. CASE i > Len(s)
  <2>1. i - Len(s) \in DOMAIN t /\ j - Len(s) \in DOMAIN t
    BY <1>1, <1>2, <1>5
  <2>2. i - Len(s) < j - Len(s)
    BY <1>2
  <2>3. t[i - Len(s)] < t[j - Len(s)]
    BY <2>1, <2>2 DEF Increasing
  <2>4. QED BY <1>1, <1>2, <1>5, <2>3
<1>6. QED BY <1>2, <1>3, <1>4, <1>5

\* An increasing sequence and one greater element.
LEMMA IncreasingAppend ==
  ASSUME NEW s \in Seq(Versions), NEW v \in Versions, Increasing(s),
         \A i \in DOMAIN s : s[i] < v
  PROVE  Increasing(Append(s, v))
<1> DEFINE u == Append(s, v)
<1>1. /\ u \in Seq(Versions) /\ Len(u) = Len(s) + 1 /\ Len(s) \in Nat
      /\ u[Len(s) + 1] = v /\ \A i \in 1..Len(s) : u[i] = s[i]
  OBVIOUS
<1> HIDE DEF u
<1>2. QED BY <1>1 DEF Increasing, u

-----------------------------------------------------------------------------
(***************************************************************************)
(* The inductive invariant, one step per operation.                        *)
(***************************************************************************)

\* A step of one run that commits nothing disturbs nothing but that run.
LEMMA OneRun ==
  ASSUME MigrationsTypeOK, MigrationsInv, NEW d \in Deploys,
         UNCHANGED <<db, executed, probe>>,
         \A e \in Deploys \ {d} : run'[e] = run[e] /\ (lock = e => lock' = e),
         RunOK(d)'
  PROVE  MigrationsInv'
<1>1. (DbOK /\ HistoryOK)'
  BY DEF MigrationsInv, DbOK, HistoryOK
<1>2. ASSUME NEW e \in Deploys \ {d}
      PROVE  RunOK(e)'
  BY <1>2 DEF MigrationsInv, RunOK, InLoop
<1>3. \A p \in Probes : ProbeOK(p)'
  BY DEF MigrationsInv, ProbeOK
<1>4. QED BY <1>1, <1>2, <1>3 DEF MigrationsInv

\* The baseline completes the record of a database of the old tooling, and
\* leaves every other as it is.
LEMMA BaselineFacts ==
  ASSUME MigrationsTypeOK, DbOK
  PROVE  db.applied \cup BaselineOf([db EXCEPT !.tracked = TRUE]) = db.objects
<1> DEFINE w == [db EXCEPT !.tracked = TRUE]
<1>1. db \in Database /\ w.applied = db.applied /\ w.objects = db.objects
  BY DEF MigrationsTypeOK, Database
<1>2. PICK n \in 0..Newest : db.objects = Seg(n)
  BY DEF DbOK, IsSeg
<1>3. CASE db.applied # {}
  BY <1>1, <1>3 DEF DbOK, BaselineOf
<1>4. CASE db.applied = {} /\ db.objects = {}
  BY <1>1, <1>4 DEF BaselineOf
<1>5. CASE db.applied = {} /\ db.objects # {}
  <2>1. db.objects \in {Seg(LegacyCount - 1), Seg(LegacyCount)}
    BY <1>5 DEF DbOK
  <2>2. Users \in db.objects
    BY <2>1, NewestFacts DEF Seg, Users
  <2>3. BaselineOf(w) = {v \in 0..(LegacyCount - 1) :
                           v = Outbound => Outbound \in db.objects}
    BY <1>1, <1>5, <2>2 DEF BaselineOf
  <2>4. CASE db.objects = Seg(LegacyCount - 1)
    <3>1. Outbound \notin db.objects /\ db.objects \subseteq 0..(LegacyCount - 1)
      BY <2>4, NewestFacts DEF Seg, Outbound
    <3>2. \A v \in 0..(LegacyCount - 1) : v \in db.objects <=> v # Outbound
      BY <2>4, NewestFacts DEF Seg, Outbound
    <3>3. QED BY <1>5, <2>3, <3>1, <3>2
  <2>5. CASE db.objects = Seg(LegacyCount)
    BY <1>5, <2>3, <2>5, NewestFacts DEF Seg, Outbound
  <2>6. QED BY <2>1, <2>4, <2>5
<1>6. QED BY <1>3, <1>4, <1>5

\* MigrationsInv is preserved by every step.
LEMMA MigrationsStep == MigrationsTypeOK /\ MigrationsInv /\ [MigrationsNext]_migrationsVars => MigrationsInv'
<1> SUFFICES ASSUME MigrationsTypeOK, MigrationsInv, [MigrationsNext]_migrationsVars
             PROVE  MigrationsInv'
  OBVIOUS
<1>t. /\ run \in [Deploys -> Run] /\ db \in Database
      /\ probe \in [Probes -> Probe] /\ Nobody \notin Deploys
  BY MigrationsAssumption DEF MigrationsTypeOK
<1>r. ASSUME NEW d \in Deploys
      PROVE  /\ run[d] \in Run /\ run[d].view \in Database
             /\ run[d].next \in Nat /\ run[d].did \in Seq(Versions)
             /\ RunOK(d)
  BY <1>t, NewestFacts DEF Run, MigrationsInv
<1>v. Versions \subseteq Nat
  BY NewestFacts DEF Versions
<1>i. NoRun.pc = "idle" /\ NoRun.did = <<>> /\ NoRun.next = 0
  BY DEF NoRun
<1>1. ASSUME NEW d \in Deploys, NEW n \in Bundles, Begin(d, n)
      PROVE  MigrationsInv'
  <2>1. /\ run'[d].pc = "begun" /\ run'[d].did = <<>> /\ run'[d].next = 0
        /\ \A e \in Deploys \ {d} : run'[e] = run[e]
    BY <1>1, <1>t DEF Begin, NoRun
  <2>2. RunOK(d)'
    BY <2>1 DEF RunOK
  <2>3. QED BY <1>1, <2>1, <2>2, OneRun DEF Begin
<1>2. ASSUME NEW d \in Deploys, Lock(d)
      PROVE  MigrationsInv'
  <2>1. /\ run'[d].pc = "locked" /\ run'[d].did = run[d].did
        /\ run'[d].next = run[d].next /\ run'[d].view = db
        /\ \A e \in Deploys \ {d} : run'[e] = run[e]
    BY <1>2, <1>t DEF Lock, Run
  <2>2. RunOK(d)'
    BY <1>2, <1>r, <2>1 DEF Lock, RunOK
  <2>3. QED BY <1>2, <1>t, <2>1, <2>2, OneRun DEF Lock
<1>3. ASSUME NEW d \in Deploys, EnsureTrackingTable(d)
      PROVE  MigrationsInv'
  <2>1. /\ run'[d].pc = "tracked" /\ run'[d].did = run[d].did
        /\ run'[d].next = run[d].next
        /\ run'[d].view = [run[d].view EXCEPT !.tracked = TRUE]
        /\ \A e \in Deploys \ {d} : run'[e] = run[e]
    BY <1>3, <1>t DEF EnsureTrackingTable, Run
  <2>2. RunOK(d)'
    BY <1>3, <1>r, <2>1 DEF EnsureTrackingTable, RunOK
  <2>3. QED BY <1>3, <2>1, <2>2, OneRun DEF EnsureTrackingTable
<1>4. ASSUME NEW d \in Deploys, BaselineExistingSchema(d)
      PROVE  MigrationsInv'
  <2>0. /\ run[d].pc = "tracked" /\ run[d].did = <<>> /\ run[d].next = 0
        /\ run[d].view = [db EXCEPT !.tracked = TRUE] /\ lock = d
    BY <1>4, <1>r DEF BaselineExistingSchema, RunOK
  <2>1. /\ run'[d].pc = "loop" /\ run'[d].did = run[d].did
        /\ run'[d].next = run[d].next
        /\ run'[d].view = [run[d].view EXCEPT
                             !.applied = @ \cup BaselineOf(run[d].view)]
        /\ \A e \in Deploys \ {d} : run'[e] = run[e]
    BY <1>4, <1>t DEF BaselineExistingSchema, Run
  <2>2. /\ run'[d].view.tracked
        /\ run'[d].view.applied = db.objects
        /\ run'[d].view.objects = db.objects
    BY <1>t, <2>0, <2>1, BaselineFacts DEF Database, MigrationsInv
  <2>3. InLoop(run[d])'
    <3>1. IsSeg(db.objects) /\ Seg(0) = {} /\ db' = db
      BY <1>4 DEF MigrationsInv, DbOK, Seg, BaselineExistingSchema
    <3>2. Increasing(<<>>) /\ DOMAIN <<>> = {}
      BY DEF Increasing
    <3>3. QED BY <2>0, <2>1, <2>2, <3>1, <3>2 DEF InLoop
  <2>4. RunOK(d)'
    BY <1>4, <2>0, <2>1, <2>3 DEF BaselineExistingSchema, RunOK
  <2>5. QED BY <1>4, <2>1, <2>4, OneRun DEF BaselineExistingSchema
<1>5. ASSUME NEW d \in Deploys, SkipApplied(d)
      PROVE  MigrationsInv'
  <2>1. /\ run'[d].pc = run[d].pc /\ run'[d].did = run[d].did
        /\ run'[d].view = run[d].view /\ run'[d].next = run[d].next + 1
        /\ \A e \in Deploys \ {d} : run'[e] = run[e]
    BY <1>5, <1>t DEF SkipApplied, Run
  <2>2. /\ run[d].pc = "loop" /\ InLoop(run[d]) /\ lock = d
        /\ run[d].next \in run[d].view.objects /\ db' = db /\ lock' = lock
    BY <1>5, <1>r DEF SkipApplied, RunOK, InLoop
  <2>3. Seg(run'[d].next) \subseteq run'[d].view.objects
    BY <1>r, <2>1, <2>2 DEF InLoop, Seg
  <2>4. RunOK(d)'
    BY <2>1, <2>2, <2>3 DEF RunOK, InLoop
  <2>5. QED BY <1>5, <2>1, <2>4, OneRun DEF SkipApplied
<1>6. ASSUME NEW d \in Deploys, Apply(d)
      PROVE  MigrationsInv'
  <2> DEFINE v == run[d].next
             S == run[d].view.objects
  <2>1. /\ run'[d].pc = "loop" /\ run'[d].did = Append(run[d].did, v)
        /\ run'[d].view = [run[d].view EXCEPT !.objects = @ \cup {v},
                                              !.applied = @ \cup {v}]
        /\ run'[d].next = v + 1
        /\ \A e \in Deploys \ {d} : run'[e] = run[e]
    BY <1>6, <1>t DEF Apply, Run
  <2>2. /\ run[d].pc = "loop" /\ InLoop(run[d]) /\ lock = d
        /\ v \notin S /\ db' = db /\ lock' = lock
    BY <1>6, <1>r DEF Apply, RunOK, InLoop
  <2>3. v \in Versions
    BY <1>6, <1>r, <1>t, NewestFacts DEF Apply, Run, Versions
  <2>4. /\ run'[d].view.objects = S \cup {v}
        /\ run'[d].view.applied = S \cup {v}
        /\ run'[d].view.tracked
    BY <1>r, <2>1, <2>2 DEF Database, InLoop
  <2>5. IsSeg(S \cup {v}) /\ Seg(v + 1) \subseteq S \cup {v}
    BY <2>2, <2>3, SegExtend DEF InLoop
  <2>6. \A i \in DOMAIN run[d].did : run[d].did[i] < v
    BY <1>r, <1>v, <2>2, SegOrder DEF InLoop
  <2>7. Increasing(run'[d].did)
    BY <1>r, <2>1, <2>2, <2>3, <2>6, IncreasingAppend DEF InLoop
  <2>8. \A i \in DOMAIN run'[d].did : run'[d].did[i] \in (S \cup {v}) \ db.objects
    <3>1. v \notin db.objects
      BY <2>2 DEF InLoop
    <3>2. \A i \in DOMAIN run'[d].did :
            \/ run'[d].did[i] = v
            \/ i \in DOMAIN run[d].did /\ run'[d].did[i] = run[d].did[i]
      BY <1>r, <2>1, <2>3
    <3>3. QED BY <2>2, <3>1, <3>2 DEF InLoop
  <2>9. InLoop(run[d])'
    BY <2>1, <2>2, <2>4, <2>5, <2>7, <2>8 DEF InLoop
  <2>10. RunOK(d)'
    BY <2>1, <2>2, <2>9 DEF RunOK
  <2>11. QED BY <1>6, <2>1, <2>10, OneRun DEF Apply
<1>7. ASSUME NEW d \in Deploys, Commit(d)
      PROVE  MigrationsInv'
  <2>1. /\ InLoop(run[d]) /\ lock = d /\ db' = run[d].view
        /\ executed' = executed \o run[d].did /\ probe' = probe
        /\ run' = [run EXCEPT ![d] = NoRun]
    BY <1>7, <1>r DEF Commit, RunOK
  <2>2. DbOK'
    BY <2>1 DEF DbOK, InLoop
  <2>3. HistoryOK'
    <3>1. executed \in Seq(Versions) /\ run[d].did \in Seq(Versions)
      BY <1>r DEF MigrationsTypeOK
    <3>2. \A i \in DOMAIN executed, j \in DOMAIN run[d].did :
            executed[i] < run[d].did[j]
      <4> SUFFICES ASSUME NEW i \in DOMAIN executed, NEW j \in DOMAIN run[d].did
                   PROVE  executed[i] < run[d].did[j]
        OBVIOUS
      <4>1. executed[i] \in db.objects /\ IsSeg(db.objects)
        BY DEF MigrationsInv, HistoryOK, DbOK
      <4>2. run[d].did[j] \in Nat /\ run[d].did[j] \notin db.objects
        <5>1. run[d].did[j] \in Versions
          BY <3>1
        <5>2. QED BY <1>v, <2>1, <5>1 DEF InLoop
      <4>3. QED BY <4>1, <4>2, SegOrder
    <3>3. Increasing(executed')
      BY <2>1, <3>1, <3>2, IncreasingConcat DEF InLoop, MigrationsInv, HistoryOK
    <3>4. \A i \in DOMAIN executed' :
            \/ i \in DOMAIN executed /\ executed'[i] = executed[i]
            \/ \E j \in DOMAIN run[d].did : executed'[i] = run[d].did[j]
      <4> SUFFICES ASSUME NEW i \in DOMAIN executed', i > Len(executed)
                   PROVE  \E j \in DOMAIN run[d].did : executed'[i] = run[d].did[j]
        BY <2>1, <3>1
      <4>1. /\ i - Len(executed) \in DOMAIN run[d].did
            /\ executed'[i] = run[d].did[i - Len(executed)]
        BY <2>1, <3>1
      <4>2. QED BY <4>1
    <3>5. \A i \in DOMAIN executed' : executed'[i] \in db'.objects
      BY <2>1, <3>4 DEF InLoop, MigrationsInv, HistoryOK
    <3>6. QED BY <3>3, <3>5 DEF HistoryOK
  <2>4. ASSUME NEW e \in Deploys
        PROVE  RunOK(e)'
    <3>1. CASE e = d
      BY <1>i, <1>t, <2>1, <3>1 DEF RunOK
    <3>2. CASE e # d
      <4>1. run'[e] = run[e] /\ run[e].pc \notin {"locked", "tracked", "loop"}
        BY <1>r, <1>t, <2>1, <3>2 DEF RunOK
      <4>2. QED BY <1>r, <4>1 DEF RunOK
    <3>3. QED BY <3>1, <3>2
  <2>5. ASSUME NEW p \in Probes
        PROVE  ProbeOK(p)'
    BY <2>1 DEF ProbeOK, MigrationsInv, InLoop
  <2>6. QED BY <2>2, <2>3, <2>4, <2>5 DEF MigrationsInv
<1>8. ASSUME NEW d \in Deploys, Fail(d)
      PROVE  MigrationsInv'
  <2>1. RunOK(d)'
    BY <1>8, <1>i, <1>t DEF Fail, RunOK
  <2>2. QED BY <1>8, <1>t, <2>1, OneRun DEF Fail
<1>9. ASSUME UNCHANGED <<db, run, lock, executed>>, \A p \in Probes : ProbeOK(p)'
      PROVE  MigrationsInv'
  BY <1>9 DEF MigrationsInv, DbOK, HistoryOK, RunOK, InLoop
<1>10. ASSUME NEW p \in Probes, AskTracked(p)
       PROVE  MigrationsInv'
  <2>1. \A q \in Probes : ProbeOK(q)'
    BY <1>10, <1>t DEF AskTracked, ProbeOK, MigrationsInv, Probe
  <2>2. QED BY <1>9, <1>10, <2>1 DEF AskTracked
<1>11. ASSUME NEW p \in Probes, CountApplied(p)
       PROVE  MigrationsInv'
  <2>1. /\ probe'[p].seen = probe[p].seen /\ probe'[p].bundle = probe[p].bundle
        /\ probe'[p].answer = "ok" => IsReady(probe[p].seen, probe[p].bundle)
        /\ \A q \in Probes \ {p} : probe'[q] = probe[q]
        /\ UNCHANGED <<db, run, lock, executed>>
    BY <1>11, <1>t DEF CountApplied, Probe
  <2>2. probe[p].bundle \in Nat
    BY <1>t, NewestFacts DEF Probe
  <2>3. IsReady(probe[p].seen, probe[p].bundle)
          => Seg(probe[p].bundle) \subseteq db.objects
    BY <2>2, SegCount DEF IsReady, MigrationsInv, ProbeOK, DbOK
  <2>4. \A q \in Probes : ProbeOK(q)'
    BY <2>1, <2>3 DEF ProbeOK, MigrationsInv
  <2>5. QED BY <1>9, <2>1, <2>4
<1>12. CASE UNCHANGED migrationsVars
  <2>1. \A p \in Probes : ProbeOK(p)'
    BY <1>12 DEF migrationsVars, ProbeOK, MigrationsInv
  <2>2. QED BY <1>9, <1>12, <2>1 DEF migrationsVars
<1>13. QED
  BY <1>1, <1>2, <1>3, <1>4, <1>5, <1>6, <1>7, <1>8, <1>10, <1>11, <1>12
     DEF MigrationsNext

LEMMA MigrationsStart == MigrationsInit => MigrationsInv
<1> SUFFICES ASSUME MigrationsInit
             PROVE  MigrationsInv
  OBVIOUS
<1>1. DbOK
  <2>1. /\ {} = Seg(0) /\ 0 \in 0..Newest
        /\ LegacyCount - 1 \in 0..Newest /\ LegacyCount \in 0..Newest
    BY NewestFacts DEF Seg
  <2>2. /\ db.applied = {} /\ ~db.tracked
        /\ db.objects \in {{}, Seg(LegacyCount - 1), Seg(LegacyCount)}
    BY DEF MigrationsInit, Empty, Legacy, Seg
  <2>3. QED BY <2>1, <2>2 DEF DbOK, IsSeg
<1>2. HistoryOK
  BY DEF MigrationsInit, HistoryOK, Increasing
<1>3. \A d \in Deploys : RunOK(d)
  BY DEF MigrationsInit, RunOK, NoRun
<1>4. ASSUME NEW p \in Probes
      PROVE  ProbeOK(p)
  BY DEF MigrationsInit, ProbeOK
<1>5. QED BY <1>1, <1>2, <1>3, <1>4 DEF MigrationsInv

LEMMA MigrationsInvariant == MigrationsSpec => []MigrationsInv
BY MigrationsStart, MigrationsStep, MigrationsTypeCorrect, PTL DEF MigrationsSpec

\* No migration is executed twice or before an earlier one, however many
\* deployments migrate at once, with whatever bundles, and whichever of them
\* fail (migrations::run under pg_advisory_xact_lock).
THEOREM OnceAndInOrder == MigrationsSpec => []ExecutedOnceInOrder
<1>1. MigrationsInv => ExecutedOnceInOrder
  BY DEF MigrationsInv, HistoryOK, Increasing, ExecutedOnceInOrder
<1>2. QED BY <1>1, MigrationsInvariant, PTL

\* The tracking table records exactly the objects the schema has, the baseline
\* of an old database included (baseline_existing_schema, mark_applied).
THEOREM RecordIsSchema == MigrationsSpec => []RecordedIsCreated
<1>1. MigrationsInv => RecordedIsCreated
  BY DEF MigrationsInv, DbOK, RecordedIsCreated
<1>2. QED BY <1>1, MigrationsInvariant, PTL

\* A binary whose probe answered ready has every object of its bundle, then
\* and ever after, although the probe only counts versions and takes no lock
\* (applied_count_if_tracked, ready).
THEOREM ReadyMeansSchema == MigrationsSpec => []ReadyHasSchema
<1>1. MigrationsInv => ReadyHasSchema
  BY DEF MigrationsInv, ProbeOK, Seg, ReadyHasSchema
<1>2. QED BY <1>1, MigrationsInvariant, PTL
=============================================================================
