---------------------------- MODULE LedgerProofs ----------------------------
(***************************************************************************)
(* Proofs about Ledger: for any number of concurrent flushes, goals,       *)
(* transactions and amounts.                                               *)
(***************************************************************************)
EXTENDS Ledger, FiniteSetTheorems, TLAPS

-----------------------------------------------------------------------------
(***************************************************************************)
(* Sums.                                                                   *)
(***************************************************************************)

\* P[n] is the sum of the first n values of v.
Prefixes(v, P, m) ==
  /\ P \in [0..m -> Int]
  /\ P[0] = 0
  /\ \A n \in 1..m : P[n] = P[n - 1] + v[n]

Total(v) == (CHOOSE P : Prefixes(v, P, MaxTx))[MaxTx]

\* What a row adds to the balance of a goal.
Val(row, g) == IF row.there /\ row.goal = g THEN row.amount ELSE 0

\* SumOf, of any rows.
SumTx(T, g) ==
  MapThenSumSet(LAMBDA s : T[s].amount, {s \in Seqs : T[s].there /\ T[s].goal = g})

\* A set of numbers that is not empty has a least one.
LEMMA Least ==
  ASSUME NEW T \in SUBSET Nat, T # {}
  PROVE  \E x \in T : \A y \in T : x <= y
<1> DEFINE R == StrictSubsetOrdering(Nat)
           U == {1..n : n \in T}
<1>1. IsWellFoundedOn(R, FiniteSubsetsOf(Nat))
  BY FS_StrictSubsetOrderingWellFounded
<1>2. \A n \in Nat : 1..n \in FiniteSubsetsOf(Nat)
  BY FS_Interval DEF FiniteSubsetsOf
<1>3. U \subseteq FiniteSubsetsOf(Nat) /\ U # {}
  BY <1>2
<1> HIDE DEF R
<1>4. PICK u \in U : \A v \in U : ~(<<v, u>> \in R)
  BY <1>1, <1>3, WFMin, Zenon
<1>5. PICK x \in T : u = 1..x
  OBVIOUS
<1>6. ASSUME NEW y \in T, y < x PROVE FALSE
  <2>1. 1..y \subseteq 1..x /\ x \in 1..x /\ x \notin 1..y
    BY <1>6
  <2>2. <<1..y, 1..x>> \in R
    BY <2>1 DEF R, StrictSubsetOrdering
  <2> QED
    BY <1>4, <1>5, <2>2
<1> QED
  BY <1>6

\* A first number for which something fails has a predecessor for which it
\* does not.
LEMMA LeastBad ==
  ASSUME NEW m \in Nat, NEW B \in SUBSET (0..m), B # {}, 0 \notin B
  PROVE  \E n \in B : n \in 1..m /\ n - 1 \in 0..m /\ n - 1 \notin B
<1>1. B \in SUBSET Nat
  OBVIOUS
<1>2. PICK n \in B : \A y \in B : n <= y
  BY <1>1, Least
<1> QED
  BY <1>2

LEMMA PrefixesExist ==
  ASSUME NEW v \in [Seqs -> Int]
  PROVE  \E P : Prefixes(v, P, MaxTx)
<1>0. MaxTx \in Nat
  BY LedgerAssumption
<1> DEFINE B == {m \in 0..MaxTx : ~ \E P : Prefixes(v, P, m)}
<1>1. 0 \notin B
  <2>1. Prefixes(v, [i \in 0..0 |-> 0], 0)
    BY DEF Prefixes
  <2> QED
    BY <2>1
<1>2. ASSUME NEW n \in 1..MaxTx, n - 1 \in 0..MaxTx, n - 1 \notin B PROVE n \notin B
  <2>1. PICK P : Prefixes(v, P, n - 1)
    BY <1>2
  <2> DEFINE Q == [i \in 0..n |-> IF i = n THEN P[n - 1] + v[n] ELSE P[i]]
  <2>2. v[n] \in Int /\ P[n - 1] \in Int
    BY <1>0, <2>1 DEF Prefixes, Seqs
  <2>3. Prefixes(v, Q, n)
    <3>1. Q \in [0..n -> Int]
      BY <1>0, <2>1, <2>2 DEF Prefixes
    <3>2. Q[0] = 0
      BY <1>0, <2>1 DEF Prefixes
    <3>3. \A i \in 1..n : Q[i] = Q[i - 1] + v[i]
      BY <1>0, <2>1 DEF Prefixes
    <3> QED
      BY <3>1, <3>2, <3>3 DEF Prefixes
  <2> QED
    BY <2>3
<1>3. B = {}
  BY <1>0, <1>1, <1>2, LeastBad
<1> QED
  BY <1>0, <1>3

LEMMA PrefixesAgree ==
  ASSUME NEW v \in [Seqs -> Int], NEW P, NEW Q,
         Prefixes(v, P, MaxTx), Prefixes(v, Q, MaxTx)
  PROVE  P[MaxTx] = Q[MaxTx]
<1>0. MaxTx \in Nat
  BY LedgerAssumption
<1> DEFINE B == {m \in 0..MaxTx : P[m] # Q[m]}
<1>1. 0 \notin B
  BY DEF Prefixes
<1>2. ASSUME NEW n \in 1..MaxTx, n - 1 \in 0..MaxTx, n - 1 \notin B PROVE n \notin B
  BY <1>2 DEF Prefixes
<1>3. B = {}
  BY <1>0, <1>1, <1>2, LeastBad
<1> QED
  BY <1>0, <1>3

\* Total(v) is the last prefix sum, whichever way these are found.
LEMMA TotalIs ==
  ASSUME NEW v \in [Seqs -> Int], NEW P, Prefixes(v, P, MaxTx)
  PROVE  Total(v) = P[MaxTx]
<1> DEFINE Q == CHOOSE R : Prefixes(v, R, MaxTx)
<1>1. Prefixes(v, Q, MaxTx)
  BY PrefixesExist
<1> HIDE DEF Q
<1>2. Q[MaxTx] = P[MaxTx]
  BY <1>1, PrefixesAgree
<1> QED
  BY <1>2 DEF Q, Total

LEMMA TotalInt ==
  ASSUME NEW v \in [Seqs -> Int]
  PROVE  Total(v) \in Int
<1>1. PICK P : Prefixes(v, P, MaxTx)
  BY PrefixesExist
<1> QED
  BY <1>1, TotalIs, LedgerAssumption DEF Prefixes

LEMMA TotalNat ==
  ASSUME NEW v \in [Seqs -> Nat]
  PROVE  Total(v) \in Nat
<1>0. MaxTx \in Nat /\ v \in [Seqs -> Int]
  BY LedgerAssumption
<1>1. PICK P : Prefixes(v, P, MaxTx)
  BY <1>0, PrefixesExist
<1> DEFINE B == {m \in 0..MaxTx : P[m] < 0}
<1>2. 0 \notin B
  BY <1>1 DEF Prefixes
<1>3. ASSUME NEW n \in 1..MaxTx, n - 1 \in 0..MaxTx, n - 1 \notin B PROVE n \notin B
  BY <1>0, <1>1, <1>3 DEF Prefixes, Seqs
<1>4. B = {}
  BY <1>0, <1>2, <1>3, LeastBad
<1>5. P[MaxTx] \in Int /\ MaxTx \in 0..MaxTx
  BY <1>0, <1>1 DEF Prefixes
<1>6. ~(P[MaxTx] < 0)
  BY <1>4, <1>5
<1>7. Total(v) = P[MaxTx]
  BY <1>0, <1>1, TotalIs
<1> QED
  BY <1>5, <1>6, <1>7

\* The sum of a pointwise sum.
LEMMA TotalAdd ==
  ASSUME NEW u \in [Seqs -> Int], NEW v \in [Seqs -> Int], NEW w \in [Seqs -> Int],
         \A s \in Seqs : w[s] = u[s] + v[s]
  PROVE  Total(w) = Total(u) + Total(v)
<1>0. MaxTx \in Nat
  BY LedgerAssumption
<1>1. PICK P : Prefixes(u, P, MaxTx)
  BY PrefixesExist
<1>2. PICK Q : Prefixes(v, Q, MaxTx)
  BY PrefixesExist
<1> DEFINE R == [m \in 0..MaxTx |-> P[m] + Q[m]]
<1>3. Prefixes(w, R, MaxTx)
  <2>1. R \in [0..MaxTx -> Int] /\ R[0] = 0
    BY <1>0, <1>1, <1>2 DEF Prefixes
  <2>2. ASSUME NEW n \in 1..MaxTx PROVE R[n] = R[n - 1] + w[n]
    <3>1. n \in Seqs /\ n \in 0..MaxTx /\ n - 1 \in 0..MaxTx
      BY <1>0 DEF Seqs
    <3>2. P[n] = P[n - 1] + u[n] /\ Q[n] = Q[n - 1] + v[n]
      BY <1>1, <1>2 DEF Prefixes
    <3>3. {P[n - 1], Q[n - 1], u[n], v[n]} \subseteq Int
      BY <1>1, <1>2, <3>1 DEF Prefixes
    <3> QED
      BY <3>1, <3>2, <3>3
  <2> QED
    BY <2>1, <2>2 DEF Prefixes
<1> HIDE DEF R
<1>4. Total(u) = P[MaxTx] /\ Total(v) = Q[MaxTx] /\ Total(w) = R[MaxTx]
  BY <1>1, <1>2, <1>3, TotalIs
<1> QED
  BY <1>0, <1>4 DEF R

\* The sum of zeros.
LEMMA TotalZero ==
  ASSUME NEW v \in [Seqs -> Int], \A s \in Seqs : v[s] = 0
  PROVE  Total(v) = 0
<1>0. MaxTx \in Nat
  BY LedgerAssumption
<1> DEFINE P == [m \in 0..MaxTx |-> 0]
<1>1. Prefixes(v, P, MaxTx)
  BY <1>0 DEF Prefixes, Seqs
<1> QED
  BY <1>0, <1>1, TotalIs

\* The sum changes by as much as one value does.
LEMMA TotalBump ==
  ASSUME NEW v \in [Seqs -> Int], NEW w \in [Seqs -> Int], NEW t \in Seqs,
         \A s \in Seqs \ {t} : w[s] = v[s]
  PROVE  Total(w) = Total(v) + (w[t] - v[t])
<1>0. MaxTx \in Nat
  BY LedgerAssumption
<1> DEFINE d == w[t] - v[t]
           u == [s \in Seqs |-> IF s = t THEN d ELSE 0]
           P == [m \in 0..MaxTx |-> IF t <= m THEN d ELSE 0]
<1>1. d \in Int /\ u \in [Seqs -> Int]
  OBVIOUS
<1>2. Prefixes(u, P, MaxTx)
  <2>1. P \in [0..MaxTx -> Int] /\ P[0] = 0
    BY <1>0, <1>1 DEF Seqs
  <2>2. ASSUME NEW n \in 1..MaxTx PROVE P[n] = P[n - 1] + u[n]
    <3> HIDE DEF d
    <3>1. n \in Seqs /\ n \in 0..MaxTx /\ n - 1 \in 0..MaxTx /\ t \in 1..MaxTx
      BY <1>0 DEF Seqs
    <3>2. CASE t < n
      BY <1>0, <1>1, <3>1, <3>2
    <3>3. CASE t = n
      BY <1>0, <1>1, <3>1, <3>3
    <3>4. CASE t > n
      BY <1>0, <1>1, <3>1, <3>4
    <3> QED
      BY <1>0, <3>1, <3>2, <3>3, <3>4
  <2> QED
    BY <2>1, <2>2 DEF Prefixes
<1>3. Total(u) = d
  <2> HIDE DEF u
  <2>1. Total(u) = P[MaxTx]
    BY <1>1, <1>2, TotalIs
  <2> QED
    BY <1>0, <2>1 DEF Seqs
<1>4. \A s \in Seqs : w[s] = v[s] + u[s]
  OBVIOUS
<1> HIDE DEF u
<1>5. Total(w) = Total(v) + Total(u)
  BY <1>1, <1>4, TotalAdd
<1> QED
  BY <1>3, <1>5

\* Folding over a set adds up the values of its members.
LEMMA SumIsTotal ==
  ASSUME NEW T \in [Seqs -> TxRow], NEW g
  PROVE  SumTx(T, g) = Total([s \in Seqs |-> Val(T[s], g)])
<1> DEFINE C == {s \in Seqs : T[s].there /\ T[s].goal = g}
           pick(S) == CHOOSE x \in S : TRUE
           row(S) == [s \in Seqs |-> IF s \in S THEN T[s].amount ELSE 0]
           sum(h, S) == IF S = {} THEN 0 ELSE T[pick(S)].amount + h[S \ {pick(S)}]
           H == [S \in SUBSET C |-> Total(row(S))]
           iter == CHOOSE h : h = [S \in SUBSET C |-> sum(h, S)]
<1>1. \A S \in SUBSET C : row(S) \in [Seqs -> Int]
  BY DEF TxRow
<1>2. \A S \in SUBSET C : S # {} => pick(S) \in S
  OBVIOUS
<1>3. ASSUME NEW S \in SUBSET C PROVE Total(row(S)) = sum(H, S)
  <2>1. CASE S = {}
    <3>1. \A s \in Seqs : row(S)[s] = 0
      BY <2>1
    <3>2. Total(row(S)) = 0
      BY <1>1, <3>1, TotalZero
    <3> QED
      BY <2>1, <3>2
  <2>2. CASE S # {}
    <3>1. PICK t \in S : t = pick(S)
      BY <1>2, <2>2
    <3> DEFINE R == S \ {t}
    <3>2. R \in SUBSET C /\ t \in Seqs
      OBVIOUS
    <3>3. /\ \A s \in Seqs \ {t} : row(S)[s] = row(R)[s]
          /\ row(S)[t] = T[t].amount /\ row(R)[t] = 0
      BY <3>2
    <3>4. Total(row(S)) = Total(row(R)) + (T[t].amount - 0)
      <4>1. row(S) \in [Seqs -> Int] /\ row(R) \in [Seqs -> Int]
        BY <1>1, <3>2
      <4> HIDE DEF row, R
      <4>2. Total(row(S)) = Total(row(R)) + (row(S)[t] - row(R)[t])
        BY <3>2, <3>3, <4>1, TotalBump
      <4> QED
        BY <3>3, <4>2
    <3>5. H[R] = Total(row(R))
      BY <3>2
    <3>6. T[t].amount \in Int /\ Total(row(R)) \in Int
      BY <1>1, <3>2, TotalInt DEF TxRow
    <3>7. sum(H, S) = T[t].amount + H[R]
      BY <2>2, <3>1
    <3> HIDE DEF H, row, R
    <3> QED
      BY <3>4, <3>5, <3>6, <3>7
  <2> QED
    BY <2>1, <2>2
<1>4. H = [S \in SUBSET C |-> sum(H, S)]
  <2> HIDE DEF sum, row
  <2> QED
    BY <1>3
<1>5. iter = [S \in SUBSET C |-> sum(iter, S)]
  <2> HIDE DEF H, sum
  <2> QED
    BY <1>4
<1>6. SumTx(T, g) = iter[C]
  BY DEF SumTx, MapThenSumSet, MapThenFoldSet
<1> HIDE DEF iter
<1>7. \A S \in SUBSET C : iter[S] = H[S]
  <2> DEFINE B == {S \in SUBSET C : iter[S] # H[S]}
             W == StrictSubsetOrdering(C)
  <2>1. IsFiniteSet(C)
    <3>1. IsFiniteSet(Seqs)
      BY FS_Interval, LedgerAssumption DEF Seqs
    <3> QED
      BY <3>1, FS_Subset
  <2>2. IsWellFoundedOn(W, FiniteSubsetsOf(C))
    BY FS_StrictSubsetOrderingWellFounded
  <2>3. SUFFICES ASSUME B # {} PROVE FALSE
    OBVIOUS
  <2>4. B \subseteq FiniteSubsetsOf(C)
    BY <2>1, FS_Subset DEF FiniteSubsetsOf
  <2>5. PICK S \in B : \A R \in B : ~(<<R, S>> \in W)
    <3> HIDE DEF W, B
    <3> QED
      BY <2>2, <2>3, <2>4, WFMin, Zenon
  <2>6. iter[S] = sum(iter, S) /\ H[S] = sum(H, S)
    <3> HIDE DEF sum, H
    <3> QED
      BY <1>4, <1>5
  <2>7. CASE S = {}
    BY <2>5, <2>6, <2>7
  <2>8. CASE S # {}
    <3>1. PICK t \in S : t = pick(S)
      BY <1>2, <2>8
    <3> HIDE DEF pick, H
    <3>2. S \ {t} \in SUBSET C /\ <<S \ {t}, S>> \in W
      BY DEF StrictSubsetOrdering
    <3>3. iter[S \ {t}] = H[S \ {t}]
      BY <2>5, <3>2
    <3>4. iter[S] = T[t].amount + iter[S \ {t}] /\ H[S] = T[t].amount + H[S \ {t}]
      BY <2>6, <2>8, <3>1
    <3> QED
      BY <2>5, <3>3, <3>4
  <2> QED
    BY <2>7, <2>8
<1>8. row(C) = [s \in Seqs |-> Val(T[s], g)]
  BY DEF Val
<1> HIDE DEF row, sum
<1>9. SumTx(T, g) = Total(row(C))
  BY <1>6, <1>7
<1> QED
  BY <1>8, <1>9

\* The fold of the model, then, is such a sum.
LEMMA SumOfIs ==
  \A g : SumOf(g) = SumTx(transactions, g)
BY DEF SumOf, SumTx, Contributions

-----------------------------------------------------------------------------
(***************************************************************************)
(* The inductive invariant.                                                *)
(*                                                                         *)
(* A flush sees the tables through what it has written; TxOf and GoalOf    *)
(* are Tx and Goal of its record.  What is said of a record is said with   *)
(* the sequence's next value, which may rise while others work.            *)
(***************************************************************************)
TxOf(x, s) == IF Touched(x.tx[s]) THEN x.tx[s] ELSE transactions[s]
GoalOf(x, g) == IF Touched(x.goal[g]) THEN x.goal[g] ELSE goals[g]

Corrects(x) == x.pc \in {"refund", "remove", "adjust", "update"}

\* The row a correction works on is there when it is read, and its goal changes
\* by nothing but the deletion of the goal.
PlaceOK(x, n) ==
  /\ Corrects(x) => /\ x.row \in Seqs /\ x.row < n
                    /\ x.seen.there
                    /\ TxOf(x, x.row).goal \in {x.seen.goal, NoGoal}
  /\ x.pc \in {"credit", "detached"} => x.which \in Goals

\* Rows it has written.
RowsOK(x, n) ==
  \A s \in Seqs : Touched(x.tx[s]) =>
    /\ s < n
    /\ ~x.tx[s].there => x.tx[s] = NoTx
    /\ transactions[s].there => x.tx[s].goal \in {transactions[s].goal, NoGoal}
    /\ ~transactions[s].there => s \in x.mine

\* Rows it has inserted are nobody else's.
MineOK(x, n) ==
  \A s \in x.mine : s < n /\ ~transactions[s].there /\ Touched(x.tx[s])

Used(g) == g \in Goals => goals[g].status # "unused"

UsedOK(x) ==
  /\ \A g \in x.known : Used(g)
  /\ \A s \in Seqs : Touched(x.tx[s]) => Used(x.tx[s].goal)
  /\ Corrects(x) => Used(x.seen.goal)
  /\ x.pc \in {"credit", "detached"} => Used(x.which)

\* Goals it has written.
GoalsOK(x) ==
  \A g \in Goals : Touched(x.goal[g]) =>
    x.goal[g].status # "unused" /\ goals[g].status # "gone" /\ g \notin cron.fixed

\* A new contribution has written its goal, or is about to.
CreditedOK(x) ==
  \A s \in Seqs, g \in Goals :
    Touched(x.tx[s]) /\ x.tx[s].goal = g /\ transactions[s].goal # g =>
      \/ Touched(x.goal[g])
      \/ goals[g].status # "there"
      \/ x.pc = "credit" /\ x.which = g

\* What its writes add to each contribution.
Moved(x, g) == [s \in Seqs |-> Val(TxOf(x, s), g) - Val(transactions[s], g)]

\* What it has still to add to the balance, or has added too early.
Pending(x, g) ==
  IF x.pc = "credit" /\ x.which = g THEN x.amount
  ELSE IF x.pc = "remove" /\ x.seen.goal = g THEN x.seen.amount
  ELSE IF x.pc = "update" /\ x.seen.goal = g /\ x.amount # NoAmount
    THEN x.seen.amount - x.amount
  ELSE 0

\* The balance moves with the contributions.
Balanced(x, g) ==
  /\ goals[g].status # "gone" /\ GoalOf(x, g).status # "gone"
  /\ ~(x.pc = "detached" /\ x.which = g)
  => GoalOf(x, g).saved - goals[g].saved = Total(Moved(x, g)) - Pending(x, g)

BalanceOK(x) == \A g \in Goals \ x.tears : Balanced(x, g)

\* 1 if the row is there with amount a, else 0.
Bears(row, a) == IF row.there THEN Has(row.amount, a) ELSE 0

\* Its events add up to what its writes change.
LogOK(x) ==
  \A s \in Seqs \ x.crossing, a \in Amounts :
    x.log[s][a] = Bears(TxOf(x, s), a) - Bears(transactions[s], a)

Own(x, n) ==
  /\ PlaceOK(x, n) /\ RowsOK(x, n) /\ MineOK(x, n) /\ UsedOK(x)
  /\ GoalsOK(x) /\ CreditedOK(x) /\ BalanceOK(x) /\ LogOK(x)

\* Row locks.
Apart(x, y) ==
  /\ \A s \in Seqs : ~(Touched(x.tx[s]) /\ Touched(y.tx[s]))
  /\ \A g \in Goals : ~(Touched(x.goal[g]) /\ Touched(y.goal[g]))
  /\ Corrects(x) => x.row \notin y.mine

Sum(g) == Total([s \in Seqs |-> Val(transactions[s], g)])

TablesOK ==
  /\ \A s \in Seqs : /\ transactions[s].there => s < nextSeq
                     /\ ~transactions[s].there => transactions[s] = NoTx
                     /\ Used(transactions[s].goal)
  /\ \A g \in Goals : goals[g].status = "unused" => goals[g].saved = 0
  /\ \A g \in Goals \ torn : goals[g].status # "gone" => goals[g].saved = Sum(g)

CronOK ==
  /\ cron.pc = "idle" => cron.left = {} /\ cron.fixed = {}
  /\ cron.left \cup cron.fixed \subseteq torn
  /\ \A g \in cron.fixed : There(g)
  /\ cron.pc = "running" => \A g \in Goals \ cron.raced : There(g) => cron.sums[g] = Sum(g)

LedgerInv ==
  /\ TypeOK /\ TablesOK /\ CronOK /\ TrailExplained
  /\ \A f \in Flushes : Own(flush[f], nextSeq)
  /\ \A f, e \in Flushes : f # e => Apart(flush[f], flush[e])

-----------------------------------------------------------------------------
(***************************************************************************)
(* Records.                                                                *)
(***************************************************************************)
LEMMA RowFacts ==
  /\ \A t \in TxRow : Touched(t) /\ t.there \in BOOLEAN /\ t.goal \in Goals \cup {NoGoal} /\ t.amount \in Nat
  /\ \A t \in GoalRow : Touched(t) /\ t.status \in {"unused", "there", "gone"} /\ t.saved \in Nat
  /\ ~Touched(Untouched)
  /\ NoTx \in TxRow /\ ~NoTx.there /\ NoTx.goal = NoGoal
  /\ NoEvents \in Account /\ NoGoalRow \in GoalRow
<1>1. \A t \in TxRow : t # Untouched
  <2>1. SUFFICES ASSUME Untouched \in TxRow PROVE FALSE
    OBVIOUS
  <2>2. "there" \in DOMAIN Untouched
    BY <2>1 DEF TxRow
  <2> QED
    BY <2>2 DEF Untouched
<1>2. \A t \in GoalRow : t # Untouched
  <2>1. SUFFICES ASSUME Untouched \in GoalRow PROVE FALSE
    OBVIOUS
  <2>2. "status" \in DOMAIN Untouched
    BY <2>1 DEF GoalRow
  <2> QED
    BY <2>2 DEF Untouched
<1>4. /\ NoTx \in TxRow /\ ~NoTx.there /\ NoTx.goal = NoGoal
      /\ NoGoalRow \in GoalRow
  BY DEF TxRow, NoTx, GoalRow, NoGoalRow
<1>5. NoEvents \in Account
  BY DEF Account, NoEvents
<1> QED
  BY <1>1, <1>2, <1>4, <1>5 DEF Touched, TxRow, GoalRow

LEMMA IdleFacts ==
  /\ Idle \in Flush
  /\ Idle.pc = "idle" /\ Idle.known = {} /\ Idle.mine = {} /\ Idle.tears = {} /\ Idle.crossing = {}
  /\ \A s \in Seqs : Idle.tx[s] = Untouched /\ Idle.log[s] = NoEvents
  /\ \A g \in Goals : Idle.goal[g] = Untouched
BY RowFacts, LedgerAssumption DEF Idle, Flush, NoSeq, NoAmount

\* The fields of a flush's record.
LEMMA FlushFacts ==
  ASSUME NEW x \in Flush
  PROVE  /\ x.pc \in {"idle", "turn", "open", "credit", "refund", "remove", "adjust",
                      "update", "detached"}
         /\ x.target \in 0..MaxTx /\ x.known \in SUBSET Goals
         /\ x.intents \in 0..MaxIntents /\ x.last \in 0..MaxTx /\ x.mine \in SUBSET Seqs
         /\ x.row \in 0..MaxTx /\ x.seen \in TxRow /\ x.amount \in Nat
         /\ x.which \in Goals \cup {NoGoal}
         /\ x.tears \in SUBSET Goals /\ x.crossing \in SUBSET Seqs
         /\ x.tx \in [Seqs -> TxRow \cup {Untouched}]
         /\ x.goal \in [Goals -> GoalRow \cup {Untouched}]
         /\ x.log \in [Seqs -> Account]
BY DEF Flush

\* What a flush sees are rows.
LEMMA SeenFacts ==
  ASSUME TypeOK, NEW x \in Flush
  PROVE  /\ \A s \in Seqs : /\ TxOf(x, s) \in TxRow
                            /\ ~Touched(x.tx[s]) => TxOf(x, s) = transactions[s]
                            /\ Touched(x.tx[s]) => x.tx[s] \in TxRow /\ TxOf(x, s) = x.tx[s]
         /\ \A g \in Goals : /\ GoalOf(x, g) \in GoalRow
                             /\ ~Touched(x.goal[g]) => GoalOf(x, g) = goals[g]
                             /\ Touched(x.goal[g]) => x.goal[g] \in GoalRow /\ GoalOf(x, g) = x.goal[g]
<1>1. /\ transactions \in [Seqs -> TxRow] /\ goals \in [Goals -> GoalRow]
      /\ x.tx \in [Seqs -> TxRow \cup {Untouched}]
      /\ x.goal \in [Goals -> GoalRow \cup {Untouched}]
  BY FlushFacts DEF TypeOK
<1> QED
  BY <1>1 DEF TxOf, GoalOf, Touched

\* What rows and events count for.
LEMMA BearsFacts ==
  /\ \A row, a : Bears(row, a) \in Int
  /\ \A b, a : Has(b, a) \in Int
  /\ \A a \in Amounts : Has(NoAmount, a) = 0
  /\ \A a : Bears(NoTx, a) = 0
BY LedgerAssumption DEF Bears, Has, NoAmount, NoTx

\* A row changes, and the events say so unless flushes met on it.
LEMMA LogStep ==
  ASSUME TypeOK, NEW x \in Flush, LogOK(x), NEW s \in Seqs, NEW r \in Flush,
         \A t \in Seqs \ {s} : r.tx[t] = x.tx[t] /\ r.log[t] = x.log[t],
         x.crossing \subseteq r.crossing,
         \/ s \in r.crossing
         \/ \A a \in Amounts :
              r.log[s][a] = x.log[s][a] + Bears(TxOf(r, s), a) - Bears(TxOf(x, s), a)
  PROVE  LogOK(r)
<1> SUFFICES ASSUME NEW t \in Seqs \ r.crossing, NEW a \in Amounts
             PROVE  r.log[t][a] = Bears(TxOf(r, t), a) - Bears(transactions[t], a)
  BY DEF LogOK
<1>1. x.log[t][a] = Bears(TxOf(x, t), a) - Bears(transactions[t], a)
  BY DEF LogOK
<1>2. CASE t # s
  BY <1>1, <1>2 DEF TxOf
<1>3. CASE t = s
  <2>1. PICK old \in Int : old = Bears(transactions[s], a)
    BY BearsFacts
  <2>2. PICK seen \in Int : seen = Bears(TxOf(x, s), a)
    BY BearsFacts
  <2>3. PICK new \in Int : new = Bears(TxOf(r, s), a)
    BY BearsFacts
  <2>4. x.log[s][a] = seen - old /\ r.log[s][a] = x.log[s][a] + new - seen
    BY <1>1, <1>3, <2>1, <2>2, <2>3
  <2>5. r.log[s][a] = new - old
    BY <2>4
  <2> QED
    BY <1>3, <2>1, <2>3, <2>5
<1> QED
  BY <1>2, <1>3

\* The values of rows are numbers.
LEMMA ValNat == \A g : \A t \in TxRow : Val(t, g) \in Nat
BY DEF TxRow, Val

LEMMA MovedType ==
  ASSUME TypeOK, NEW x \in Flush, NEW g
  PROVE  Moved(x, g) \in [Seqs -> Int]
<1>1. \A s \in Seqs : TxOf(x, s) \in TxRow /\ transactions[s] \in TxRow
  BY SeenFacts DEF TypeOK
<1>2. \A s \in Seqs : Val(TxOf(x, s), g) \in Nat /\ Val(transactions[s], g) \in Nat
  BY <1>1, ValNat
<1> QED
  BY <1>2 DEF Moved

\* What a flush adds to a goal is the same before and after a write of rows
\* that does not change what they are worth to it, ...
LEMMA MovedSame ==
  ASSUME NEW x, NEW r, NEW g,
         \A s \in Seqs : Val(TxOf(r, s), g) = Val(TxOf(x, s), g)
  PROVE  Moved(r, g) = Moved(x, g)
BY DEF Moved

\* ... and changes by as much as one row does.
LEMMA MovedBump ==
  ASSUME TypeOK, NEW x \in Flush, NEW r \in Flush, NEW g, NEW t \in Seqs,
         \A s \in Seqs \ {t} : r.tx[s] = x.tx[s]
  PROVE  Total(Moved(r, g)) = Total(Moved(x, g)) + (Val(TxOf(r, t), g) - Val(TxOf(x, t), g))
<1>1. Moved(x, g) \in [Seqs -> Int] /\ Moved(r, g) \in [Seqs -> Int]
  BY MovedType
<1>2. \A s \in Seqs \ {t} : Moved(r, g)[s] = Moved(x, g)[s]
  BY DEF Moved, TxOf
<1>3. Total(Moved(r, g)) = Total(Moved(x, g)) + (Moved(r, g)[t] - Moved(x, g)[t])
  BY <1>1, <1>2, TotalBump
<1>4. /\ Moved(r, g)[t] = Val(TxOf(r, t), g) - Val(transactions[t], g)
      /\ Moved(x, g)[t] = Val(TxOf(x, t), g) - Val(transactions[t], g)
  BY DEF Moved
<1>5. /\ Val(TxOf(r, t), g) \in Int /\ Val(TxOf(x, t), g) \in Int
      /\ Val(transactions[t], g) \in Int
  BY SeenFacts, ValNat DEF TypeOK
<1> QED
  BY <1>1, <1>3, <1>4, <1>5, TotalInt

\* The sums of the model are those of the values.
LEMMA SumIs ==
  ASSUME NEW T \in [Seqs -> TxRow], NEW g
  PROVE  /\ SumTx(T, g) = Total([s \in Seqs |-> Val(T[s], g)])
         /\ SumTx(T, g) \in Nat
<1> DEFINE v == [s \in Seqs |-> Val(T[s], g)]
<1>1. v \in [Seqs -> Nat]
  BY ValNat
<1>2. Total(v) \in Nat
  <2> HIDE DEF v
  <2> QED
    BY <1>1, TotalNat
<1> QED
  BY <1>2, SumIsTotal

LEMMA SumOfFacts ==
  ASSUME TypeOK
  PROVE  \A g \in Goals : SumOf(g) = Sum(g) /\ SumOf(g) \in Nat
<1>1. transactions \in [Seqs -> TxRow]
  BY DEF TypeOK
<1>2. \A g : SumOf(g) = SumTx(transactions, g)
  BY SumOfIs
<1>3. \A g : Sum(g) = SumTx(transactions, g) /\ SumTx(transactions, g) \in Nat
  BY <1>1, SumIs DEF Sum
<1> QED
  BY <1>2, <1>3

-----------------------------------------------------------------------------
(***************************************************************************)
(* Steps of one flush.                                                     *)
(***************************************************************************)

\* The sequence may rise while a flush is at work.
LEMMA OwnGrows ==
  ASSUME NEW x \in Flush, NEW n \in Nat, Own(x, n)
  PROVE  Own(x, n + 1)
<1>1. \A s \in Seqs : s < n => s < n + 1
  BY LedgerAssumption DEF Seqs
<1>2. x.mine \subseteq Seqs
  BY FlushFacts
<1>3. PlaceOK(x, n + 1)
  BY <1>1 DEF Own, PlaceOK
<1>4. RowsOK(x, n + 1)
  BY <1>1 DEF Own, RowsOK
<1>5. MineOK(x, n + 1)
  BY <1>1, <1>2 DEF Own, MineOK
<1> QED
  BY <1>3, <1>4, <1>5 DEF Own

\* Own is about the tables: while these stay as they are, so does what is
\* known of a flush.
LEMMA OwnStays ==
  ASSUME NEW e \in Flushes, Own(flush'[e], nextSeq'),
         UNCHANGED <<transactions, goals, cron>>
  PROVE  Own(flush[e], nextSeq)'
<1> DEFINE x == flush'[e]
           n == nextSeq'
<1>1. /\ PlaceOK(x, n) /\ RowsOK(x, n) /\ MineOK(x, n) /\ UsedOK(x)
      /\ GoalsOK(x) /\ CreditedOK(x) /\ BalanceOK(x) /\ LogOK(x)
  BY DEF Own
<1>2. PlaceOK(flush[e], nextSeq)'
  BY <1>1 DEF PlaceOK, Corrects, TxOf
<1>3. RowsOK(flush[e], nextSeq)'
  BY <1>1 DEF RowsOK
<1>4. MineOK(flush[e], nextSeq)'
  BY <1>1 DEF MineOK
<1>5. UsedOK(flush[e])'
  BY <1>1 DEF UsedOK, Used, Corrects
<1>6. GoalsOK(flush[e])'
  BY <1>1 DEF GoalsOK
<1>7. CreditedOK(flush[e])'
  BY <1>1 DEF CreditedOK
<1>8. BalanceOK(flush[e])'
  BY <1>1 DEF BalanceOK, Balanced, Moved, GoalOf, TxOf, Pending
<1>9. LogOK(flush[e])'
  BY <1>1 DEF LogOK, Bears, TxOf
<1> QED
  BY <1>2, <1>3, <1>4, <1>5, <1>6, <1>7, <1>8, <1>9 DEF Own

LEMMA LocalStep ==
  ASSUME LedgerInv, NEW f \in Flushes, NEW r \in Flush, Locally(f, r),
         nextSeq' \in {nextSeq, nextSeq + 1}, nextSeq' \in 1..(MaxTx + 1),
         Own(r, nextSeq'),
         \A e \in Flushes \ {f} : Apart(r, flush[e]) /\ Apart(flush[e], r)
  PROVE  LedgerInv'
<1>0. TypeOK /\ MaxTx \in Nat /\ nextSeq \in Nat
  BY LedgerAssumption DEF LedgerInv, TypeOK
<1>1. /\ UNCHANGED <<transactions, goals, trail, begun, cron, torn, crossed>>
      /\ flush' = [flush EXCEPT ![f] = r]
      /\ flush \in [Flushes -> Flush]
  BY <1>0 DEF Locally, history, TypeOK
<1>2. TypeOK'
  BY <1>0, <1>1 DEF TypeOK
<1>3. TablesOK'
  <2>1. \A s \in Seqs : s < nextSeq => s < nextSeq'
    BY <1>0 DEF Seqs
  <2> QED
    BY <1>1, <2>1 DEF LedgerInv, TablesOK, Used, Sum
<1>4. CronOK'
  BY <1>1 DEF LedgerInv, CronOK, Sum, There
<1>5. TrailExplained'
  BY <1>1 DEF LedgerInv, TrailExplained, Live
<1>6. ASSUME NEW e \in Flushes PROVE Own(flush[e], nextSeq)'
  <2>1. CASE e = f
    <3>1. flush'[e] = r
      BY <1>1, <2>1
    <3>2. Own(flush'[e], nextSeq')
      BY <3>1
    <3> QED
      BY <1>1, <3>2, OwnStays
  <2>2. CASE e # f
    <3>1. flush'[e] = flush[e] /\ flush[e] \in Flush
      BY <1>1, <2>2
    <3>2. Own(flush[e], nextSeq)
      BY DEF LedgerInv
    <3>3. Own(flush[e], nextSeq')
      BY <1>0, <3>1, <3>2, OwnGrows
    <3>4. Own(flush'[e], nextSeq')
      BY <3>1, <3>3
    <3> QED
      BY <1>1, <3>4, OwnStays
  <2> QED
    BY <2>1, <2>2
<1>7. ASSUME NEW d \in Flushes, NEW e \in Flushes, d # e PROVE Apart(flush[d], flush[e])'
  <2>1. Apart(flush'[d], flush'[e])
    BY <1>1, <1>7 DEF LedgerInv
  <2> QED
    BY <2>1 DEF Apart, Corrects
<1> QED
  BY <1>2, <1>3, <1>4, <1>5, <1>6, <1>7 DEF LedgerInv

\* What the invariant says of a flush and of those beside it.
LEMMA Parts ==
  ASSUME LedgerInv, NEW f \in Flushes
  PROVE  /\ TypeOK /\ TablesOK /\ CronOK
         /\ flush[f] \in Flush
         /\ Own(flush[f], nextSeq)
         /\ nextSeq \in Nat /\ nextSeq \in 1..(MaxTx + 1)
         /\ \A e \in Flushes \ {f} : /\ flush[e] \in Flush
                                     /\ Own(flush[e], nextSeq)
                                     /\ Apart(flush[f], flush[e]) /\ Apart(flush[e], flush[f])
         /\ transactions \in [Seqs -> TxRow] /\ goals \in [Goals -> GoalRow]
BY LedgerAssumption DEF LedgerInv, TypeOK

\* A flush that has written nothing.
LEMMA BlankStep ==
  ASSUME LedgerInv, NEW f \in Flushes, NEW r \in Flush, Locally(f, r), UNCHANGED nextSeq,
         r.pc \in {"idle", "turn"}, \A g \in r.known : Used(g),
         r.mine = {}, r.tears = {}, r.crossing = {},
         \A s \in Seqs : r.tx[s] = Untouched /\ r.log[s] = NoEvents,
         \A g \in Goals : r.goal[g] = Untouched
  PROVE  LedgerInv'
<1>0. TypeOK /\ nextSeq \in 1..(MaxTx + 1)
  BY Parts
<1>1. /\ \A s \in Seqs : ~Touched(r.tx[s])
      /\ \A g \in Goals : ~Touched(r.goal[g])
      /\ ~Corrects(r) /\ r.pc \notin {"credit", "detached"}
  BY RowFacts DEF Corrects
<1>2. BalanceOK(r)
  <2>1. ASSUME NEW g \in Goals PROVE Balanced(r, g)
    <3>1. GoalOf(r, g) = goals[g] /\ goals[g].saved \in Int /\ Pending(r, g) = 0
      BY <1>0, <1>1 DEF GoalOf, TypeOK, GoalRow, Pending
    <3>2. \A s \in Seqs : TxOf(r, s) = transactions[s] /\ transactions[s] \in TxRow
      BY <1>0, <1>1 DEF TxOf, TypeOK
    <3>3. \A s \in Seqs : Moved(r, g)[s] = 0
      BY <3>2, ValNat DEF Moved
    <3>4. Total(Moved(r, g)) = 0
      BY <1>0, <3>3, MovedType, TotalZero
    <3> QED
      BY <3>1, <3>4 DEF Balanced
  <2> QED
    BY <2>1 DEF BalanceOK
<1>3. PlaceOK(r, nextSeq) /\ RowsOK(r, nextSeq) /\ MineOK(r, nextSeq) /\ UsedOK(r)
  BY <1>1 DEF PlaceOK, RowsOK, MineOK, UsedOK
<1>4. GoalsOK(r) /\ CreditedOK(r) /\ LogOK(r)
  <2>1. LogOK(r)
    <3>1. SUFFICES ASSUME NEW s \in Seqs, NEW a \in Amounts
                   PROVE  r.log[s][a] = Bears(TxOf(r, s), a) - Bears(transactions[s], a)
      BY DEF LogOK
    <3>2. r.log[s][a] = 0 /\ TxOf(r, s) = transactions[s]
      BY <1>1 DEF NoEvents, TxOf
    <3> QED
      BY <3>2, BearsFacts
  <2> QED
    BY <1>1, <2>1 DEF GoalsOK, CreditedOK
<1>5. Own(r, nextSeq')
  BY <1>2, <1>3, <1>4 DEF Own
<1>6. \A e \in Flushes \ {f} : Apart(r, flush[e]) /\ Apart(flush[e], r)
  BY <1>1 DEF Apart
<1> QED
  BY <1>0, <1>5, <1>6, LocalStep

LEMMA RollbackKeeps ==
  ASSUME LedgerInv, NEW f \in Flushes, Rollback(f)
  PROVE  LedgerInv'
BY IdleFacts, BlankStep DEF Rollback

\* The greatest of some transactions.
LEMMA MaxFound ==
  ASSUME NEW S \in SUBSET Seqs, S # {}
  PROVE  Max(S) \in S
<1>0. MaxTx \in Nat /\ \A s \in S : s \in Nat /\ s <= MaxTx
  BY LedgerAssumption DEF Seqs
<1> DEFINE T == {MaxTx - s : s \in S}
<1>1. T \in SUBSET Nat /\ T # {}
  BY <1>0
<1>2. PICK t \in T : \A u \in T : t <= u
  BY <1>1, Least
<1>3. PICK s \in S : t = MaxTx - s
  OBVIOUS
<1>4. ASSUME NEW u \in S PROVE s >= u
  <2>1. MaxTx - u \in T
    OBVIOUS
  <2>2. MaxTx - s <= MaxTx - u
    BY <1>2, <1>3, <2>1
  <2> QED
    BY <1>0, <2>2
<1> QED
  BY <1>4 DEF Max

LEMMA ReadTurnKeeps ==
  ASSUME LedgerInv, NEW f \in Flushes, ReadTurn(f)
  PROVE  LedgerInv'
<1>1. PICK t : t = IF Live = {} THEN NoSeq ELSE Max(Live)
  OBVIOUS
<1>2. t \in 0..MaxTx
  BY <1>1, MaxFound, LedgerAssumption DEF Live, Seqs, NoSeq
<1>3. PICK r : r = [Idle EXCEPT !.pc = "turn", !.known = {g \in Goals : There(g)}, !.target = t]
  OBVIOUS
<1>4. Locally(f, r) /\ UNCHANGED nextSeq
  BY <1>1, <1>3 DEF ReadTurn
<1>5. /\ r \in Flush
      /\ r.pc = "turn" /\ r.known = {g \in Goals : There(g)}
      /\ r.mine = Idle.mine /\ r.tears = Idle.tears /\ r.crossing = Idle.crossing
      /\ r.tx = Idle.tx /\ r.goal = Idle.goal /\ r.log = Idle.log
  <2>1. Idle \in Flush
    BY IdleFacts
  <2> QED
    BY <1>2, <1>3, <2>1 DEF Flush
<1>6. \A g \in r.known : Used(g)
  BY <1>5 DEF Used, There
<1> QED
  BY <1>4, <1>5, <1>6, IdleFacts, BlankStep

\* The transaction begins with nothing written.
LEMMA BeginKeeps ==
  ASSUME LedgerInv, NEW f \in Flushes, Begin(f)
  PROVE  LedgerInv'
<1>0. /\ TypeOK /\ flush[f] \in Flush /\ MaxFlushes \in Nat /\ flush \in [Flushes -> Flush]
      /\ begun \in 0..MaxFlushes
  BY LedgerAssumption DEF LedgerInv, TypeOK
<1>1. PICK r : r = [flush[f] EXCEPT !.pc = "open"]
  OBVIOUS
<1>2. /\ flush[f].pc = "turn" /\ begun < MaxFlushes /\ begun' = begun + 1
      /\ flush' = [flush EXCEPT ![f] = r]
      /\ UNCHANGED <<transactions, goals, trail, nextSeq, cron, torn, crossed>>
  BY <1>0, <1>1 DEF Begin, history
<1>3. /\ r \in Flush
      /\ r.pc = "open"
      /\ r.known = flush[f].known /\ r.mine = flush[f].mine /\ r.tears = flush[f].tears
      /\ r.crossing = flush[f].crossing /\ r.tx = flush[f].tx /\ r.goal = flush[f].goal
      /\ r.log = flush[f].log
  BY <1>0, <1>1 DEF Flush
<1>4. PICK x : x = flush[f]
  OBVIOUS
<1>5. Own(x, nextSeq) /\ x.pc = "turn"
  BY <1>2, <1>4, Parts
<1>6. Own(r, nextSeq)
  <2>1. r.pc = "open" /\ x.pc = "turn" /\ r.known = x.known /\ r.mine = x.mine
        /\ r.tears = x.tears /\ r.crossing = x.crossing /\ r.tx = x.tx /\ r.goal = x.goal
        /\ r.log = x.log
    BY <1>3, <1>4, <1>5
  <2>2. PlaceOK(r, nextSeq) /\ RowsOK(r, nextSeq) /\ MineOK(r, nextSeq) /\ UsedOK(r)
    BY <1>5, <2>1 DEF Own, PlaceOK, RowsOK, MineOK, UsedOK, Corrects
  <2>3. GoalsOK(r) /\ CreditedOK(r) /\ LogOK(r)
    BY <1>5, <2>1 DEF Own, GoalsOK, CreditedOK, LogOK, TxOf
  <2>4. \A g : GoalOf(r, g) = GoalOf(x, g) /\ Moved(r, g) = Moved(x, g)
               /\ Pending(r, g) = 0 /\ Pending(x, g) = 0
    BY <2>1 DEF GoalOf, Moved, TxOf, Pending
  <2>5. BalanceOK(r)
    BY <1>5, <2>1, <2>4 DEF Own, BalanceOK, Balanced
  <2> QED
    BY <2>2, <2>3, <2>5 DEF Own
<1>7. TypeOK'
  <2>1. begun' \in 0..MaxFlushes
    BY <1>0, <1>2
  <2> QED
    BY <1>0, <1>2, <1>3, <2>1 DEF TypeOK
<1>8. TablesOK' /\ CronOK' /\ TrailExplained'
  <2>1. TablesOK'
    BY <1>2 DEF LedgerInv, TablesOK, Used, Sum
  <2>2. CronOK'
    BY <1>2 DEF LedgerInv, CronOK, Sum, There
  <2>3. TrailExplained'
    BY <1>2 DEF LedgerInv, TrailExplained, Live
  <2> QED
    BY <2>1, <2>2, <2>3
<1>9. ASSUME NEW e \in Flushes PROVE Own(flush[e], nextSeq)'
  <2>1. flush'[e] = IF e = f THEN r ELSE flush[e]
    BY <1>0, <1>2
  <2>2. Own(flush[e], nextSeq)
    BY DEF LedgerInv
  <2>3. Own(flush'[e], nextSeq')
    BY <1>2, <1>6, <2>1, <2>2
  <2> QED
    BY <1>2, <2>3, OwnStays
<1>10. ASSUME NEW d \in Flushes, NEW e \in Flushes, d # e PROVE Apart(flush[d], flush[e])'
  <2>1. Apart(flush[d], flush[e])
    BY <1>10 DEF LedgerInv
  <2>2. /\ flush'[d].tx = flush[d].tx /\ flush'[d].goal = flush[d].goal
        /\ flush'[e].tx = flush[e].tx /\ flush'[e].goal = flush[e].goal
        /\ flush'[e].mine = flush[e].mine
        /\ flush'[d].pc = "open" \/ flush'[d] = flush[d]
    BY <1>0, <1>2, <1>3
  <2> QED
    BY <2>1, <2>2 DEF Apart, Corrects
<1> QED
  BY <1>7, <1>8, <1>9, <1>10 DEF LedgerInv

\* A new row and its event; a contribution has its goal's balance still to
\* adjust.
LEMMA InsertStep ==
  ASSUME LedgerInv, NEW f \in Flushes, NEW x \in Flush, x = flush[f],
         NEW n \in Seqs, n = nextSeq, nextSeq' = nextSeq + 1,
         NEW g \in Goals \cup {NoGoal}, NEW a \in Nat,
         NEW r \in Flush, Locally(f, r),
         x.pc = "open",
         \/ g = NoGoal /\ r.pc = "open"
         \/ g \in x.known /\ r.pc = "credit" /\ r.which = g /\ r.amount = a,
         r.tx[n] = [there |-> TRUE, goal |-> g, amount |-> a],
         \A b \in Amounts : r.log[n][b] = x.log[n][b] + Has(a, b) - Has(NoAmount, b),
         \A s \in Seqs \ {n} : r.tx[s] = x.tx[s] /\ r.log[s] = x.log[s],
         r.mine = x.mine \cup {n}, r.known = x.known, r.tears = x.tears,
         r.crossing = x.crossing, r.goal = x.goal
  PROVE  LedgerInv'
<1>0. /\ TypeOK /\ TablesOK /\ Own(x, n) /\ n \in Nat /\ MaxTx \in Nat /\ n + 1 \in 1..(MaxTx + 1)
      /\ \A s \in Seqs : s < n => s < n + 1
      /\ n < n + 1
      /\ x.known \in SUBSET Goals /\ x.mine \in SUBSET Seqs
  BY Parts, FlushFacts, LedgerAssumption DEF Seqs
<1>1. /\ ~Touched(x.tx[n]) /\ n \notin x.mine
      /\ ~transactions[n].there /\ transactions[n] = NoTx
      /\ Touched(r.tx[n]) /\ r.tx[n].there /\ r.tx[n].goal = g /\ r.tx[n].amount = a
  <2>1. ~(n < n)
    BY <1>0
  <2>2. r.tx[n] \in TxRow
    BY DEF TxRow
  <2> QED
    BY <1>0, <2>1, <2>2, RowFacts DEF Own, RowsOK, MineOK, TablesOK
<1>2. ~Corrects(r) /\ ~Corrects(x) /\ r.pc # "detached" /\ x.pc # "credit"
  BY DEF Corrects
<1>3. PlaceOK(r, n + 1)
  BY <1>0, <1>2, FlushFacts DEF PlaceOK
<1>4. RowsOK(r, n + 1)
  <2>1. SUFFICES ASSUME NEW s \in Seqs, Touched(r.tx[s])
                 PROVE  /\ s < n + 1
                        /\ ~r.tx[s].there => r.tx[s] = NoTx
                        /\ transactions[s].there => r.tx[s].goal \in {transactions[s].goal, NoGoal}
                        /\ ~transactions[s].there => s \in r.mine
    BY DEF RowsOK
  <2>2. CASE s = n
    BY <1>0, <1>1, <2>2
  <2>3. CASE s # n
    BY <1>0, <2>1, <2>3 DEF Own, RowsOK
  <2> QED
    BY <2>2, <2>3
<1>5. MineOK(r, n + 1)
  BY <1>0, <1>1 DEF Own, MineOK
<1>6. UsedOK(r)
  BY <1>0, <1>1, <1>2, LedgerAssumption DEF Own, UsedOK, Used
<1>7. GoalsOK(r)
  BY <1>0 DEF Own, GoalsOK
<1>8. CreditedOK(r)
  <2>1. SUFFICES ASSUME NEW s \in Seqs, NEW h \in Goals,
                        Touched(r.tx[s]), r.tx[s].goal = h, transactions[s].goal # h
                 PROVE  \/ Touched(r.goal[h])
                        \/ goals[h].status # "there"
                        \/ r.pc = "credit" /\ r.which = h
    BY DEF CreditedOK
  <2>2. CASE s = n
    BY <1>1, <2>1, <2>2, LedgerAssumption
  <2>3. CASE s # n
    BY <1>0, <1>2, <2>1, <2>3 DEF Own, CreditedOK
  <2> QED
    BY <2>2, <2>3
<1>9. BalanceOK(r)
  <2>1. SUFFICES ASSUME NEW h \in Goals, h \notin x.tears PROVE Balanced(r, h)
    BY DEF BalanceOK
  <2>2. GoalOf(r, h) = GoalOf(x, h) /\ Balanced(x, h)
    BY <1>0, <2>1 DEF GoalOf, Own, BalanceOK
  <2>3. Total(Moved(r, h)) = Total(Moved(x, h)) + (Val(TxOf(r, n), h) - Val(TxOf(x, n), h))
    BY <1>0, MovedBump
  <2>4. /\ Val(TxOf(x, n), h) = 0
        /\ Val(TxOf(r, n), h) = IF g = h THEN a ELSE 0
    BY <1>1 DEF TxOf, Val
  <2>5. /\ Pending(x, h) = 0
        /\ Pending(r, h) = IF g = h THEN a ELSE 0
    BY LedgerAssumption DEF Pending
  <2>6. Total(Moved(x, h)) \in Int
    BY <1>0, MovedType, TotalInt
  <2>7. Total(Moved(r, h)) - Pending(r, h) = Total(Moved(x, h)) - Pending(x, h)
    BY <2>3, <2>4, <2>5, <2>6
  <2> QED
    BY <1>2, <2>2, <2>7 DEF Balanced
<1>10. LogOK(r)
  <2>1. ASSUME NEW b \in Amounts
        PROVE  r.log[n][b] = x.log[n][b] + Bears(TxOf(r, n), b) - Bears(TxOf(x, n), b)
    <3>1. Bears(TxOf(r, n), b) = Has(a, b)
      BY <1>1 DEF TxOf, Bears
    <3>2. Bears(TxOf(x, n), b) = 0 /\ Has(NoAmount, b) = 0
      BY <1>1, BearsFacts DEF TxOf
    <3> QED
      BY <3>1, <3>2
  <2> QED
    BY <1>0, <2>1, LogStep DEF Own
<1>11. Own(r, nextSeq')
  BY <1>3, <1>4, <1>5, <1>6, <1>7, <1>8, <1>9, <1>10 DEF Own
<1>12. ASSUME NEW e \in Flushes \ {f} PROVE Apart(r, flush[e]) /\ Apart(flush[e], r)
  <2>1. /\ Own(flush[e], n) /\ flush[e] \in Flush
        /\ Apart(x, flush[e]) /\ Apart(flush[e], x)
    BY Parts
  <2>2. ~Touched(flush[e].tx[n])
    BY <1>0, <2>1 DEF Own, RowsOK
  <2>3. Corrects(flush[e]) => flush[e].row # n
    BY <1>0, <2>1 DEF Own, PlaceOK
  <2> QED
    BY <1>2, <2>1, <2>2, <2>3 DEF Apart
<1> QED
  BY <1>0, <1>11, <1>12, LocalStep

LEMMA LogTransactionKeeps ==
  ASSUME LedgerInv, NEW f \in Flushes, NEW a \in Amounts, LogTransaction(f, a)
  PROVE  LedgerInv'
<1>0. /\ flush[f] \in Flush /\ nextSeq \in Nat /\ MaxTx \in Nat /\ nextSeq \in 1..(MaxTx + 1)
      /\ MaxIntents \in Nat /\ a \in Nat
  BY Parts, LedgerAssumption
<1>1. PICK x \in Flush : x = flush[f]
  BY <1>0
<1>2. /\ x.pc = "open" /\ x.intents < MaxIntents /\ nextSeq <= MaxTx
      /\ nextSeq' = nextSeq + 1
      /\ Locally(f, WithEvent(Inserted(f, NoGoal, a), nextSeq, NoAmount, a))
  BY <1>1 DEF LogTransaction, NextIntent
<1>3. PICK n \in Seqs : n = nextSeq
  BY <1>0, <1>2 DEF Seqs
<1>4. PICK r : r = WithEvent(Inserted(f, NoGoal, a), n, NoAmount, a)
  OBVIOUS
<1> DEFINE account == [b \in Amounts |-> x.log[n][b] + Has(a, b) - Has(NoAmount, b)]
<1>5. r = [x EXCEPT !.intents = x.intents + 1, !.last = n, !.mine = x.mine \cup {n},
                    !.tx[n] = [there |-> TRUE, goal |-> NoGoal, amount |-> a],
                    !.log[n] = account]
  BY <1>1, <1>3, <1>4, FlushFacts DEF WithEvent, Inserted
<1>6. /\ [there |-> TRUE, goal |-> NoGoal, amount |-> a] \in TxRow
      /\ account \in Account
      /\ x.intents + 1 \in 0..MaxIntents /\ n \in 0..MaxTx
  <2>1. \A b \in Amounts : x.log[n][b] + Has(a, b) - Has(NoAmount, b) \in Int
    BY FlushFacts, BearsFacts DEF Account
  <2>2. account \in Account
    BY <2>1 DEF Account
  <2> QED
    BY <1>0, <1>1, <1>2, <1>3, <2>2, FlushFacts DEF TxRow, Seqs
<1> HIDE DEF account
<1>7. r \in Flush
  BY <1>5, <1>6 DEF Flush
<1>8. /\ r.tx[n] = [there |-> TRUE, goal |-> NoGoal, amount |-> a]
      /\ r.log[n] = account
      /\ \A s \in Seqs \ {n} : r.tx[s] = x.tx[s] /\ r.log[s] = x.log[s]
      /\ r.pc = x.pc /\ r.mine = x.mine \cup {n} /\ r.known = x.known /\ r.tears = x.tears
      /\ r.crossing = x.crossing /\ r.goal = x.goal
  BY <1>5 DEF Flush
<1>9. \A b \in Amounts : r.log[n][b] = x.log[n][b] + Has(a, b) - Has(NoAmount, b)
  BY <1>8 DEF account
<1> QED
  BY <1>0, <1>1, <1>2, <1>3, <1>4, <1>7, <1>8, <1>9, InsertStep

LEMMA ContributeKeeps ==
  ASSUME LedgerInv, NEW f \in Flushes, NEW g \in Goals, NEW a \in Amounts, Contribute(f, g, a)
  PROVE  LedgerInv'
<1>0. /\ flush[f] \in Flush /\ nextSeq \in Nat /\ MaxTx \in Nat /\ nextSeq \in 1..(MaxTx + 1)
      /\ MaxIntents \in Nat /\ a \in Nat
  BY Parts, LedgerAssumption
<1>1. PICK x \in Flush : x = flush[f]
  BY <1>0
<1>2. /\ x.pc = "open" /\ x.intents < MaxIntents /\ nextSeq <= MaxTx /\ g \in x.known
      /\ nextSeq' = nextSeq + 1
      /\ Locally(f, [WithEvent(Inserted(f, g, a), nextSeq, NoAmount, a)
                       EXCEPT !.pc = "credit", !.which = g, !.amount = a])
  BY <1>1 DEF Contribute, NextIntent
<1>3. PICK n \in Seqs : n = nextSeq
  BY <1>0, <1>2 DEF Seqs
<1>4. PICK r : r = [WithEvent(Inserted(f, g, a), n, NoAmount, a)
                      EXCEPT !.pc = "credit", !.which = g, !.amount = a]
  OBVIOUS
<1> DEFINE account == [b \in Amounts |-> x.log[n][b] + Has(a, b) - Has(NoAmount, b)]
<1>5. r = [x EXCEPT !.intents = x.intents + 1, !.last = n, !.mine = x.mine \cup {n},
                    !.tx[n] = [there |-> TRUE, goal |-> g, amount |-> a],
                    !.log[n] = account,
                    !.pc = "credit", !.which = g, !.amount = a]
  BY <1>1, <1>3, <1>4, FlushFacts DEF WithEvent, Inserted
<1>6. /\ [there |-> TRUE, goal |-> g, amount |-> a] \in TxRow
      /\ account \in Account
      /\ x.intents + 1 \in 0..MaxIntents /\ n \in 0..MaxTx
  <2>1. \A b \in Amounts : x.log[n][b] + Has(a, b) - Has(NoAmount, b) \in Int
    BY FlushFacts, BearsFacts DEF Account
  <2>2. account \in Account
    BY <2>1 DEF Account
  <2> QED
    BY <1>0, <1>1, <1>2, <1>3, <2>2, FlushFacts DEF TxRow, Seqs
<1> HIDE DEF account
<1>7. r \in Flush
  <2>1. PICK q : q = [x EXCEPT !.intents = x.intents + 1, !.last = n, !.mine = x.mine \cup {n},
                               !.tx[n] = [there |-> TRUE, goal |-> g, amount |-> a],
                               !.log[n] = account]
    OBVIOUS
  <2>2. q \in Flush
    BY <1>6, <2>1 DEF Flush
  <2>3. r = [q EXCEPT !.pc = "credit", !.which = g, !.amount = a]
    BY <1>5, <2>1
  <2> QED
    BY <1>0, <2>2, <2>3 DEF Flush
<1>8. /\ r.tx[n] = [there |-> TRUE, goal |-> g, amount |-> a]
      /\ r.log[n] = account
      /\ \A s \in Seqs \ {n} : r.tx[s] = x.tx[s] /\ r.log[s] = x.log[s]
      /\ r.pc = "credit" /\ r.which = g /\ r.amount = a
      /\ r.mine = x.mine \cup {n} /\ r.known = x.known /\ r.tears = x.tears
      /\ r.crossing = x.crossing /\ r.goal = x.goal
  BY <1>5 DEF Flush
<1>9. \A b \in Amounts : r.log[n][b] = x.log[n][b] + Has(a, b) - Has(NoAmount, b)
  BY <1>8 DEF account
<1>10. Locally(f, r) /\ nextSeq' = nextSeq + 1
  BY <1>2, <1>3, <1>4
<1> QED
  BY <1>0, <1>1, <1>2, <1>3, <1>7, <1>8, <1>9, <1>10, InsertStep

LEMMA ReadRowKeeps ==
  ASSUME LedgerInv, NEW f \in Flushes, NEW a \in Nat, NEW pc \in {"refund", "adjust"},
         ReadRow(f, pc, a)
  PROVE  LedgerInv'
<1>0. /\ TypeOK /\ TablesOK /\ flush[f] \in Flush /\ nextSeq \in Nat /\ MaxTx \in Nat
      /\ nextSeq \in 1..(MaxTx + 1) /\ MaxIntents \in Nat
  BY Parts, LedgerAssumption
<1>1. PICK x \in Flush : x = flush[f]
  BY <1>0
<1>2. PICK t : t = Target(f)
  OBVIOUS
<1>3. t \in Seqs
  BY <1>0, <1>1, <1>2, FlushFacts DEF Target, ReadRow, Seqs, NoSeq
<1>4. PICK r : r = [x EXCEPT !.intents = x.intents + 1, !.pc = pc, !.row = t,
                             !.seen = TxOf(x, t), !.amount = a]
  OBVIOUS
<1>5. /\ x.pc = "open" /\ x.intents < MaxIntents /\ TxOf(x, t).there
      /\ Locally(f, r) /\ UNCHANGED nextSeq
  BY <1>1, <1>2, <1>4 DEF ReadRow, NextIntent, Tx, TxOf
<1>6. TxOf(x, t) \in TxRow
  BY <1>0, <1>3, SeenFacts
<1>7. /\ r \in Flush
      /\ r.pc = pc /\ r.row = t /\ r.seen = TxOf(x, t)
      /\ r.tx = x.tx /\ r.log = x.log /\ r.goal = x.goal /\ r.mine = x.mine
      /\ r.known = x.known /\ r.tears = x.tears /\ r.crossing = x.crossing
  <2>1. x.intents + 1 \in 0..MaxIntents /\ t \in 0..MaxTx
    BY <1>0, <1>3, <1>5, FlushFacts DEF Seqs
  <2> QED
    BY <1>4, <1>6, <2>1 DEF Flush
<1>8. Own(x, nextSeq)
  BY <1>1, Parts
<1>9. t < nextSeq /\ Used(TxOf(x, t).goal)
  BY <1>0, <1>3, <1>5, <1>8 DEF Own, RowsOK, UsedOK, TablesOK, TxOf
<1>10. TxOf(r, t) = TxOf(x, t)
  BY <1>7 DEF TxOf
<1>11. PlaceOK(r, nextSeq) /\ RowsOK(r, nextSeq) /\ MineOK(r, nextSeq)
  BY <1>3, <1>5, <1>7, <1>8, <1>9, <1>10 DEF Own, PlaceOK, RowsOK, MineOK
<1>12. UsedOK(r) /\ GoalsOK(r) /\ LogOK(r)
  BY <1>7, <1>8, <1>9 DEF Own, UsedOK, GoalsOK, LogOK, TxOf
<1>13. CreditedOK(r)
  BY <1>5, <1>7, <1>8 DEF Own, CreditedOK
<1>14. BalanceOK(r)
  <2>1. \A g : GoalOf(r, g) = GoalOf(x, g) /\ Moved(r, g) = Moved(x, g)
               /\ Pending(r, g) = 0 /\ Pending(x, g) = 0
    BY <1>5, <1>7 DEF GoalOf, Moved, TxOf, Pending
  <2> QED
    BY <1>5, <1>7, <1>8, <2>1 DEF Own, BalanceOK, Balanced
<1>15. Own(r, nextSeq')
  BY <1>5, <1>11, <1>12, <1>13, <1>14 DEF Own
<1>16. ASSUME NEW e \in Flushes \ {f} PROVE Apart(r, flush[e]) /\ Apart(flush[e], r)
  <2>1. /\ Own(flush[e], nextSeq) /\ Apart(x, flush[e]) /\ Apart(flush[e], x)
    BY <1>1, Parts
  <2>2. t \notin flush[e].mine
    BY <1>3, <1>5, <2>1 DEF Own, MineOK, Apart, TxOf
  <2> QED
    BY <1>7, <2>1, <2>2 DEF Apart
<1> QED
  BY <1>0, <1>5, <1>7, <1>15, <1>16, LocalStep

\* Balances written, goals created: what is pending and what is written add up.
LEMMA GoalStep ==
  ASSUME LedgerInv, NEW f \in Flushes, NEW x \in Flush, x = flush[f],
         NEW r \in Flush, Locally(f, r), UNCHANGED nextSeq,
         r.tx = x.tx, r.log = x.log, r.mine = x.mine, r.known = x.known, r.tears = x.tears,
         r.crossing = x.crossing, r.row = x.row, r.seen = x.seen,
         r.pc \notin {"credit", "detached"}, x.pc # "detached",
         Corrects(r) => Corrects(x),
         x.pc = "credit" =>
           Touched(r.goal[x.which]) \/ GoalOf(x, x.which).status # "there",
         \A h \in Goals :
           \/ r.goal[h] = x.goal[h] /\ Pending(r, h) = Pending(x, h)
           \/ r.goal[h] = x.goal[h] /\ Used(h) /\ GoalOf(x, h).status # "there"
           \/ /\ GoalOf(x, h).status # "gone" /\ FreeGoal(f, h)
              /\ r.goal[h].status = "there" /\ r.goal[h] \in GoalRow
              /\ r.goal[h].saved = GoalOf(x, h).saved + Pending(x, h) - Pending(r, h)
  PROVE  LedgerInv'
<1>0. /\ TypeOK /\ TablesOK /\ Own(x, nextSeq) /\ nextSeq \in 1..(MaxTx + 1)
      /\ goals \in [Goals -> GoalRow]
  BY Parts
<1>1. \A g : Moved(r, g) = Moved(x, g)
  BY DEF Moved, TxOf
<1>2. PlaceOK(r, nextSeq) /\ RowsOK(r, nextSeq) /\ MineOK(r, nextSeq)
  BY <1>0 DEF Own, PlaceOK, RowsOK, MineOK, TxOf
<1>3. UsedOK(r) /\ LogOK(r)
  BY <1>0 DEF Own, UsedOK, LogOK, TxOf
<1>4. \A h \in Goals : Touched(x.goal[h]) => Touched(r.goal[h])
  BY RowFacts
<1>5. GoalsOK(r)
  <2>1. SUFFICES ASSUME NEW h \in Goals, Touched(r.goal[h])
                 PROVE  r.goal[h].status # "unused" /\ goals[h].status # "gone" /\ h \notin cron.fixed
    BY DEF GoalsOK
  <2>2. CASE r.goal[h] = x.goal[h]
    BY <1>0, <2>1, <2>2 DEF Own, GoalsOK
  <2>3. CASE r.goal[h] # x.goal[h]
    <3>1. GoalOf(x, h).status # "gone" /\ FreeGoal(f, h) /\ r.goal[h].status = "there"
      BY <2>3
    <3> QED
      BY <1>0, <3>1 DEF Own, GoalsOK, GoalOf, FreeGoal
  <2> QED
    BY <2>2, <2>3
<1>6. CreditedOK(r)
  <2>1. SUFFICES ASSUME NEW s \in Seqs, NEW h \in Goals,
                        Touched(x.tx[s]), x.tx[s].goal = h, transactions[s].goal # h
                 PROVE  Touched(r.goal[h]) \/ goals[h].status # "there"
    BY DEF CreditedOK
  <2>2. \/ Touched(x.goal[h])
        \/ goals[h].status # "there"
        \/ x.pc = "credit" /\ x.which = h
    BY <1>0, <2>1 DEF Own, CreditedOK
  <2> QED
    BY <1>4, <2>2 DEF GoalOf
<1>7. BalanceOK(r)
  <2>1. SUFFICES ASSUME NEW h \in Goals, h \notin x.tears PROVE Balanced(r, h)
    BY DEF BalanceOK
  <2>2. Balanced(x, h)
    BY <1>0, <2>1 DEF Own, BalanceOK
  <2>3. CASE r.goal[h] = x.goal[h] /\ Pending(r, h) = Pending(x, h)
    <3>1. GoalOf(r, h) = GoalOf(x, h)
      BY <2>3 DEF GoalOf
    <3> QED
      BY <1>1, <2>2, <2>3, <3>1 DEF Balanced
  <2>4. CASE r.goal[h] = x.goal[h] /\ Used(h) /\ GoalOf(x, h).status # "there"
    <3>1. GoalOf(r, h) = GoalOf(x, h) /\ GoalOf(x, h) \in GoalRow
      BY <1>0, <2>4, SeenFacts DEF GoalOf
    <3>2. GoalOf(x, h).status # "unused"
      BY <1>0, <2>4 DEF Used, GoalOf, Own, GoalsOK
    <3>3. GoalOf(r, h).status = "gone"
      BY <2>4, <3>1, <3>2 DEF GoalRow
    <3> QED
      BY <3>3 DEF Balanced
  <2>5. CASE /\ GoalOf(x, h).status # "gone"
             /\ r.goal[h] \in GoalRow
             /\ r.goal[h].saved = GoalOf(x, h).saved + Pending(x, h) - Pending(r, h)
    <3>1. GoalOf(r, h) = r.goal[h]
      BY <2>5, RowFacts DEF GoalOf
    <3>2. /\ GoalOf(x, h).saved \in Int /\ goals[h].saved \in Int
          /\ Total(Moved(x, h)) \in Int
      BY <1>0, SeenFacts, MovedType, TotalInt DEF GoalRow
    <3>3. Pending(x, h) \in Int /\ Pending(r, h) \in Int
      <4>1. /\ x.amount \in Nat /\ x.seen.amount \in Nat
            /\ r.amount \in Nat /\ r.seen.amount \in Nat
        BY FlushFacts DEF TxRow
      <4> QED
        BY <4>1 DEF Pending
    <3>4. SUFFICES ASSUME goals[h].status # "gone"
                   PROVE  GoalOf(r, h).saved - goals[h].saved = Total(Moved(r, h)) - Pending(r, h)
      BY DEF Balanced
    <3>5. GoalOf(x, h).saved - goals[h].saved = Total(Moved(x, h)) - Pending(x, h)
      BY <2>2, <2>5, <3>4 DEF Balanced
    <3> QED
      BY <1>1, <2>5, <3>1, <3>2, <3>3, <3>5
  <2> QED
    BY <2>3, <2>4, <2>5
<1>8. Own(r, nextSeq')
  BY <1>2, <1>3, <1>5, <1>6, <1>7 DEF Own
<1>9. ASSUME NEW e \in Flushes \ {f} PROVE Apart(r, flush[e]) /\ Apart(flush[e], r)
  <2>1. Apart(x, flush[e]) /\ Apart(flush[e], x)
    BY Parts
  <2>2. \A h \in Goals : r.goal[h] # x.goal[h] => ~Touched(flush[e].goal[h])
    BY DEF FreeGoal
  <2> QED
    BY <2>1, <2>2 DEF Apart
<1> QED
  BY <1>0, <1>8, <1>9, LocalStep

\* AdjustGoal, after which h's pending amount is smaller by d.
LEMMA AdjustStep ==
  ASSUME LedgerInv, NEW f \in Flushes, NEW x \in Flush, x = flush[f],
         NEW g \in Goals, Used(g), NEW d \in Int, NEW q \in Flush, AdjustGoal(f, g, d, q),
         UNCHANGED nextSeq,
         q.tx = x.tx, q.log = x.log, q.mine = x.mine, q.known = x.known, q.tears = x.tears,
         q.crossing = x.crossing, q.row = x.row, q.seen = x.seen, q.goal = x.goal,
         q.which = x.which, q.amount = x.amount,
         q.pc \notin {"credit", "detached"}, x.pc # "detached",
         Corrects(q) => Corrects(x),
         x.pc = "credit" => x.which = g,
         \A h \in Goals : Pending(q, h) = Pending(x, h) - (IF h = g THEN d ELSE 0)
  PROVE  LedgerInv'
<1>0. TypeOK
  BY Parts
<1>1. GoalOf(x, g) = Goal(f, g) /\ GoalOf(x, g) \in GoalRow /\ FreeGoal(f, g)
  BY <1>0, SeenFacts DEF GoalOf, Goal, AdjustGoal
<1>2. x.amount \in Nat /\ x.seen.amount \in Nat
  BY FlushFacts DEF TxRow
<1>3. \A h : Pending(x, h) \in Int
  BY <1>2 DEF Pending
<1>4. CASE Goal(f, g).status # "there" /\ Locally(f, q)
  <2>1. \A h \in Goals : h # g => Pending(q, h) = Pending(x, h)
    BY <1>3
  <2> QED
    BY <1>1, <1>4, <2>1, GoalStep
<1>5. CASE /\ Goal(f, g).status = "there" /\ Goal(f, g).saved + d >= 0
           /\ Locally(f, [q EXCEPT !.goal[g] = [Goal(f, g) EXCEPT !.saved = Goal(f, g).saved + d]])
  <2>1. PICK row : row = [GoalOf(x, g) EXCEPT !.saved = GoalOf(x, g).saved + d]
    OBVIOUS
  <2>2. row \in GoalRow /\ row.status = "there" /\ row.saved = GoalOf(x, g).saved + d
        /\ GoalOf(x, g).status = "there"
    BY <1>1, <1>5, <2>1 DEF GoalRow
  <2>3. PICK r : r = [q EXCEPT !.goal[g] = row]
    OBVIOUS
  <2>4. Locally(f, r)
    BY <1>1, <1>5, <2>1, <2>3
  <2>5. /\ r \in Flush
        /\ r.tx = x.tx /\ r.log = x.log /\ r.mine = x.mine /\ r.known = x.known
        /\ r.tears = x.tears /\ r.crossing = x.crossing /\ r.row = x.row /\ r.seen = x.seen
        /\ r.which = x.which /\ r.amount = x.amount /\ r.pc = q.pc
        /\ r.goal[g] = row
        /\ \A h \in Goals \ {g} : r.goal[h] = x.goal[h]
    BY <2>2, <2>3 DEF Flush
  <2>6. \A h : Pending(r, h) = Pending(q, h)
    BY <2>5 DEF Pending
  <2>7. Corrects(r) => Corrects(x)
    BY <2>5 DEF Corrects
  <2>8. x.pc = "credit" => Touched(r.goal[x.which])
    BY <2>2, <2>5, RowFacts
  <2>9. \A h \in Goals \ {g} : r.goal[h] = x.goal[h] /\ Pending(r, h) = Pending(x, h)
    BY <1>3, <2>5, <2>6
  <2>10. r.goal[g].saved = GoalOf(x, g).saved + Pending(x, g) - Pending(r, g)
    <3>1. GoalOf(x, g).saved \in Int /\ Pending(r, g) = Pending(x, g) - d
      BY <1>1, <2>6 DEF GoalRow
    <3> QED
      BY <1>3, <2>2, <2>5, <3>1
  <2> QED
    BY <1>1, <2>2, <2>4, <2>5, <2>7, <2>8, <2>9, <2>10, GoalStep
<1> QED
  BY <1>4, <1>5 DEF AdjustGoal

LEMMA CreditKeeps ==
  ASSUME LedgerInv, NEW f \in Flushes, Credit(f)
  PROVE  LedgerInv'
<1>0. flush[f] \in Flush /\ Own(flush[f], nextSeq)
  BY Parts
<1>1. PICK x \in Flush : x = flush[f]
  BY <1>0
<1>2. PICK q : q = [x EXCEPT !.pc = "open"]
  OBVIOUS
<1>3. x.pc = "credit" /\ AdjustGoal(f, x.which, x.amount, q) /\ UNCHANGED nextSeq
  BY <1>1, <1>2 DEF Credit
<1>4. /\ q \in Flush /\ q.pc = "open"
      /\ q.tx = x.tx /\ q.log = x.log /\ q.mine = x.mine /\ q.known = x.known
      /\ q.tears = x.tears /\ q.crossing = x.crossing /\ q.row = x.row /\ q.seen = x.seen
      /\ q.goal = x.goal /\ q.which = x.which /\ q.amount = x.amount
  BY <1>2 DEF Flush
<1>5. x.which \in Goals /\ Used(x.which) /\ x.amount \in Nat
  BY <1>0, <1>1, <1>3, FlushFacts DEF Own, PlaceOK, UsedOK
<1>6. \A h \in Goals : Pending(q, h) = Pending(x, h) - (IF h = x.which THEN x.amount ELSE 0)
  BY <1>3, <1>4, <1>5 DEF Pending
<1>7. ~Corrects(q)
  BY <1>4 DEF Corrects
<1> QED
  BY <1>1, <1>3, <1>4, <1>5, <1>6, <1>7, AdjustStep

LEMMA RefundKeeps ==
  ASSUME LedgerInv, NEW f \in Flushes, Refund(f)
  PROVE  LedgerInv'
<1>0. flush[f] \in Flush /\ Own(flush[f], nextSeq)
  BY Parts
<1>1. PICK x \in Flush : x = flush[f]
  BY <1>0
<1>2. PICK q : q = [x EXCEPT !.pc = "remove"]
  OBVIOUS
<1>3. /\ x.pc = "refund" /\ UNCHANGED nextSeq
      /\ \/ x.seen.goal # NoGoal /\ AdjustGoal(f, x.seen.goal, -x.seen.amount, q)
         \/ x.seen.goal = NoGoal /\ Locally(f, q)
  BY <1>1, <1>2 DEF Refund
<1>4. /\ q \in Flush /\ q.pc = "remove"
      /\ q.tx = x.tx /\ q.log = x.log /\ q.mine = x.mine /\ q.known = x.known
      /\ q.tears = x.tears /\ q.crossing = x.crossing /\ q.row = x.row /\ q.seen = x.seen
      /\ q.goal = x.goal /\ q.which = x.which /\ q.amount = x.amount
  BY <1>2 DEF Flush
<1>5. Corrects(x) /\ x.seen \in TxRow /\ x.seen.amount \in Nat /\ x.seen.goal \in Goals \cup {NoGoal}
  BY <1>3, FlushFacts DEF Corrects, TxRow
<1>6. Used(x.seen.goal)
  BY <1>0, <1>1, <1>5 DEF Own, UsedOK
<1>7. CASE x.seen.goal # NoGoal /\ AdjustGoal(f, x.seen.goal, -x.seen.amount, q)
  <2>1. PICK d \in Int : d = -x.seen.amount
    BY <1>5
  <2>2. \A h \in Goals : Pending(q, h) = Pending(x, h) - (IF h = x.seen.goal THEN d ELSE 0)
    BY <1>3, <1>4, <1>5, <2>1 DEF Pending
  <2>3. AdjustGoal(f, x.seen.goal, d, q)
    BY <1>7, <2>1
  <2> QED
    BY <1>1, <1>3, <1>4, <1>5, <1>6, <1>7, <2>2, <2>3, AdjustStep
<1>8. CASE x.seen.goal = NoGoal /\ Locally(f, q)
  <2>1. \A h \in Goals : Pending(q, h) = Pending(x, h)
    BY <1>3, <1>4, <1>8, LedgerAssumption DEF Pending
  <2> QED
    BY <1>1, <1>3, <1>4, <1>5, <1>8, <2>1, GoalStep
<1> QED
  BY <1>3, <1>7, <1>8

LEMMA AdjustKeeps ==
  ASSUME LedgerInv, NEW f \in Flushes, Adjust(f)
  PROVE  LedgerInv'
<1>0. flush[f] \in Flush /\ Own(flush[f], nextSeq)
  BY Parts
<1>1. PICK x \in Flush : x = flush[f]
  BY <1>0
<1>2. PICK q : q = [x EXCEPT !.pc = "update"]
  OBVIOUS
<1> DEFINE moves == x.seen.goal # NoGoal /\ x.amount # NoAmount /\ x.amount # x.seen.amount
<1>3. /\ x.pc = "adjust" /\ UNCHANGED nextSeq
      /\ \/ moves /\ AdjustGoal(f, x.seen.goal, x.amount - x.seen.amount, q)
         \/ ~moves /\ Locally(f, q)
  BY <1>1, <1>2 DEF Adjust
<1>4. /\ q \in Flush /\ q.pc = "update"
      /\ q.tx = x.tx /\ q.log = x.log /\ q.mine = x.mine /\ q.known = x.known
      /\ q.tears = x.tears /\ q.crossing = x.crossing /\ q.row = x.row /\ q.seen = x.seen
      /\ q.goal = x.goal /\ q.which = x.which /\ q.amount = x.amount
  BY <1>2 DEF Flush
<1>5. /\ Corrects(x) /\ x.seen \in TxRow /\ x.seen.amount \in Nat /\ x.amount \in Nat
      /\ x.seen.goal \in Goals \cup {NoGoal}
  BY <1>3, FlushFacts DEF Corrects, TxRow
<1>6. Used(x.seen.goal)
  BY <1>0, <1>1, <1>5 DEF Own, UsedOK
<1>7. CASE moves /\ AdjustGoal(f, x.seen.goal, x.amount - x.seen.amount, q)
  <2>1. PICK d \in Int : d = x.amount - x.seen.amount
    BY <1>5
  <2>2. \A h \in Goals : Pending(q, h) = Pending(x, h) - (IF h = x.seen.goal THEN d ELSE 0)
    BY <1>3, <1>4, <1>5, <1>7, <2>1 DEF Pending
  <2>3. AdjustGoal(f, x.seen.goal, d, q)
    BY <1>7, <2>1
  <2> QED
    BY <1>1, <1>3, <1>4, <1>5, <1>6, <1>7, <2>2, <2>3, AdjustStep
<1>8. CASE ~moves /\ Locally(f, q)
  <2>1. \A h \in Goals : Pending(q, h) = Pending(x, h)
    BY <1>3, <1>4, <1>5, <1>8, LedgerAssumption DEF Pending
  <2> QED
    BY <1>1, <1>3, <1>4, <1>5, <1>8, <2>1, GoalStep
<1> QED
  BY <1>3, <1>7, <1>8

LEMMA CreateGoalKeeps ==
  ASSUME LedgerInv, NEW f \in Flushes, NEW g \in Goals, CreateGoal(f, g)
  PROVE  LedgerInv'
<1>0. /\ flush[f] \in Flush /\ Own(flush[f], nextSeq) /\ TablesOK /\ MaxIntents \in Nat
      /\ goals \in [Goals -> GoalRow]
  BY Parts, LedgerAssumption
<1>1. PICK x \in Flush : x = flush[f]
  BY <1>0
<1>2. PICK row : row = [status |-> "there", saved |-> 0]
  OBVIOUS
<1>3. PICK r : r = [x EXCEPT !.intents = x.intents + 1, !.goal[g] = row]
  OBVIOUS
<1>4. /\ x.pc = "open" /\ x.intents < MaxIntents
      /\ GoalOf(x, g).status = "unused" /\ FreeGoal(f, g)
      /\ Locally(f, r) /\ UNCHANGED nextSeq
  BY <1>1, <1>2, <1>3 DEF CreateGoal, NextIntent, Goal, GoalOf
<1>5. row \in GoalRow /\ row.status = "there" /\ row.saved = 0
  BY <1>2 DEF GoalRow
<1>6. /\ r \in Flush /\ r.pc = "open" /\ r.goal[g] = row
      /\ r.tx = x.tx /\ r.log = x.log /\ r.mine = x.mine /\ r.known = x.known
      /\ r.tears = x.tears /\ r.crossing = x.crossing /\ r.row = x.row /\ r.seen = x.seen
      /\ \A h \in Goals \ {g} : r.goal[h] = x.goal[h]
  <2>1. x.intents + 1 \in 0..MaxIntents
    BY <1>0, <1>4, FlushFacts
  <2> QED
    BY <1>3, <1>4, <1>5, <2>1 DEF Flush
<1>7. GoalOf(x, g).saved = 0
  BY <1>0, <1>1, <1>4 DEF Own, GoalsOK, GoalOf, TablesOK
<1>8. \A h : Pending(r, h) = 0 /\ Pending(x, h) = 0
  BY <1>4, <1>6 DEF Pending
<1>9. ~Corrects(r)
  BY <1>6 DEF Corrects
<1>10. r.goal[g].saved = GoalOf(x, g).saved + Pending(x, g) - Pending(r, g)
  BY <1>5, <1>6, <1>7, <1>8
<1> QED
  BY <1>1, <1>4, <1>5, <1>6, <1>8, <1>9, <1>10, GoalStep

-----------------------------------------------------------------------------
(***************************************************************************)
(* Rows written by a correction.                                           *)
(***************************************************************************)

\* The second half of a correction: the row, if it is still there, and the
\* event.  Where the goal's balance has been adjusted for another row than the
\* one found, the goal is torn.
LEMMA RowStep ==
  ASSUME LedgerInv, NEW f \in Flushes, NEW x \in Flush, x = flush[f],
         x.pc \in {"remove", "update"},
         NEW s \in Seqs, s = x.row, FreeTx(f, s),
         NEW r \in Flush, Locally(f, r), UNCHANGED nextSeq,
         r.pc = "open", r.mine = x.mine, r.known = x.known, r.goal = x.goal,
         \A t \in Seqs \ {s} : r.tx[t] = x.tx[t] /\ r.log[t] = x.log[t],
         \/ ~TxOf(x, s).there /\ r.tx[s] = x.tx[s]
         \/ TxOf(x, s).there /\ r.tx[s] = NoTx
         \/ /\ TxOf(x, s).there
            /\ r.tx[s] \in TxRow /\ r.tx[s].there /\ r.tx[s].goal = TxOf(x, s).goal,
         x.crossing \subseteq r.crossing,
         \/ s \in r.crossing
         \/ \A a \in Amounts :
              r.log[s][a] = x.log[s][a] + Bears(TxOf(r, s), a) - Bears(TxOf(x, s), a),
         x.tears \subseteq r.tears,
         \A h \in Goals \ r.tears :
           Val(TxOf(r, s), h) + Pending(x, h) = Val(TxOf(x, s), h)
  PROVE  LedgerInv'
<1>0. /\ TypeOK /\ TablesOK /\ Own(x, nextSeq) /\ nextSeq \in 1..(MaxTx + 1)
      /\ transactions \in [Seqs -> TxRow]
  BY Parts
<1>1. Corrects(x) /\ ~Corrects(r) /\ s < nextSeq
  BY <1>0 DEF Corrects, Own, PlaceOK
<1>2. /\ Touched(x.tx[s]) => Touched(r.tx[s]) /\ TxOf(x, s) = x.tx[s]
      /\ ~Touched(x.tx[s]) => TxOf(x, s) = transactions[s]
  BY RowFacts DEF TxOf
<1>3. PlaceOK(r, nextSeq)
  BY <1>1 DEF PlaceOK
<1>4. RowsOK(r, nextSeq)
  <2>1. SUFFICES ASSUME NEW t \in Seqs, Touched(r.tx[t])
                 PROVE  /\ t < nextSeq
                        /\ ~r.tx[t].there => r.tx[t] = NoTx
                        /\ transactions[t].there => r.tx[t].goal \in {transactions[t].goal, NoGoal}
                        /\ ~transactions[t].there => t \in x.mine
    BY DEF RowsOK
  <2>2. CASE t # s \/ r.tx[t] = x.tx[t]
    BY <1>0, <2>1, <2>2 DEF Own, RowsOK
  <2>3. CASE t = s /\ TxOf(x, s).there /\ r.tx[s] = NoTx
    BY <1>0, <1>1, <1>2, <2>3, RowFacts DEF Own, RowsOK
  <2>4. CASE t = s /\ TxOf(x, s).there /\ r.tx[s].there /\ r.tx[s].goal = TxOf(x, s).goal
    BY <1>0, <1>1, <1>2, <2>4 DEF Own, RowsOK
  <2> QED
    BY <2>2, <2>3, <2>4
<1>5. MineOK(r, nextSeq)
  <2>1. x.mine \subseteq Seqs
    BY FlushFacts
  <2>2. \A t \in Seqs : Touched(x.tx[t]) => Touched(r.tx[t])
    BY <1>2
  <2> QED
    BY <1>0, <2>1, <2>2 DEF Own, MineOK
<1>6. UsedOK(r)
  <2>1. SUFFICES ASSUME NEW t \in Seqs, Touched(r.tx[t]) PROVE Used(r.tx[t].goal)
    BY <1>0, <1>1 DEF UsedOK, Own
  <2>2. CASE t # s \/ r.tx[t] = x.tx[t]
    BY <1>0, <2>1, <2>2 DEF Own, UsedOK
  <2>3. CASE t = s /\ r.tx[s] = NoTx
    BY <2>3, RowFacts, LedgerAssumption DEF Used
  <2>4. CASE t = s /\ r.tx[s].goal = TxOf(x, s).goal
    BY <1>0, <1>2, <2>4 DEF Own, UsedOK, TablesOK
  <2> QED
    BY <2>2, <2>3, <2>4
<1>7. GoalsOK(r)
  BY <1>0 DEF Own, GoalsOK
<1>8. CreditedOK(r)
  <2>1. SUFFICES ASSUME NEW t \in Seqs, NEW h \in Goals,
                        Touched(r.tx[t]), r.tx[t].goal = h, transactions[t].goal # h
                 PROVE  Touched(x.goal[h]) \/ goals[h].status # "there"
    BY DEF CreditedOK
  <2>2. CASE t # s \/ r.tx[t] = x.tx[t]
    BY <1>0, <2>1, <2>2 DEF Own, CreditedOK
  <2>3. CASE t = s /\ r.tx[s] = NoTx
    BY <2>1, <2>3, RowFacts, LedgerAssumption
  <2>4. CASE t = s /\ r.tx[s].goal = TxOf(x, s).goal
    BY <1>0, <1>2, <2>1, <2>4 DEF Own, CreditedOK
  <2> QED
    BY <2>2, <2>3, <2>4
<1>9. BalanceOK(r)
  <2>1. SUFFICES ASSUME NEW h \in Goals, h \notin r.tears PROVE Balanced(r, h)
    BY DEF BalanceOK
  <2>2. Balanced(x, h) /\ GoalOf(r, h) = GoalOf(x, h)
    BY <1>0, <2>1 DEF Own, BalanceOK, GoalOf
  <2>3. Total(Moved(r, h)) = Total(Moved(x, h)) + (Val(TxOf(r, s), h) - Val(TxOf(x, s), h))
    BY <1>0, MovedBump
  <2>4. /\ Total(Moved(x, h)) \in Int
        /\ Val(TxOf(r, s), h) \in Int /\ Val(TxOf(x, s), h) \in Int
    BY <1>0, MovedType, TotalInt, SeenFacts, ValNat
  <2>5. Pending(x, h) \in Int /\ Pending(r, h) = 0
    <3>1. x.amount \in Nat /\ x.seen.amount \in Nat
      BY FlushFacts DEF TxRow
    <3> QED
      BY <3>1 DEF Pending
  <2>6. Val(TxOf(r, s), h) + Pending(x, h) = Val(TxOf(x, s), h)
    BY <2>1
  <2>7. Total(Moved(r, h)) - Pending(r, h) = Total(Moved(x, h)) - Pending(x, h)
    BY <2>3, <2>4, <2>5, <2>6
  <2> QED
    BY <2>2, <2>7 DEF Balanced
<1>10. LogOK(r)
  BY <1>0, LogStep DEF Own
<1>11. Own(r, nextSeq')
  BY <1>3, <1>4, <1>5, <1>6, <1>7, <1>8, <1>9, <1>10 DEF Own
<1>12. ASSUME NEW e \in Flushes \ {f} PROVE Apart(r, flush[e]) /\ Apart(flush[e], r)
  <2>1. Apart(x, flush[e]) /\ Apart(flush[e], x)
    BY Parts
  <2>2. ~Touched(flush[e].tx[s])
    BY DEF FreeTx
  <2> QED
    BY <1>1, <2>1, <2>2 DEF Apart
<1> QED
  BY <1>0, <1>11, <1>12, LocalStep

LEMMA RemoveKeeps ==
  ASSUME LedgerInv, NEW f \in Flushes, Remove(f)
  PROVE  LedgerInv'
<1>0. flush[f] \in Flush /\ Own(flush[f], nextSeq) /\ TypeOK
  BY Parts
<1>1. PICK x \in Flush : x = flush[f]
  BY <1>0
<1>2. x.pc = "remove" /\ Corrects(x)
  BY <1>1 DEF Remove, Corrects
<1>3. PICK s \in Seqs : s = x.row
  BY <1>0, <1>1, <1>2 DEF Own, PlaceOK
<1>4. PICK found : found = TxOf(x, s)
  OBVIOUS
<1>5. /\ found = Tx(f, s) /\ found \in TxRow /\ x.seen \in TxRow /\ x.seen.there
      /\ found.goal \in {x.seen.goal, NoGoal}
  BY <1>0, <1>1, <1>2, <1>3, <1>4, SeenFacts, FlushFacts DEF Tx, TxOf, Own, PlaceOK
<1>6. PICK tears \in SUBSET Goals : tears = Tears(f)
  <2>1. x.seen.goal \in Goals \cup {NoGoal} /\ x.tears \in SUBSET Goals
    BY <1>5, FlushFacts, RowFacts
  <2> QED
    BY <1>1, <2>1 DEF Tears
<1>7. PICK crossing \in SUBSET Seqs : crossing = Crossing(f)
  BY <1>1, <1>3, FlushFacts DEF Crossing
<1>8. PICK last \in 0..MaxTx : last = LastAfterDelete(f)
  BY <1>1, FlushFacts, LedgerAssumption DEF LastAfterDelete, NoSeq
<1>9. PICK row : row = IF found.there THEN NoTx ELSE x.tx[s]
  OBVIOUS
<1>10. PICK account \in Account :
         account = [b \in Amounts |->
                     x.log[s][b] + Has(NoAmount, b) - Has(x.seen.amount, b)]
  <2>1. \A b \in Amounts : x.log[s][b] \in Int
    BY FlushFacts DEF Account
  <2>2. ASSUME NEW b \in Amounts PROVE x.log[s][b] + Has(NoAmount, b) - Has(x.seen.amount, b) \in Int
    BY <2>1, BearsFacts
  <2>3. [b \in Amounts |-> x.log[s][b] + Has(NoAmount, b) - Has(x.seen.amount, b)] \in Account
    BY <2>2 DEF Account
  <2> QED
    BY <2>3
<1>11. PICK r : r = [x EXCEPT !.pc = "open", !.last = last, !.tears = tears,
                              !.crossing = crossing, !.tx[s] = row, !.log[s] = account]
  OBVIOUS
<1>12. FreeTx(f, s) /\ Locally(f, r) /\ UNCHANGED nextSeq
  BY <1>1, <1>3, <1>5, <1>6, <1>7, <1>8, <1>9, <1>10, <1>11 DEF Remove, WithEvent
<1>13. row \in TxRow \cup {Untouched}
  BY <1>9, RowFacts, FlushFacts
<1>14. /\ r \in Flush /\ r.pc = "open" /\ r.mine = x.mine /\ r.known = x.known
       /\ r.goal = x.goal /\ r.tears = tears /\ r.crossing = crossing
       /\ r.tx[s] = row /\ r.log[s] = account
       /\ \A t \in Seqs \ {s} : r.tx[t] = x.tx[t] /\ r.log[t] = x.log[t]
  BY <1>11, <1>13 DEF Flush
<1>15. x.tears \subseteq tears
  BY <1>1, <1>6 DEF Tears
<1>16. /\ x.crossing \subseteq r.crossing
       /\ s \in r.crossing \/ (found.there /\ found.amount = x.seen.amount)
  BY <1>1, <1>3, <1>5, <1>7, <1>14 DEF Crossing
<1>e. \/ s \in r.crossing
      \/ \A a \in Amounts :
           r.log[s][a] = x.log[s][a] + Bears(TxOf(r, s), a) - Bears(TxOf(x, s), a)
  <2>1. SUFFICES ASSUME found.there, found.amount = x.seen.amount, NEW a \in Amounts
                 PROVE  r.log[s][a] = x.log[s][a] + Bears(TxOf(r, s), a) - Bears(TxOf(x, s), a)
    BY <1>16
  <2>2. TxOf(r, s) = NoTx /\ Bears(TxOf(r, s), a) = 0 /\ Has(NoAmount, a) = 0
    BY <1>9, <1>14, <2>1, RowFacts, BearsFacts DEF TxOf
  <2>3. Bears(TxOf(x, s), a) = Has(x.seen.amount, a)
    BY <1>4, <2>1 DEF Bears
  <2>4. r.log[s][a] = x.log[s][a] + Has(NoAmount, a) - Has(x.seen.amount, a)
    BY <1>10, <1>14
  <2> QED
    BY <2>2, <2>3, <2>4
<1>17. ASSUME NEW h \in Goals \ tears
       PROVE  Val(TxOf(r, s), h) + Pending(x, h) = Val(TxOf(x, s), h)
  <2>1. TxOf(r, s) = IF found.there THEN NoTx ELSE found
    BY <1>4, <1>9, <1>14, RowFacts DEF TxOf
  <2>2. CASE x.seen.goal = h
    <3>1. found = x.seen
      BY <1>1, <1>3, <1>5, <1>6, <1>17, <2>2, LedgerAssumption DEF Tears
    <3> QED
      BY <1>2, <1>4, <1>5, <2>1, <2>2, <3>1, RowFacts DEF Val, Pending, TxRow
  <2>3. CASE x.seen.goal # h
    <3>1. Pending(x, h) = 0 /\ found.goal # h /\ NoTx.goal # h
      BY <1>2, <1>5, <2>3, RowFacts, LedgerAssumption DEF Pending
    <3> QED
      BY <1>4, <2>1, <3>1 DEF Val
  <2> QED
    BY <2>2, <2>3
<1>18. \/ ~TxOf(x, s).there /\ r.tx[s] = x.tx[s]
       \/ TxOf(x, s).there /\ r.tx[s] = NoTx
  BY <1>4, <1>9, <1>14
<1> QED
  BY <1>1, <1>2, <1>3, <1>12, <1>14, <1>15, <1>16, <1>e, <1>17, <1>18, RowStep

LEMMA UpdateKeeps ==
  ASSUME LedgerInv, NEW f \in Flushes, Update(f)
  PROVE  LedgerInv'
<1>0. flush[f] \in Flush /\ Own(flush[f], nextSeq) /\ TypeOK
  BY Parts
<1>1. PICK x \in Flush : x = flush[f]
  BY <1>0
<1>2. x.pc = "update" /\ Corrects(x) /\ x.amount \in Nat
  BY <1>1, FlushFacts DEF Update, Corrects
<1>3. PICK s \in Seqs : s = x.row
  BY <1>0, <1>1, <1>2 DEF Own, PlaceOK
<1>4. PICK found : found = TxOf(x, s)
  OBVIOUS
<1>5. /\ found = Tx(f, s) /\ found \in TxRow /\ x.seen \in TxRow /\ x.seen.there
      /\ found.goal \in {x.seen.goal, NoGoal}
  BY <1>0, <1>1, <1>2, <1>3, <1>4, SeenFacts, FlushFacts DEF Tx, TxOf, Own, PlaceOK
<1>6. PICK tears \in SUBSET Goals : tears = IF x.amount = NoAmount THEN x.tears ELSE Tears(f)
  <2>1. x.seen.goal \in Goals \cup {NoGoal} /\ x.tears \in SUBSET Goals
    BY <1>5, FlushFacts, RowFacts
  <2> QED
    BY <1>1, <2>1 DEF Tears
<1>7. PICK crossing \in SUBSET Seqs : crossing = Crossing(f)
  BY <1>1, <1>3, FlushFacts DEF Crossing
<1>8. PICK a \in Nat : a = AmountInEvent(f)
  BY <1>1, <1>2, <1>5 DEF AmountInEvent, TxRow
<1>9. PICK row : row = IF ~found.there THEN x.tx[s]
                       ELSE IF x.amount = NoAmount THEN found ELSE [found EXCEPT !.amount = x.amount]
  OBVIOUS
<1>10. PICK account \in Account :
         account = [b \in Amounts |-> x.log[s][b] + Has(a, b) - Has(x.seen.amount, b)]
  <2>1. \A b \in Amounts : x.log[s][b] \in Int
    BY FlushFacts DEF Account
  <2>2. ASSUME NEW b \in Amounts PROVE x.log[s][b] + Has(a, b) - Has(x.seen.amount, b) \in Int
    BY <2>1, BearsFacts
  <2>3. [b \in Amounts |-> x.log[s][b] + Has(a, b) - Has(x.seen.amount, b)] \in Account
    BY <2>2 DEF Account
  <2> QED
    BY <2>3
<1>11. PICK r : r = [x EXCEPT !.pc = "open", !.tears = tears,
                              !.crossing = crossing, !.tx[s] = row, !.log[s] = account]
  OBVIOUS
<1>12. FreeTx(f, s) /\ Locally(f, r) /\ UNCHANGED nextSeq
  BY <1>1, <1>3, <1>5, <1>6, <1>7, <1>8, <1>9, <1>10, <1>11 DEF Update, WithEvent
<1>13. /\ found.there => /\ row \in TxRow /\ row.there /\ row.goal = found.goal
                         /\ row.amount = IF x.amount = NoAmount THEN found.amount ELSE x.amount
       /\ ~found.there => row = x.tx[s]
  BY <1>2, <1>5, <1>9 DEF TxRow
<1>14. row \in TxRow \cup {Untouched}
  BY <1>13, FlushFacts
<1>15. /\ r \in Flush /\ r.pc = "open" /\ r.mine = x.mine /\ r.known = x.known
       /\ r.goal = x.goal /\ r.tears = tears /\ r.crossing = crossing
       /\ r.tx[s] = row /\ r.log[s] = account
       /\ \A t \in Seqs \ {s} : r.tx[t] = x.tx[t] /\ r.log[t] = x.log[t]
  BY <1>11, <1>14 DEF Flush
<1>16. x.tears \subseteq tears
  BY <1>1, <1>6 DEF Tears
<1>17. /\ x.crossing \subseteq r.crossing
       /\ s \in r.crossing \/ (found.there /\ found.amount = x.seen.amount)
  BY <1>1, <1>3, <1>5, <1>7, <1>15 DEF Crossing
<1>18. TxOf(r, s) = IF found.there THEN row ELSE found
  BY <1>4, <1>13, <1>15, RowFacts DEF TxOf
<1>e. \/ s \in r.crossing
      \/ \A b \in Amounts :
           r.log[s][b] = x.log[s][b] + Bears(TxOf(r, s), b) - Bears(TxOf(x, s), b)
  <2>1. SUFFICES ASSUME found.there, found.amount = x.seen.amount, NEW b \in Amounts
                 PROVE  r.log[s][b] = x.log[s][b] + Bears(TxOf(r, s), b) - Bears(TxOf(x, s), b)
    BY <1>17
  <2>2. a = row.amount
    BY <1>1, <1>8, <1>13, <2>1 DEF AmountInEvent
  <2>3. Bears(TxOf(r, s), b) = Has(a, b)
    BY <1>13, <1>18, <2>1, <2>2 DEF Bears
  <2>4. Bears(TxOf(x, s), b) = Has(x.seen.amount, b)
    BY <1>4, <2>1 DEF Bears
  <2>5. r.log[s][b] = x.log[s][b] + Has(a, b) - Has(x.seen.amount, b)
    BY <1>10, <1>15
  <2> QED
    BY <2>3, <2>4, <2>5
<1>19. ASSUME NEW h \in Goals \ tears
       PROVE  Val(TxOf(r, s), h) + Pending(x, h) = Val(TxOf(x, s), h)
  <2>1. CASE x.amount = NoAmount
    <3>1. Pending(x, h) = 0
      BY <1>2, <2>1 DEF Pending
    <3>2. Val(TxOf(r, s), h) = Val(found, h) /\ Val(found, h) \in Int
      BY <1>5, <1>13, <1>18, <2>1, ValNat DEF Val
    <3> QED
      BY <1>4, <3>1, <3>2
  <2>2. CASE x.amount # NoAmount /\ x.seen.goal = h
    <3>1. found = x.seen
      BY <1>1, <1>3, <1>5, <1>6, <1>19, <2>2, LedgerAssumption DEF Tears
    <3>2. Pending(x, h) = x.seen.amount - x.amount
      BY <1>2, <2>2 DEF Pending
    <3>3. Val(TxOf(r, s), h) = x.amount /\ Val(found, h) = x.seen.amount
      BY <1>5, <1>13, <1>18, <2>2, <3>1 DEF Val
    <3> QED
      BY <1>2, <1>4, <1>5, <3>2, <3>3 DEF TxRow
  <2>3. CASE x.amount # NoAmount /\ x.seen.goal # h
    <3>1. Pending(x, h) = 0 /\ found.goal # h
      BY <1>2, <1>5, <2>3, LedgerAssumption DEF Pending
    <3> QED
      BY <1>4, <1>13, <1>18, <3>1 DEF Val
  <2> QED
    BY <2>1, <2>2, <2>3
<1>20. \/ ~TxOf(x, s).there /\ r.tx[s] = x.tx[s]
       \/ /\ TxOf(x, s).there
          /\ r.tx[s] \in TxRow /\ r.tx[s].there /\ r.tx[s].goal = TxOf(x, s).goal
  BY <1>4, <1>13, <1>15
<1> QED
  BY <1>1, <1>2, <1>3, <1>12, <1>15, <1>16, <1>17, <1>e, <1>19, <1>20, RowStep

\* An edit with nothing to write: what was pending is nothing.
LEMMA NothingToEditKeeps ==
  ASSUME LedgerInv, NEW f \in Flushes, NothingToEdit(f)
  PROVE  LedgerInv'
<1>0. flush[f] \in Flush /\ Own(flush[f], nextSeq)
  BY Parts
<1>1. PICK x \in Flush : x = flush[f]
  BY <1>0
<1>2. PICK r : r = [x EXCEPT !.pc = "open"]
  OBVIOUS
<1>3. x.pc = "update" /\ x.amount = NoAmount /\ Locally(f, r) /\ UNCHANGED nextSeq
  BY <1>1, <1>2 DEF NothingToEdit
<1>4. /\ r \in Flush /\ r.pc = "open"
      /\ r.tx = x.tx /\ r.log = x.log /\ r.mine = x.mine /\ r.known = x.known
      /\ r.tears = x.tears /\ r.crossing = x.crossing /\ r.row = x.row /\ r.seen = x.seen
      /\ r.goal = x.goal
  BY <1>2 DEF Flush
<1>5. \A h \in Goals : Pending(r, h) = Pending(x, h)
  BY <1>3, <1>4 DEF Pending
<1>6. ~Corrects(r)
  BY <1>4 DEF Corrects
<1> QED
  BY <1>1, <1>3, <1>4, <1>5, <1>6, GoalStep

-----------------------------------------------------------------------------
(***************************************************************************)
(* The deletion of a goal.                                                 *)
(***************************************************************************)

\* Contributions are detached from g, and g goes or is about to go.
LEMMA DetachStep ==
  ASSUME LedgerInv, NEW f \in Flushes, NEW x \in Flush, x = flush[f],
         NEW g \in Goals, Used(g), FreeContributions(f, g),
         NEW r \in Flush, Locally(f, r), UNCHANGED nextSeq,
         x.pc \in {"open", "detached"}, x.pc = "detached" => x.which = g,
         r.pc \in {"open", "detached"}, r.pc = "detached" => r.which = g,
         r.log = x.log, r.mine = x.mine, r.known = x.known, r.tears = x.tears,
         r.crossing = x.crossing,
         \A s \in Seqs :
           \/ r.tx[s] = x.tx[s]
           \/ /\ TxOf(x, s).there /\ TxOf(x, s).goal = g
              /\ r.tx[s] \in TxRow /\ r.tx[s].there /\ r.tx[s].goal = NoGoal
              /\ r.tx[s].amount = TxOf(x, s).amount,
         \A h \in Goals \ {g} : r.goal[h] = x.goal[h],
         \/ r.goal[g] = x.goal[g] /\ (r.pc = "detached" \/ GoalOf(x, g).status # "there")
         \/ /\ GoalOf(x, g).status = "there" /\ FreeGoal(f, g)
            /\ r.goal[g] \in GoalRow /\ r.goal[g].status = "gone"
  PROVE  LedgerInv'
<1>0. /\ TypeOK /\ TablesOK /\ Own(x, nextSeq) /\ nextSeq \in 1..(MaxTx + 1)
      /\ transactions \in [Seqs -> TxRow] /\ goals \in [Goals -> GoalRow]
      /\ NoGoal \notin Goals
  BY Parts, LedgerAssumption
<1>1. \A s \in Seqs :
        /\ Touched(x.tx[s]) => Touched(r.tx[s]) /\ TxOf(x, s) = x.tx[s]
        /\ ~Touched(x.tx[s]) => TxOf(x, s) = transactions[s]
  BY RowFacts DEF TxOf
<1>2. ~Corrects(r) /\ ~Corrects(x)
  BY DEF Corrects
<1>3. PlaceOK(r, nextSeq)
  BY <1>2 DEF PlaceOK
<1>4. RowsOK(r, nextSeq)
  <2>1. SUFFICES ASSUME NEW t \in Seqs, Touched(r.tx[t])
                 PROVE  /\ t < nextSeq
                        /\ ~r.tx[t].there => r.tx[t] = NoTx
                        /\ transactions[t].there => r.tx[t].goal \in {transactions[t].goal, NoGoal}
                        /\ ~transactions[t].there => t \in x.mine
    BY DEF RowsOK
  <2>2. CASE r.tx[t] = x.tx[t]
    BY <1>0, <2>1, <2>2 DEF Own, RowsOK
  <2>3. CASE TxOf(x, t).there /\ r.tx[t].there /\ r.tx[t].goal = NoGoal
    BY <1>0, <1>1, <2>3 DEF Own, RowsOK, TablesOK
  <2> QED
    BY <2>2, <2>3
<1>5. MineOK(r, nextSeq)
  <2>1. x.mine \subseteq Seqs
    BY FlushFacts
  <2> QED
    BY <1>0, <1>1, <2>1 DEF Own, MineOK
<1>6. UsedOK(r)
  <2>1. SUFFICES ASSUME NEW t \in Seqs, Touched(r.tx[t]) PROVE Used(r.tx[t].goal)
    BY <1>0, <1>2 DEF UsedOK, Own
  <2> QED
    BY <1>0, <2>1 DEF Own, UsedOK, Used
<1>7. GoalsOK(r)
  <2>1. SUFFICES ASSUME NEW h \in Goals, Touched(r.goal[h])
                 PROVE  r.goal[h].status # "unused" /\ goals[h].status # "gone" /\ h \notin cron.fixed
    BY DEF GoalsOK
  <2>2. CASE r.goal[h] = x.goal[h]
    BY <1>0, <2>1, <2>2 DEF Own, GoalsOK
  <2>3. CASE h = g /\ GoalOf(x, g).status = "there" /\ FreeGoal(f, g) /\ r.goal[g].status = "gone"
    BY <1>0, <2>3 DEF Own, GoalsOK, GoalOf, FreeGoal
  <2> QED
    BY <2>2, <2>3
<1>8. \A h \in Goals : Touched(x.goal[h]) => Touched(r.goal[h])
  BY RowFacts
<1>9. CreditedOK(r)
  <2>1. SUFFICES ASSUME NEW t \in Seqs, NEW h \in Goals,
                        Touched(r.tx[t]), r.tx[t].goal = h, transactions[t].goal # h
                 PROVE  Touched(r.goal[h]) \/ goals[h].status # "there"
    BY DEF CreditedOK
  <2>2. r.tx[t] = x.tx[t]
    BY <1>0, <2>1
  <2> QED
    BY <1>0, <1>8, <2>1, <2>2 DEF Own, CreditedOK
<1>10. BalanceOK(r)
  <2>1. SUFFICES ASSUME NEW h \in Goals, h \notin x.tears PROVE Balanced(r, h)
    BY DEF BalanceOK
  <2>2. CASE h # g
    <3>1. Balanced(x, h) /\ GoalOf(r, h) = GoalOf(x, h)
      BY <1>0, <2>1, <2>2 DEF Own, BalanceOK, GoalOf
    <3>2. Pending(r, h) = 0 /\ Pending(x, h) = 0
      BY DEF Pending
    <3>3. ASSUME NEW s \in Seqs PROVE Val(TxOf(r, s), h) = Val(TxOf(x, s), h)
      <4>1. CASE r.tx[s] = x.tx[s]
        BY <4>1 DEF TxOf
      <4>2. CASE /\ TxOf(x, s).goal = g
                 /\ r.tx[s] \in TxRow /\ r.tx[s].goal = NoGoal
        <5>1. TxOf(r, s) = r.tx[s]
          BY <4>2, RowFacts DEF TxOf
        <5> QED
          BY <1>0, <2>2, <4>2, <5>1 DEF Val
      <4> QED
        BY <4>1, <4>2
    <3>4. Moved(r, h) = Moved(x, h)
      BY <3>3, MovedSame
    <3> QED
      BY <2>2, <3>1, <3>2, <3>4 DEF Balanced
  <2>3. CASE h = g
    <3>1. CASE r.pc = "detached"
      BY <2>3, <3>1 DEF Balanced
    <3>2. CASE r.goal[g] = x.goal[g] /\ GoalOf(x, g).status # "there"
      <4>1. GoalOf(r, g) = GoalOf(x, g) /\ GoalOf(x, g) \in GoalRow
        BY <1>0, <3>2, SeenFacts DEF GoalOf
      <4>2. GoalOf(x, g).status # "unused"
        BY <1>0 DEF Used, GoalOf, Own, GoalsOK
      <4>3. GoalOf(r, g).status = "gone"
        BY <3>2, <4>1, <4>2 DEF GoalRow
      <4> QED
        BY <2>3, <4>3 DEF Balanced
    <3>3. CASE r.goal[g] \in GoalRow /\ r.goal[g].status = "gone"
      <4>1. GoalOf(r, g) = r.goal[g]
        BY <3>3, RowFacts DEF GoalOf
      <4> QED
        BY <2>3, <3>3, <4>1 DEF Balanced
    <3> QED
      BY <3>1, <3>2, <3>3
  <2> QED
    BY <2>2, <2>3
<1>11. LogOK(r)
  <2>1. ASSUME NEW t \in Seqs, NEW a PROVE Bears(TxOf(r, t), a) = Bears(TxOf(x, t), a)
    <3>1. CASE r.tx[t] = x.tx[t]
      BY <3>1 DEF TxOf
    <3>2. CASE /\ TxOf(x, t).there /\ r.tx[t].there /\ r.tx[t].amount = TxOf(x, t).amount
               /\ r.tx[t] \in TxRow
      <4>1. TxOf(r, t) = r.tx[t]
        BY <3>2, RowFacts DEF TxOf
      <4> QED
        BY <3>2, <4>1 DEF Bears
    <3> QED
      BY <3>1, <3>2
  <2> QED
    BY <1>0, <2>1 DEF Own, LogOK
<1>12. Own(r, nextSeq')
  BY <1>3, <1>4, <1>5, <1>6, <1>7, <1>9, <1>10, <1>11 DEF Own
<1>13. ASSUME NEW e \in Flushes \ {f} PROVE Apart(r, flush[e]) /\ Apart(flush[e], r)
  <2>1. Apart(x, flush[e]) /\ Apart(flush[e], x)
    BY Parts
  <2>2. ASSUME NEW t \in Seqs, r.tx[t] # x.tx[t] PROVE ~Touched(flush[e].tx[t])
    <3>1. TxOf(x, t).there /\ TxOf(x, t).goal = g
      BY <2>2
    <3>2. CASE Touched(x.tx[t])
      BY <2>1, <3>2 DEF Apart
    <3>3. CASE ~Touched(x.tx[t])
      <4>1. t \in Contributions(g)
        BY <1>1, <3>1, <3>3 DEF Contributions
      <4> QED
        BY <4>1 DEF FreeContributions, FreeTx
    <3> QED
      BY <3>2, <3>3
  <2>3. \A h \in Goals : r.goal[h] # x.goal[h] => ~Touched(flush[e].goal[h])
    BY DEF FreeGoal
  <2> QED
    BY <1>2, <2>1, <2>2, <2>3 DEF Apart
<1> QED
  BY <1>0, <1>12, <1>13, LocalStep

\* Detached, row by row.
LEMMA DetachedRows ==
  ASSUME LedgerInv, NEW f \in Flushes, NEW x \in Flush, x = flush[f], NEW g \in Goals
  PROVE  /\ Detached(f, g) \in [Seqs -> TxRow \cup {Untouched}]
         /\ \A s \in Seqs :
              \/ Detached(f, g)[s] = x.tx[s]
              \/ /\ TxOf(x, s).there /\ TxOf(x, s).goal = g
                 /\ Detached(f, g)[s] \in TxRow /\ Detached(f, g)[s].there
                 /\ Detached(f, g)[s].goal = NoGoal
                 /\ Detached(f, g)[s].amount = TxOf(x, s).amount
<1>0. TypeOK
  BY Parts
<1>1. /\ x.tx \in [Seqs -> TxRow \cup {Untouched}]
      /\ \A s \in Seqs : TxOf(x, s) \in TxRow /\ Tx(f, s) = TxOf(x, s)
  BY <1>0, SeenFacts, FlushFacts DEF Tx, TxOf
<1>2. ASSUME NEW t \in TxRow
      PROVE  /\ [t EXCEPT !.goal = NoGoal] \in TxRow
             /\ [t EXCEPT !.goal = NoGoal].there = t.there
             /\ [t EXCEPT !.goal = NoGoal].goal = NoGoal
             /\ [t EXCEPT !.goal = NoGoal].amount = t.amount
  BY DEF TxRow
<1>3. \A s \in Seqs : Detached(f, g)[s] =
        IF TxOf(x, s).there /\ TxOf(x, s).goal = g THEN [TxOf(x, s) EXCEPT !.goal = NoGoal]
        ELSE x.tx[s]
  BY <1>1 DEF Detached
<1>4. ASSUME NEW s \in Seqs
      PROVE  \/ Detached(f, g)[s] = x.tx[s]
             \/ /\ TxOf(x, s).there /\ TxOf(x, s).goal = g
                /\ Detached(f, g)[s] \in TxRow /\ Detached(f, g)[s].there
                /\ Detached(f, g)[s].goal = NoGoal
                /\ Detached(f, g)[s].amount = TxOf(x, s).amount
  <2>1. CASE TxOf(x, s).there /\ TxOf(x, s).goal = g
    <3>1. Detached(f, g)[s] = [TxOf(x, s) EXCEPT !.goal = NoGoal]
      BY <1>3, <2>1
    <3>2. PICK t \in TxRow : t = TxOf(x, s)
      BY <1>1
    <3> QED
      BY <1>2, <2>1, <3>1, <3>2
  <2>2. CASE ~(TxOf(x, s).there /\ TxOf(x, s).goal = g)
    BY <1>3, <2>2
  <2> QED
    BY <2>1, <2>2
<1>5. Detached(f, g) \in [Seqs -> TxRow \cup {Untouched}]
  <2>1. Detached(f, g) = [s \in Seqs |-> Detached(f, g)[s]]
    BY DEF Detached
  <2> QED
    BY <1>1, <1>4, <2>1
<1> QED
  BY <1>4, <1>5

LEMMA DetachGoalKeeps ==
  ASSUME LedgerInv, NEW f \in Flushes, NEW g \in Goals, DetachGoal(f, g)
  PROVE  LedgerInv'
<1>0. flush[f] \in Flush /\ Own(flush[f], nextSeq) /\ MaxIntents \in Nat
  BY Parts, LedgerAssumption
<1>1. PICK x \in Flush : x = flush[f]
  BY <1>0
<1>2. PICK rows : rows = Detached(f, g)
  OBVIOUS
<1>3. PICK r : r = [x EXCEPT !.intents = x.intents + 1, !.pc = "detached", !.which = g, !.tx = rows]
  OBVIOUS
<1>4. /\ x.pc = "open" /\ x.intents < MaxIntents /\ g \in x.known
      /\ FreeContributions(f, g) /\ Locally(f, r) /\ UNCHANGED nextSeq
  BY <1>1, <1>2, <1>3 DEF DetachGoal, NextIntent
<1>5. Used(g)
  BY <1>0, <1>1, <1>4 DEF Own, UsedOK
<1>6. rows \in [Seqs -> TxRow \cup {Untouched}] /\ x.intents + 1 \in 0..MaxIntents
  BY <1>0, <1>1, <1>2, <1>4, DetachedRows, FlushFacts
<1>7. /\ r \in Flush /\ r.pc = "detached" /\ r.which = g /\ r.tx = rows
      /\ r.goal = x.goal /\ r.log = x.log /\ r.mine = x.mine /\ r.known = x.known
      /\ r.tears = x.tears /\ r.crossing = x.crossing
  BY <1>3, <1>6 DEF Flush
<1>8. \A s \in Seqs :
        \/ r.tx[s] = x.tx[s]
        \/ /\ TxOf(x, s).there /\ TxOf(x, s).goal = g
           /\ r.tx[s] \in TxRow /\ r.tx[s].there /\ r.tx[s].goal = NoGoal
           /\ r.tx[s].amount = TxOf(x, s).amount
  BY <1>1, <1>2, <1>7, DetachedRows
<1> QED
  BY <1>1, <1>4, <1>5, <1>7, <1>8, DetachStep

LEMMA DeleteGoalKeeps ==
  ASSUME LedgerInv, NEW f \in Flushes, DeleteGoal(f)
  PROVE  LedgerInv'
<1>0. flush[f] \in Flush /\ Own(flush[f], nextSeq)
  BY Parts
<1>1. PICK x \in Flush : x = flush[f]
  BY <1>0
<1>2. x.pc = "detached"
  BY <1>1 DEF DeleteGoal
<1>3. PICK g \in Goals : g = x.which
  BY <1>0, <1>1, <1>2 DEF Own, PlaceOK
<1>4. Used(g)
  BY <1>0, <1>1, <1>2, <1>3 DEF Own, UsedOK
<1>5. PICK rows : rows = Detached(f, g)
  OBVIOUS
<1>6. PICK gone : gone = [status |-> "gone", saved |-> 0]
  OBVIOUS
<1>7. PICK q : q = [x EXCEPT !.pc = "open", !.which = NoGoal]
  OBVIOUS
<1>8. PICK r : r = [q EXCEPT !.goal[g] = gone, !.tx = rows]
  OBVIOUS
<1>9. /\ FreeGoal(f, g) /\ FreeContributions(f, g) /\ UNCHANGED nextSeq
      /\ IF GoalOf(x, g).status = "there" THEN Locally(f, r) ELSE Locally(f, q)
  BY <1>1, <1>3, <1>5, <1>6, <1>7, <1>8 DEF DeleteGoal, Goal, GoalOf
<1>10. rows \in [Seqs -> TxRow \cup {Untouched}] /\ gone \in GoalRow /\ gone.status = "gone"
  BY <1>1, <1>5, <1>6, DetachedRows DEF GoalRow
<1>11. /\ q \in Flush /\ q.pc = "open" /\ q.tx = x.tx
       /\ q.goal = x.goal /\ q.log = x.log /\ q.mine = x.mine /\ q.known = x.known
       /\ q.tears = x.tears /\ q.crossing = x.crossing
  BY <1>7 DEF Flush
<1>12. /\ r \in Flush /\ r.pc = "open" /\ r.tx = rows /\ r.goal[g] = gone
       /\ r.log = x.log /\ r.mine = x.mine /\ r.known = x.known
       /\ r.tears = x.tears /\ r.crossing = x.crossing
       /\ \A h \in Goals \ {g} : r.goal[h] = x.goal[h]
  BY <1>8, <1>10, <1>11 DEF Flush
<1>13. CASE GoalOf(x, g).status = "there" /\ Locally(f, r)
  <2>1. \A s \in Seqs :
          \/ r.tx[s] = x.tx[s]
          \/ /\ TxOf(x, s).there /\ TxOf(x, s).goal = g
             /\ r.tx[s] \in TxRow /\ r.tx[s].there /\ r.tx[s].goal = NoGoal
             /\ r.tx[s].amount = TxOf(x, s).amount
    BY <1>1, <1>5, <1>12, DetachedRows
  <2> QED
    BY <1>1, <1>2, <1>3, <1>4, <1>9, <1>10, <1>12, <1>13, <2>1, DetachStep
<1>14. CASE GoalOf(x, g).status # "there" /\ Locally(f, q)
  BY <1>1, <1>2, <1>3, <1>4, <1>9, <1>11, <1>14, DetachStep
<1> QED
  BY <1>9, <1>13, <1>14

-----------------------------------------------------------------------------
(***************************************************************************)
(* The commit.                                                             *)
(***************************************************************************)

\* A flush that is over leaves nothing behind.
LEMMA IdleOwn ==
  ASSUME NEW e \in Flushes, flush'[e] = Idle,
         transactions' \in [Seqs -> TxRow], goals' \in [Goals -> GoalRow]
  PROVE  Own(flush[e], nextSeq)'
<1>1. /\ \A s \in Seqs : ~Touched(Idle.tx[s]) /\ \A a \in Amounts : Idle.log[s][a] = 0
      /\ \A g \in Goals : ~Touched(Idle.goal[g])
      /\ ~Corrects(Idle) /\ Idle.pc = "idle" /\ Idle.mine = {} /\ Idle.known = {}
      /\ Idle.crossing = {}
  BY IdleFacts, RowFacts DEF Corrects, NoEvents
<1>2. PlaceOK(flush[e], nextSeq)'
  BY <1>1 DEF PlaceOK, Corrects
<1>3. RowsOK(flush[e], nextSeq)' /\ MineOK(flush[e], nextSeq)'
  BY <1>1 DEF RowsOK, MineOK
<1>4. UsedOK(flush[e])'
  BY <1>1 DEF UsedOK, Corrects
<1>5. GoalsOK(flush[e])' /\ CreditedOK(flush[e])' /\ LogOK(flush[e])'
  <2>1. GoalsOK(flush[e])' /\ CreditedOK(flush[e])'
    BY <1>1 DEF GoalsOK, CreditedOK
  <2>2. ASSUME NEW s \in Seqs, NEW a \in Amounts
        PROVE  Idle.log[s][a] = Bears(transactions'[s], a) - Bears(transactions'[s], a)
    BY <1>1, BearsFacts
  <2>3. LogOK(flush[e])'
    BY <1>1, <2>2 DEF LogOK, TxOf, Bears
  <2> QED
    BY <2>1, <2>3
<1>6. BalanceOK(flush[e])'
  <2>1. ASSUME NEW h \in Goals PROVE Balanced(flush[e], h)'
    <3>1. PICK m : m = [s \in Seqs |-> Val(transactions'[s], h) - Val(transactions'[s], h)]
      OBVIOUS
    <3>2. m \in [Seqs -> Int] /\ \A s \in Seqs : m[s] = 0
      BY <3>1, ValNat
    <3>3. Total(m) = 0
      BY <3>2, TotalZero
    <3>4. Moved(flush[e], h)' = m
      BY <1>1, <3>1 DEF Moved, TxOf
    <3>5. Pending(flush[e], h)' = 0
      BY <1>1 DEF Pending
    <3>6. GoalOf(flush[e], h)' = goals'[h] /\ goals'[h].saved \in Int
      BY <1>1 DEF GoalOf, GoalRow
    <3> QED
      BY <3>3, <3>4, <3>5, <3>6 DEF Balanced
  <2> QED
    BY <2>1 DEF BalanceOK
<1> QED
  BY <1>2, <1>3, <1>4, <1>5, <1>6 DEF Own

\* What others know survives new versions of rows and goals they have not
\* locked, as long as used goals stay used, gone ones gone, and rows keep their
\* goal or lose it.
LEMMA OthersStay ==
  ASSUME TypeOK, NEW e \in Flushes, NEW y \in Flush, y = flush[e], flush'[e] = y,
         Own(y, nextSeq), nextSeq' = nextSeq, cron'.fixed \subseteq cron.fixed,
         transactions' \in [Seqs -> TxRow], goals' \in [Goals -> GoalRow],
         \A s \in Seqs : Touched(y.tx[s]) => transactions'[s] = transactions[s],
         \A g \in Goals :
           /\ Touched(y.goal[g]) => goals'[g] = goals[g]
           /\ goals[g].status # "unused" => goals'[g].status # "unused"
           /\ goals[g].status = "gone" => goals'[g].status = "gone",
         Corrects(y) /\ ~Touched(y.tx[y.row]) =>
           transactions'[y.row].goal \in {transactions[y.row].goal, NoGoal}
  PROVE  Own(flush[e], nextSeq)'
<1>0. /\ y.mine \subseteq Seqs /\ y.known \subseteq Goals
      /\ transactions \in [Seqs -> TxRow] /\ goals \in [Goals -> GoalRow]
  BY FlushFacts DEF TypeOK
<1>1. PlaceOK(flush[e], nextSeq)'
  BY DEF Own, PlaceOK, Corrects, TxOf
<1>2. RowsOK(flush[e], nextSeq)'
  BY DEF Own, RowsOK
<1>3. MineOK(flush[e], nextSeq)'
  BY <1>0 DEF Own, MineOK
<1>4. UsedOK(flush[e])'
  BY DEF Own, UsedOK, Used, Corrects
<1>5. GoalsOK(flush[e])'
  BY DEF Own, GoalsOK
<1>6. CreditedOK(flush[e])'
  <2>1. SUFFICES ASSUME NEW s \in Seqs, NEW h \in Goals,
                        Touched(y.tx[s]), y.tx[s].goal = h, transactions'[s].goal # h
                 PROVE  \/ Touched(y.goal[h])
                        \/ goals'[h].status # "there"
                        \/ y.pc = "credit" /\ y.which = h
    BY DEF CreditedOK
  <2>2. goals[h].status # "unused"
    BY <2>1 DEF Own, UsedOK, Used
  <2>3. \/ Touched(y.goal[h])
        \/ goals[h].status # "there"
        \/ y.pc = "credit" /\ y.which = h
    BY <2>1 DEF Own, CreditedOK
  <2> QED
    BY <1>0, <2>2, <2>3 DEF GoalRow
<1>7. LogOK(flush[e])'
  <2>1. SUFFICES ASSUME NEW s \in Seqs \ y.crossing, NEW a \in Amounts
                 PROVE  y.log[s][a] =
                          Bears(IF Touched(y.tx[s]) THEN y.tx[s] ELSE transactions'[s], a)
                            - Bears(transactions'[s], a)
    BY DEF LogOK, TxOf, Bears
  <2>2. y.log[s][a] = Bears(TxOf(y, s), a) - Bears(transactions[s], a)
    BY DEF Own, LogOK
  <2>3. CASE Touched(y.tx[s])
    BY <2>2, <2>3 DEF TxOf
  <2>4. CASE ~Touched(y.tx[s])
    BY <2>2, <2>4, BearsFacts DEF TxOf
  <2> QED
    BY <2>3, <2>4
<1>8. BalanceOK(flush[e])'
  <2>1. ASSUME NEW h \in Goals, Balanced(y, h) PROVE Balanced(flush[e], h)'
    <3>1. PICK m : m = [s \in Seqs |->
                Val(IF Touched(y.tx[s]) THEN y.tx[s] ELSE transactions'[s], h)
                  - Val(transactions'[s], h)]
      OBVIOUS
    <3>2. Moved(flush[e], h)' = m
      BY <3>1 DEF Moved, TxOf
    <3>3. ASSUME NEW s \in Seqs PROVE m[s] = Moved(y, h)[s]
      <4>1. CASE Touched(y.tx[s])
        BY <3>1, <4>1 DEF Moved, TxOf
      <4>2. CASE ~Touched(y.tx[s])
        <5>1. Val(transactions'[s], h) \in Nat /\ Val(transactions[s], h) \in Nat
          BY <1>0, ValNat
        <5>2. m[s] = Val(transactions'[s], h) - Val(transactions'[s], h)
          BY <3>1, <4>2
        <5>3. Moved(y, h)[s] = Val(transactions[s], h) - Val(transactions[s], h)
          BY <4>2 DEF Moved, TxOf
        <5> QED
          BY <5>1, <5>2, <5>3
      <4> QED
        BY <4>1, <4>2
    <3>4. m = Moved(y, h)
      BY <3>1, <3>3 DEF Moved
    <3>5. Pending(flush[e], h)' = Pending(y, h)
      BY DEF Pending
    <3>6. goals'[h].saved \in Int /\ goals[h].saved \in Int
      BY <1>0 DEF GoalRow
    <3>7. CASE Touched(y.goal[h])
      <4>1. GoalOf(flush[e], h)' = GoalOf(y, h) /\ goals'[h] = goals[h]
        BY <3>7 DEF GoalOf
      <4> QED
        BY <2>1, <3>2, <3>4, <3>5, <4>1 DEF Balanced
    <3>8. CASE ~Touched(y.goal[h])
      <4>1. GoalOf(flush[e], h)' = goals'[h] /\ GoalOf(y, h) = goals[h]
        BY <3>8 DEF GoalOf
      <4>2. goals'[h].status # "gone" => goals[h].status # "gone"
        OBVIOUS
      <4>3. /\ goals'[h].saved - goals'[h].saved = 0
            /\ goals[h].saved - goals[h].saved = 0
        BY <3>6
      <4> QED
        BY <2>1, <3>2, <3>4, <3>5, <4>1, <4>2, <4>3 DEF Balanced
    <3> QED
      BY <3>7, <3>8
  <2> QED
    BY <2>1 DEF Own, BalanceOK
<1> QED
  BY <1>1, <1>2, <1>3, <1>4, <1>5, <1>6, <1>7, <1>8 DEF Own

LEMMA CommitKeeps ==
  ASSUME LedgerInv, NEW f \in Flushes, Commit(f)
  PROVE  LedgerInv'
<1>0. /\ TypeOK /\ TablesOK /\ CronOK /\ TrailExplained
      /\ flush[f] \in Flush /\ Own(flush[f], nextSeq)
      /\ transactions \in [Seqs -> TxRow] /\ goals \in [Goals -> GoalRow]
      /\ trail \in [Seqs -> Account] /\ flush \in [Flushes -> Flush] /\ cron \in Cron
      /\ NoGoal \notin Goals
  BY Parts, LedgerAssumption DEF LedgerInv, TypeOK
<1>1. PICK x \in Flush : x = flush[f]
  BY <1>0
<1>4. PICK wrote : wrote = {g \in Goals : Touched(x.goal[g])}
                 \cup {transactions[s].goal : s \in {t \in Seqs : Touched(x.tx[t])}}
  OBVIOUS
<1>5. /\ x.pc = "open"
      /\ transactions' = [s \in Seqs |-> TxOf(x, s)]
      /\ goals' = [g \in Goals |-> GoalOf(x, g)]
      /\ trail' = [s \in Seqs |-> [a \in Amounts |-> trail[s][a] + x.log[s][a]]]
      /\ cron' = IF cron.pc = "idle" THEN cron
                 ELSE [cron EXCEPT !.raced = cron.raced \cup (wrote \cap Goals)]
      /\ torn' = torn \cup x.tears
      /\ crossed' = crossed \cup x.crossing
      /\ flush' = [flush EXCEPT ![f] = Idle]
      /\ UNCHANGED <<nextSeq, begun>>
  BY <1>1, <1>4 DEF Commit, Tx, Goal, TxOf, GoalOf
<1>6. /\ \A s \in Seqs : /\ TxOf(x, s) \in TxRow
                         /\ transactions'[s] = TxOf(x, s)
                         /\ Touched(x.tx[s]) => transactions'[s] = x.tx[s]
                         /\ ~Touched(x.tx[s]) => transactions'[s] = transactions[s]
      /\ \A g \in Goals : /\ GoalOf(x, g) \in GoalRow
                          /\ goals'[g] = GoalOf(x, g)
                          /\ Touched(x.goal[g]) => goals'[g] = x.goal[g]
                          /\ ~Touched(x.goal[g]) => goals'[g] = goals[g]
      /\ transactions' \in [Seqs -> TxRow] /\ goals' \in [Goals -> GoalRow]
  BY <1>0, <1>5, SeenFacts
<1>7. /\ cron'.pc = cron.pc /\ cron'.left = cron.left /\ cron'.fixed = cron.fixed
      /\ cron'.sums = cron.sums /\ cron' \in Cron
      /\ cron.pc = "running" => cron'.raced = cron.raced \cup (wrote \cap Goals)
  BY <1>0, <1>5 DEF Cron
<1>8. TypeOK'
  <2>1. \A s \in Seqs, a \in Amounts : trail[s][a] \in Int /\ x.log[s][a] \in Int
    BY <1>0, FlushFacts DEF Account
  <2>2. trail' \in [Seqs -> Account]
    BY <1>5, <2>1 DEF Account
  <2>3. torn' \subseteq Goals /\ crossed' \subseteq Seqs
    BY <1>0, <1>5, FlushFacts DEF TypeOK
  <2>4. flush' \in [Flushes -> Flush]
    BY <1>0, <1>5, IdleFacts
  <2> QED
    BY <1>0, <1>5, <1>6, <1>7, <2>2, <2>3, <2>4 DEF TypeOK
<1>9. \A g \in Goals :
        /\ goals[g].status # "unused" => goals'[g].status # "unused"
        /\ goals[g].status = "gone" => goals'[g].status = "gone"
        /\ goals'[g].status = "unused" => goals'[g].saved = 0
  BY <1>0, <1>1, <1>6 DEF Own, GoalsOK, TablesOK
<1>10. ASSUME NEW s \in Seqs
       PROVE  /\ transactions'[s].there => s < nextSeq
              /\ ~transactions'[s].there => transactions'[s] = NoTx
              /\ Used(transactions'[s].goal)
              /\ transactions[s].there => transactions'[s].goal \in {transactions[s].goal, NoGoal}
              /\ ~transactions[s].there /\ s \notin x.mine => transactions'[s] = transactions[s]
  BY <1>0, <1>1, <1>6 DEF Own, RowsOK, UsedOK, TablesOK
<1>11. ASSUME NEW g \in Goals
       PROVE  Sum(g)' = Sum(g) + Total(Moved(x, g))
  <2>1. PICK u : u = [s \in Seqs |-> Val(transactions[s], g)]
    OBVIOUS
  <2>2. PICK w : w = [s \in Seqs |-> Val(transactions'[s], g)]
    OBVIOUS
  <2>3. u \in [Seqs -> Int] /\ w \in [Seqs -> Int] /\ Moved(x, g) \in [Seqs -> Int]
    BY <1>0, <1>6, <2>1, <2>2, ValNat, MovedType
  <2>4. ASSUME NEW s \in Seqs PROVE w[s] = u[s] + Moved(x, g)[s]
    <3>1. Moved(x, g)[s] = w[s] - u[s]
      BY <1>6, <2>1, <2>2 DEF Moved
    <3> QED
      BY <2>3, <3>1
  <2>5. Total(w) = Total(u) + Total(Moved(x, g))
    BY <2>3, <2>4, TotalAdd
  <2> QED
    BY <2>1, <2>2, <2>5 DEF Sum
<1>12. \A g \in Goals : Sum(g) \in Int
  BY <1>0, SumOfFacts
<1>13. ASSUME NEW g \in Goals, g \notin torn', goals'[g].status # "gone"
       PROVE  goals'[g].saved = Sum(g)'
  <2>1. g \notin torn /\ g \notin x.tears /\ goals[g].status # "gone" /\ GoalOf(x, g).status # "gone"
    BY <1>5, <1>6, <1>9, <1>13
  <2>2. goals[g].saved = Sum(g)
    BY <1>0, <2>1 DEF TablesOK
  <2>3. Pending(x, g) = 0
    BY <1>5 DEF Pending
  <2>4. GoalOf(x, g).saved - goals[g].saved = Total(Moved(x, g)) - Pending(x, g)
    BY <1>0, <1>1, <1>5, <2>1 DEF Own, BalanceOK, Balanced
  <2>5. GoalOf(x, g).saved \in Int /\ Total(Moved(x, g)) \in Int
    BY <1>0, <1>6, MovedType, TotalInt DEF GoalRow
  <2> QED
    BY <1>6, <1>11, <1>12, <2>2, <2>3, <2>4, <2>5
<1>14. TablesOK'
  <2>1. \A s \in Seqs : Used(transactions[s].goal)'
    BY <1>9, <1>10 DEF Used
  <2> QED
    BY <1>5, <1>9, <1>10, <1>13, <2>1 DEF TablesOK
<1>15. ASSUME NEW g \in cron.fixed PROVE goals'[g] = goals[g]
  <2>1. g \in Goals
    BY <1>0 DEF Cron
  <2> QED
    BY <1>0, <1>1, <1>6, <2>1 DEF Own, GoalsOK
<1>16. ASSUME NEW g \in Goals, cron.pc = "running", g \notin cron'.raced, goals'[g].status = "there"
       PROVE  cron'.sums[g] = Sum(g)'
  <2>1. /\ g \notin cron.raced /\ ~Touched(x.goal[g])
        /\ \A s \in Seqs : Touched(x.tx[s]) => transactions[s].goal # g
    BY <1>4, <1>7, <1>16
  <2>2. goals[g].status = "there"
    BY <1>6, <1>16, <2>1
  <2>3. cron.sums[g] = Sum(g)
    BY <1>0, <1>16, <2>1, <2>2 DEF CronOK, There
  <2>4. ASSUME NEW s \in Seqs PROVE Val(transactions'[s], g) = Val(transactions[s], g)
    <3>1. CASE Touched(x.tx[s])
      <4>1. x.tx[s].goal # g
        BY <1>0, <1>1, <1>5, <2>1, <2>2, <3>1 DEF Own, CreditedOK
      <4> QED
        BY <1>6, <2>1, <3>1, <4>1 DEF Val
    <3>2. CASE ~Touched(x.tx[s])
      BY <1>6, <3>2
    <3> QED
      BY <3>1, <3>2
  <2>5. [s \in Seqs |-> Val(transactions'[s], g)] = [s \in Seqs |-> Val(transactions[s], g)]
    BY <2>4
  <2>6. Sum(g)' = Sum(g)
    BY <2>5 DEF Sum
  <2> QED
    BY <1>7, <2>3, <2>6
<1>17. CronOK'
  <2>1. cron'.pc = "idle" => cron'.left = {} /\ cron'.fixed = {}
    BY <1>0, <1>7 DEF CronOK
  <2>2. cron'.left \cup cron'.fixed \subseteq torn'
    BY <1>0, <1>5, <1>7 DEF CronOK
  <2>3. \A g \in cron'.fixed : goals'[g].status = "there"
    BY <1>0, <1>7, <1>15 DEF CronOK, There
  <2> QED
    BY <1>7, <1>16, <2>1, <2>2, <2>3 DEF CronOK, There
<1>18. TrailExplained'
  <2>1. SUFFICES ASSUME NEW s \in Seqs, s \notin crossed', NEW a \in Amounts
                 PROVE  trail'[s][a] = Bears(transactions'[s], a)
    BY DEF TrailExplained, Bears, Live
  <2>2. s \notin x.crossing /\ s \notin crossed
    BY <1>5, <2>1
  <2>3. PICK old \in Int : old = Bears(transactions[s], a)
    BY BearsFacts
  <2>4. PICK new \in Int : new = Bears(transactions'[s], a)
    BY BearsFacts
  <2>5. trail[s][a] = old
    BY <1>0, <2>2, <2>3 DEF TrailExplained, Bears, Live
  <2>6. x.log[s][a] = new - old
    BY <1>0, <1>1, <1>6, <2>2, <2>3, <2>4 DEF Own, LogOK
  <2>7. trail'[s][a] = trail[s][a] + x.log[s][a]
    BY <1>5
  <2> QED
    BY <2>4, <2>5, <2>6, <2>7
<1>19. ASSUME NEW e \in Flushes PROVE Own(flush[e], nextSeq)'
  <2>1. CASE e = f
    <3>1. flush'[e] = Idle
      BY <1>0, <1>5, <2>1
    <3> QED
      BY <1>6, <3>1, IdleOwn
  <2>2. CASE e # f
    <3>1. PICK y \in Flush : y = flush[e]
      BY <1>0
    <3>2. /\ flush'[e] = y /\ Own(y, nextSeq) /\ Apart(x, y) /\ Apart(y, x)
      BY <1>0, <1>1, <1>5, <2>2, <3>1, Parts
    <3>3. \A s \in Seqs : Touched(y.tx[s]) => transactions'[s] = transactions[s]
      BY <1>6, <3>2 DEF Apart
    <3>4. \A g \in Goals : Touched(y.goal[g]) => goals'[g] = goals[g]
      BY <1>6, <3>2 DEF Apart
    <3>5. Corrects(y) =>
            transactions'[y.row].goal \in {transactions[y.row].goal, NoGoal}
      BY <1>10, <3>2 DEF Apart, Own, PlaceOK
    <3> QED
      BY <1>0, <1>5, <1>6, <1>7, <1>9, <3>1, <3>2, <3>3, <3>4, <3>5, OthersStay
  <2> QED
    BY <2>1, <2>2
<1>20. ASSUME NEW d \in Flushes, NEW e \in Flushes, d # e PROVE Apart(flush[d], flush[e])'
  <2>1. /\ flush'[d] = IF d = f THEN Idle ELSE flush[d]
        /\ flush'[e] = IF e = f THEN Idle ELSE flush[e]
    BY <1>0, <1>5
  <2>2. Apart(flush[d], flush[e])
    BY <1>20 DEF LedgerInv
  <2>3. /\ \A s \in Seqs : ~Touched(Idle.tx[s])
        /\ \A g \in Goals : ~Touched(Idle.goal[g])
        /\ ~Corrects(Idle) /\ Idle.mine = {}
    BY IdleFacts, RowFacts DEF Corrects
  <2>4. Apart(flush'[d], flush'[e])
    BY <2>1, <2>2, <2>3 DEF Apart
  <2> QED
    BY <2>4 DEF Apart, Corrects
<1> QED
  BY <1>8, <1>14, <1>17, <1>18, <1>19, <1>20 DEF LedgerInv

-----------------------------------------------------------------------------
(***************************************************************************)
(* The repair.                                                             *)
(***************************************************************************)

\* A step of the cron that leaves the tables and the flushes alone.
LEMMA CronStep ==
  ASSUME LedgerInv, UNCHANGED <<transactions, goals, trail, nextSeq, flush, begun, torn, crossed>>,
         cron' \in Cron,
         cron'.pc = "idle" => cron'.left = {} /\ cron'.fixed = {},
         cron'.left \cup cron'.fixed \subseteq torn,
         \A g \in cron'.fixed : There(g),
         \A g \in cron'.fixed \ cron.fixed : \A f \in Flushes : ~Touched(flush[f].goal[g]),
         cron'.pc = "running" =>
           \A g \in Goals \ cron'.raced : There(g) => cron'.sums[g] = Sum(g)
  PROVE  LedgerInv'
<1>1. TypeOK'
  BY DEF LedgerInv, TypeOK
<1>2. TablesOK'
  BY DEF LedgerInv, TablesOK, Used, Sum
<1>3. CronOK'
  BY DEF CronOK, There, Sum
<1>4. TrailExplained'
  BY DEF LedgerInv, TrailExplained, Live
<1>5. ASSUME NEW e \in Flushes PROVE Own(flush[e], nextSeq)'
  <2>1. Own(flush[e], nextSeq)
    BY DEF LedgerInv
  <2>2. PlaceOK(flush[e], nextSeq)' /\ RowsOK(flush[e], nextSeq)' /\ MineOK(flush[e], nextSeq)'
    BY <2>1 DEF Own, PlaceOK, RowsOK, MineOK, Corrects, TxOf
  <2>3. UsedOK(flush[e])' /\ CreditedOK(flush[e])' /\ LogOK(flush[e])'
    BY <2>1 DEF Own, UsedOK, Used, CreditedOK, LogOK, Corrects, TxOf, Bears
  <2>4. GoalsOK(flush[e])'
    BY <2>1 DEF Own, GoalsOK
  <2>5. BalanceOK(flush[e])'
    BY <2>1 DEF Own, BalanceOK, Balanced, Moved, GoalOf, TxOf, Pending
  <2> QED
    BY <2>2, <2>3, <2>4, <2>5 DEF Own
<1>6. ASSUME NEW d \in Flushes, NEW e \in Flushes, d # e PROVE Apart(flush[d], flush[e])'
  BY <1>6 DEF LedgerInv, Apart, Corrects
<1> QED
  BY <1>1, <1>2, <1>3, <1>4, <1>5, <1>6 DEF LedgerInv

LEMMA RepairFactsOf ==
  ASSUME NEW n \in 0..MaxRepairs
  PROVE  /\ NoRepair(n) \in Cron /\ NoRepair(n).pc = "idle" /\ NoRepair(n).runs = n
         /\ NoRepair(n).left = {} /\ NoRepair(n).fixed = {} /\ NoRepair(n).raced = {}
BY DEF NoRepair, Cron

LEMMA RepairKeeps ==
  ASSUME LedgerInv, Repair
  PROVE  LedgerInv'
<1>0. TypeOK /\ TablesOK /\ CronOK /\ cron \in Cron /\ MaxRepairs \in Nat
  BY LedgerAssumption DEF LedgerInv, TypeOK
<1>1. PICK off : off = {g \in Goals : There(g) /\ goals[g].saved # SumOf(g)}
  OBVIOUS
<1>2. PICK sums : sums = [g \in Goals |-> SumOf(g)]
  OBVIOUS
<1>3. PICK n : n = cron.runs + 1
  OBVIOUS
<1>4. PICK c : c = [NoRepair(n) EXCEPT !.pc = "running", !.sums = sums, !.left = off]
  OBVIOUS
<1>5. /\ cron.pc = "idle" /\ cron.runs < MaxRepairs /\ cron' = c
      /\ UNCHANGED <<transactions, goals, trail, nextSeq, flush, begun, torn, crossed>>
  BY <1>1, <1>2, <1>3, <1>4 DEF Repair, history
<1>6. n \in 0..MaxRepairs
  BY <1>0, <1>3, <1>5 DEF Cron
<1>7. \A g \in Goals : SumOf(g) = Sum(g) /\ SumOf(g) \in Nat
  BY <1>0, SumOfFacts
<1>8. sums \in [Goals -> Nat] /\ off \subseteq Goals
  BY <1>1, <1>2, <1>7
<1>9. c \in Cron /\ c.pc = "running" /\ c.sums = sums /\ c.left = off /\ c.fixed = {} /\ c.raced = {}
  <2>1. PICK q \in Cron : q = NoRepair(n) /\ q.fixed = {} /\ q.raced = {}
    BY <1>6, RepairFactsOf
  <2>2. c = [q EXCEPT !.pc = "running", !.sums = sums, !.left = off]
    BY <1>4, <2>1
  <2> QED
    BY <1>8, <2>1, <2>2 DEF Cron
<1>10. off \subseteq torn
  BY <1>0, <1>1, <1>7 DEF TablesOK, There
<1>11. \A g \in Goals : c.sums[g] = Sum(g)
  BY <1>2, <1>7, <1>9
<1> QED
  BY <1>5, <1>9, <1>10, <1>11, CronStep

LEMMA RepairGoalKeeps ==
  ASSUME LedgerInv, NEW g \in Goals, RepairGoal(g)
  PROVE  LedgerInv'
<1>0. CronOK /\ cron \in Cron
  BY DEF LedgerInv, TypeOK
<1>1. PICK fixed : fixed = IF StillOff(g) THEN cron.fixed \cup {g} ELSE cron.fixed
  OBVIOUS
<1>2. /\ cron.pc = "running" /\ g \in cron.left
      /\ \A f \in Flushes : ~Touched(flush[f].goal[g])
      /\ cron' = [cron EXCEPT !.left = cron.left \ {g}, !.fixed = fixed]
      /\ UNCHANGED <<transactions, goals, trail, nextSeq, flush, begun, torn, crossed>>
  BY <1>1 DEF RepairGoal, history
<1>3. fixed \subseteq cron.fixed \cup {g} /\ cron.fixed \subseteq Goals /\ (g \in fixed => There(g) \/ g \in cron.fixed)
  BY <1>0, <1>1 DEF StillOff, Cron
<1>4. /\ cron' \in Cron /\ cron'.pc = cron.pc /\ cron'.left = cron.left \ {g} /\ cron'.fixed = fixed
      /\ cron'.raced = cron.raced /\ cron'.sums = cron.sums
  BY <1>0, <1>2, <1>3 DEF Cron
<1>5. cron'.left \cup cron'.fixed \subseteq torn
  BY <1>0, <1>2, <1>3, <1>4 DEF CronOK
<1>6. \A h \in cron'.fixed : There(h)
  BY <1>0, <1>3, <1>4 DEF CronOK
<1>7. \A h \in cron'.fixed \ cron.fixed : \A f \in Flushes : ~Touched(flush[f].goal[h])
  BY <1>2, <1>3, <1>4
<1>8. \A h \in Goals \ cron'.raced : There(h) => cron'.sums[h] = Sum(h)
  BY <1>0, <1>2, <1>4 DEF CronOK
<1> QED
  BY <1>2, <1>4, <1>5, <1>6, <1>7, <1>8, CronStep

LEMMA RepairFailsKeeps ==
  ASSUME LedgerInv, RepairFails
  PROVE  LedgerInv'
<1>0. cron \in Cron
  BY DEF LedgerInv, TypeOK
<1>1. PICK n \in 0..MaxRepairs : n = cron.runs
  BY <1>0 DEF Cron
<1>2. /\ cron' = NoRepair(n)
      /\ UNCHANGED <<transactions, goals, trail, nextSeq, flush, begun, torn, crossed>>
  BY <1>1 DEF RepairFails, history
<1> QED
  BY <1>2, RepairFactsOf, CronStep

LEMMA RepairDoneKeeps ==
  ASSUME LedgerInv, RepairDone
  PROVE  LedgerInv'
<1>0. /\ TypeOK /\ TablesOK /\ CronOK /\ cron \in Cron
      /\ goals \in [Goals -> GoalRow] /\ transactions \in [Seqs -> TxRow]
      /\ flush \in [Flushes -> Flush]
  BY DEF LedgerInv, TypeOK
<1>1. PICK n \in 0..MaxRepairs : n = cron.runs
  BY <1>0 DEF Cron
<1>2. /\ cron.pc = "running"
      /\ goals' = [g \in Goals |->
           IF g \in cron.fixed THEN [goals[g] EXCEPT !.saved = cron.sums[g]] ELSE goals[g]]
      /\ torn' = torn \ (cron.fixed \ cron.raced)
      /\ cron' = NoRepair(n)
      /\ UNCHANGED <<transactions, trail, nextSeq, flush, begun, crossed>>
  BY <1>1 DEF RepairDone
<1>3. /\ cron' \in Cron /\ cron'.pc = "idle" /\ cron'.left = {} /\ cron'.fixed = {}
  BY <1>2, RepairFactsOf
<1>4. ASSUME NEW g \in Goals
      PROVE  /\ goals'[g] \in GoalRow /\ goals'[g].status = goals[g].status
             /\ g \notin cron.fixed => goals'[g] = goals[g]
             /\ g \in cron.fixed => goals'[g].saved = cron.sums[g] /\ goals'[g].status = "there"
  <2>1. cron.sums[g] \in Nat /\ goals[g] \in GoalRow
    BY <1>0 DEF Cron
  <2>2. g \in cron.fixed => goals[g].status = "there"
    BY <1>0 DEF CronOK, There
  <2> QED
    BY <1>2, <2>1, <2>2 DEF GoalRow
<1>5. goals' \in [Goals -> GoalRow]
  BY <1>2, <1>4
<1>6. TypeOK'
  BY <1>0, <1>2, <1>3, <1>5 DEF TypeOK
<1>7. TablesOK'
  <2>1. \A g : Sum(g)' = Sum(g)
    BY <1>2 DEF Sum
  <2>2. ASSUME NEW g \in Goals, g \notin torn', goals'[g].status # "gone"
        PROVE  goals'[g].saved = Sum(g)
    <3>1. CASE g \in cron.fixed
      <4>1. g \in torn
        BY <1>0, <3>1 DEF CronOK
      <4>2. g \notin cron.raced
        BY <1>2, <2>2, <3>1, <4>1
      <4>3. There(g)
        BY <1>4, <3>1 DEF There
      <4>4. cron.sums[g] = Sum(g)
        BY <1>0, <1>2, <4>2, <4>3 DEF CronOK
      <4> QED
        BY <1>4, <3>1, <4>4
    <3>2. CASE g \notin cron.fixed
      <4>1. g \notin torn /\ goals'[g] = goals[g]
        BY <1>2, <1>4, <2>2, <3>2
      <4> QED
        BY <1>0, <2>2, <4>1 DEF TablesOK
    <3> QED
      BY <3>1, <3>2
  <2>3. \A s \in Seqs : Used(transactions[s].goal)'
    BY <1>0, <1>2, <1>4 DEF TablesOK, Used
  <2>4. \A g \in Goals : goals'[g].status = "unused" => goals'[g].saved = 0
    BY <1>0, <1>4 DEF TablesOK
  <2>5. \A g \in Goals \ torn' : goals'[g].status # "gone" => goals'[g].saved = Sum(g)'
    BY <2>1, <2>2
  <2> QED
    BY <1>0, <1>2, <2>3, <2>4, <2>5 DEF TablesOK
<1>8. CronOK'
  BY <1>3 DEF CronOK
<1>9. TrailExplained'
  BY <1>2 DEF LedgerInv, TrailExplained, Live
<1>10. ASSUME NEW e \in Flushes PROVE Own(flush[e], nextSeq)'
  <2>1. PICK y \in Flush : y = flush[e]
    BY <1>0
  <2>2. flush'[e] = y /\ Own(y, nextSeq)
    BY <1>2, <2>1 DEF LedgerInv
  <2>3. \A g \in Goals : Touched(y.goal[g]) => goals'[g] = goals[g]
    BY <1>4, <2>2 DEF Own, GoalsOK
  <2>4. transactions'[y.row].goal = transactions[y.row].goal
    BY <1>2
  <2> QED
    BY <1>0, <1>2, <1>3, <1>4, <1>5, <2>1, <2>2, <2>3, <2>4, OthersStay
<1>11. ASSUME NEW d \in Flushes, NEW e \in Flushes, d # e PROVE Apart(flush[d], flush[e])'
  BY <1>2, <1>11 DEF LedgerInv, Apart, Corrects
<1> QED
  BY <1>6, <1>7, <1>8, <1>9, <1>10, <1>11 DEF LedgerInv

-----------------------------------------------------------------------------
(***************************************************************************)
(* The theorems.                                                           *)
(***************************************************************************)
LEMMA InvInit == Init => LedgerInv
<1> SUFFICES ASSUME Init PROVE LedgerInv
  OBVIOUS
<1>0. {MaxTx, MaxFlushes, MaxIntents, MaxRepairs} \subseteq Nat
  BY LedgerAssumption
<1>1. /\ transactions \in [Seqs -> TxRow] /\ goals \in [Goals -> GoalRow]
      /\ trail \in [Seqs -> Account] /\ flush \in [Flushes -> Flush]
      /\ \A s \in Seqs : transactions[s] = NoTx /\ trail[s] = NoEvents
      /\ \A g \in Goals : goals[g] = NoGoalRow
      /\ \A f \in Flushes : flush[f] = Idle
  BY RowFacts, IdleFacts DEF Init
<1>2. cron = NoRepair(0) /\ cron \in Cron /\ cron.pc = "idle" /\ cron.left = {} /\ cron.fixed = {}
  BY <1>0, RepairFactsOf DEF Init
<1>3. TypeOK
  BY <1>0, <1>1, <1>2 DEF Init, TypeOK
<1>4. \A g \in Goals : Sum(g) = 0
  <2>1. SUFFICES ASSUME NEW g \in Goals PROVE Sum(g) = 0
    OBVIOUS
  <2>2. PICK v : v = [s \in Seqs |-> Val(transactions[s], g)]
    OBVIOUS
  <2>3. \A s \in Seqs : v[s] = 0
    BY <1>1, <2>2, RowFacts DEF Val
  <2>4. v \in [Seqs -> Int]
    BY <1>1, <2>2, ValNat
  <2>5. Total(v) = 0
    BY <2>3, <2>4, TotalZero
  <2> QED
    BY <2>2, <2>5 DEF Sum
<1>5. TablesOK
  <2>1. \A s \in Seqs : Used(transactions[s].goal)
    BY <1>1, RowFacts, LedgerAssumption DEF Used
  <2>2. \A g \in Goals : goals[g].saved = 0
    BY <1>1 DEF NoGoalRow
  <2> QED
    BY <1>1, <1>4, <2>1, <2>2, RowFacts DEF TablesOK
<1>6. CronOK
  BY <1>2 DEF CronOK
<1>7. TrailExplained
  BY <1>1, RowFacts DEF TrailExplained, Live, NoEvents
<1>8. /\ \A s \in Seqs : ~Touched(Idle.tx[s]) /\ \A a \in Amounts : Idle.log[s][a] = 0
      /\ \A g \in Goals : ~Touched(Idle.goal[g])
      /\ ~Corrects(Idle) /\ Idle.pc = "idle"
      /\ Idle.mine = {} /\ Idle.known = {} /\ Idle.crossing = {}
  BY IdleFacts, RowFacts DEF Corrects, NoEvents
<1>9. Own(Idle, nextSeq)
  <2>1. BalanceOK(Idle)
    <3>1. ASSUME NEW g \in Goals PROVE Balanced(Idle, g)
      <4>1. \A s \in Seqs : Moved(Idle, g)[s] = 0
        BY <1>1, <1>8, ValNat DEF Moved, TxOf
      <4>2. Total(Moved(Idle, g)) = 0
        BY <1>3, <4>1, IdleFacts, MovedType, TotalZero
      <4>3. GoalOf(Idle, g) = goals[g] /\ goals[g].saved = 0 /\ Pending(Idle, g) = 0
        BY <1>1, <1>8 DEF GoalOf, Pending, NoGoalRow
      <4> QED
        BY <4>2, <4>3 DEF Balanced
    <3> QED
      BY <3>1 DEF BalanceOK
  <2>2. PlaceOK(Idle, nextSeq) /\ RowsOK(Idle, nextSeq) /\ MineOK(Idle, nextSeq) /\ UsedOK(Idle)
    BY <1>8 DEF PlaceOK, RowsOK, MineOK, UsedOK
  <2>3. GoalsOK(Idle) /\ CreditedOK(Idle) /\ LogOK(Idle)
    <3>1. \A s \in Seqs : TxOf(Idle, s) = NoTx /\ transactions[s] = NoTx
      BY <1>1, <1>8 DEF TxOf
    <3>2. LogOK(Idle)
      BY <1>8, <3>1, BearsFacts DEF LogOK
    <3> QED
      BY <1>8, <3>2 DEF GoalsOK, CreditedOK
  <2> QED
    BY <2>1, <2>2, <2>3 DEF Own
<1>10. Apart(Idle, Idle)
  BY <1>8 DEF Apart
<1> QED
  BY <1>1, <1>3, <1>5, <1>6, <1>7, <1>9, <1>10 DEF LedgerInv

LEMMA InvStep == LedgerInv /\ [Next]_vars => LedgerInv'
<1> SUFFICES ASSUME LedgerInv, [Next]_vars PROVE LedgerInv'
  OBVIOUS
<1>1. ASSUME NEW f \in Flushes, FlushStep(f) PROVE LedgerInv'
  <2>1. CASE ReadTurn(f)
    BY <2>1, ReadTurnKeeps
  <2>2. CASE Begin(f)
    BY <2>2, BeginKeeps
  <2>3. CASE \E a \in Amounts : LogTransaction(f, a)
    BY <2>3, LogTransactionKeeps
  <2>4. CASE \E g \in Goals, a \in Amounts : Contribute(f, g, a)
    BY <2>4, ContributeKeeps
  <2>5. CASE Credit(f)
    BY <2>5, CreditKeeps
  <2>6. CASE DeleteLast(f)
    BY <2>6, ReadRowKeeps DEF DeleteLast, NoAmount
  <2>7. ASSUME NEW a \in Amounts \cup {NoAmount}, EditLast(f, a) PROVE LedgerInv'
    <3>1. a \in Nat
      BY LedgerAssumption DEF NoAmount
    <3> QED
      BY <2>7, <3>1, ReadRowKeeps DEF EditLast
  <2>8. CASE Refund(f)
    BY <2>8, RefundKeeps
  <2>9. CASE Remove(f)
    BY <2>9, RemoveKeeps
  <2>10. CASE Adjust(f)
    BY <2>10, AdjustKeeps
  <2>11. CASE Update(f) \/ NothingToEdit(f)
    BY <2>11, UpdateKeeps, NothingToEditKeeps
  <2>12. CASE \E g \in Goals : CreateGoal(f, g) \/ DetachGoal(f, g)
    BY <2>12, CreateGoalKeeps, DetachGoalKeeps
  <2>13. CASE DeleteGoal(f)
    BY <2>13, DeleteGoalKeeps
  <2>14. CASE Commit(f)
    BY <2>14, CommitKeeps
  <2>15. CASE Rollback(f)
    BY <2>15, RollbackKeeps
  <2> QED
    BY <1>1, <2>1, <2>2, <2>3, <2>4, <2>5, <2>6, <2>7, <2>8, <2>9, <2>10, <2>11, <2>12,
       <2>13, <2>14, <2>15 DEF FlushStep
<1>2. CASE Repair
  BY <1>2, RepairKeeps
<1>3. CASE \E g \in Goals : RepairGoal(g)
  BY <1>3, RepairGoalKeeps
<1>4. CASE RepairDone
  BY <1>4, RepairDoneKeeps
<1>5. CASE RepairFails
  BY <1>5, RepairFailsKeeps
<1>6. CASE UNCHANGED vars
  <2>1. UNCHANGED <<transactions, goals, trail, nextSeq, flush, begun, cron, torn, crossed>>
    BY <1>6 DEF vars, history
  <2>2. cron \in Cron /\ CronOK
    BY DEF LedgerInv, TypeOK
  <2> QED
    BY <2>1, <2>2, CronStep DEF CronOK
<1> QED
  BY <1>1, <1>2, <1>3, <1>4, <1>5, <1>6 DEF Next

LEMMA Invariant == Spec => []LedgerInv
BY InvInit, InvStep, PTL DEF Spec

\* Tables, and what flushes and the cron have under way, keep their types: a
\* balance that is written is never negative (the check of savings_goals).
THEOREM TypeCorrect == Spec => []TypeOK
<1>1. LedgerInv => TypeOK
  BY DEF LedgerInv
<1> QED
  BY <1>1, Invariant, PTL

\* A goal's balance is the sum of its contributions, whatever turns contribute,
\* correct, delete, fail and commit in whatever order, unless a correction wrote
\* another row than it had read, and until a repair of it that no flush overlapped
\* (apply_write_intent, delete_transaction, edit_transaction,
\* reconcile_goal_balances).
THEOREM BalancesAddUp == Spec => []DriftExplained
<1>1. LedgerInv => DriftExplained
  <2> SUFFICES ASSUME LedgerInv PROVE DriftExplained
    OBVIOUS
  <2>1. TypeOK /\ TablesOK
    BY DEF LedgerInv
  <2>2. \A g \in Goals : SumOf(g) = Sum(g)
    BY <2>1, SumOfFacts
  <2> QED
    BY <2>1, <2>2 DEF TablesOK, DriftExplained, There
<1> QED
  BY <1>1, Invariant, PTL

\* From the events of a transaction, in any order, it follows whether it is there
\* and with what amount, whatever turns log, correct, delete and commit, unless a
\* correction found another amount than it had read (record_ledger_event).
THEOREM TrailTells == Spec => []TrailExplained
<1>1. LedgerInv => TrailExplained
  BY DEF LedgerInv
<1> QED
  BY <1>1, Invariant, PTL
=============================================================================
