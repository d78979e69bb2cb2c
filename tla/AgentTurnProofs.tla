--------------------------- MODULE AgentTurnProofs ---------------------------
(***************************************************************************)
(* Proofs about AgentTurn: for any tool calls, rounds, attempts, amounts   *)
(* and thresholds.                                                         *)
(***************************************************************************)
EXTENDS AgentTurn, FiniteSetTheorems, TLAPS

-----------------------------------------------------------------------------
(***************************************************************************)
(* Least numbers.                                                          *)
(***************************************************************************)

\* A set of numbers that is not empty has a least one.
LEMMA Least ==
  ASSUME NEW T \in SUBSET Nat, T # {}
  PROVE  \E x \in T : \A y \in T : x <= y
<1> DEFINE R == StrictSubsetOrdering(Nat)
           U == {1..n : n \in T}
<1>1. IsWellFoundedOn(R, FiniteSubsetsOf(Nat))
  BY FS_StrictSubsetOrderingWellFounded
<1>2. \A n \in Nat : 1..n \in FiniteSubsetsOf(Nat)
  BY FS_Interval DEF FiniteSubsetsOf
<1>3. U \subseteq FiniteSubsetsOf(Nat) /\ U # {}
  BY <1>2
<1> HIDE DEF R
<1>4. PICK u \in U : \A v \in U : ~(<<v, u>> \in R)
  BY <1>1, <1>3, WFMin, Zenon
<1>5. PICK x \in T : u = 1..x
  OBVIOUS
<1>6. ASSUME NEW y \in T, y < x PROVE FALSE
  <2>1. 1..y \subseteq 1..x /\ x \in 1..x /\ x \notin 1..y
    BY <1>6
  <2>2. <<1..y, 1..x>> \in R
    BY <2>1 DEF R, StrictSubsetOrdering
  <2> QED
    BY <1>4, <1>5, <2>2
<1> QED
  BY <1>6

\* A first number for which something fails has a predecessor for which it
\* does not.
LEMMA LeastBad ==
  ASSUME NEW l \in Nat, NEW m \in Nat, NEW B \in SUBSET (l..m), B # {}, l \notin B
  PROVE  \E n \in B : n \in (l + 1)..m /\ n - 1 \in l..m /\ n - 1 \notin B
<1>1. B \in SUBSET Nat
  OBVIOUS
<1>2. PICK n \in B : \A y \in B : n <= y
  BY <1>1, Least
<1> QED
  BY <1>2

LEMMA FirstBad ==
  ASSUME NEW m \in Nat, NEW B \in SUBSET (0..m), B # {}, 0 \notin B
  PROVE  \E n \in B : n \in 1..m /\ n - 1 \in 0..m /\ n - 1 \notin B
<1>1. \E n \in B : n \in (0 + 1)..m /\ n - 1 \in 0..m /\ n - 1 \notin B
  BY LeastBad
<1> QED
  BY <1>1

\* A set of numbers up to m that is not empty has a greatest one.
LEMMA Greatest ==
  ASSUME NEW m \in Nat, NEW T \in SUBSET (0..m), T # {}
  PROVE  \E x \in T : \A y \in T : y <= x
<1> DEFINE U == {m - y : y \in T}
<1>1. U \in SUBSET Nat /\ U # {}
  <2>1. \A y \in T : m - y \in Nat
    OBVIOUS
  <2> QED
    BY <2>1
<1>2. PICK u \in U : \A v \in U : u <= v
  BY <1>1, Least
<1>3. PICK x \in T : u = m - x
  OBVIOUS
<1>4. ASSUME NEW y \in T PROVE y <= x
  <2>1. m - y \in U
    OBVIOUS
  <2> QED
    BY <1>2, <1>3, <2>1
<1> QED
  BY <1>4

-----------------------------------------------------------------------------
(***************************************************************************)
(* Sums.                                                                   *)
(***************************************************************************)

\* P[n] is the sum of the values of v up to n.
PrefixSums(v, P, m) ==
  /\ P \in [0..m -> Int]
  /\ P[0] = v[0]
  /\ \A n \in 1..m : P[n] = P[n - 1] + v[n]

Total(v, m) == (CHOOSE P : PrefixSums(v, P, m))[m]

LEMMA PrefixSumsExist ==
  ASSUME NEW N \in Nat, NEW v \in [0..N -> Int]
  PROVE  \E P : PrefixSums(v, P, N)
<1> DEFINE B == {m \in 0..N : ~ \E P : PrefixSums(v, P, m)}
<1>1. 0 \notin B
  <2>1. PrefixSums(v, [i \in 0..0 |-> v[0]], 0)
    BY DEF PrefixSums
  <2> QED
    BY <2>1
<1>2. ASSUME NEW n \in 1..N, n - 1 \in 0..N, n - 1 \notin B PROVE n \notin B
  <2>1. PICK P : PrefixSums(v, P, n - 1)
    BY <1>2
  <2> DEFINE Q == [i \in 0..n |-> IF i = n THEN P[n - 1] + v[n] ELSE P[i]]
  <2>2. v[n] \in Int /\ P[n - 1] \in Int
    BY <2>1 DEF PrefixSums
  <2>3. Q \in [0..n -> Int] /\ Q[0] = v[0]
    BY <2>1, <2>2 DEF PrefixSums
  <2>4. \A i \in 1..n : Q[i] = Q[i - 1] + v[i]
    BY <2>1 DEF PrefixSums
  <2>5. PrefixSums(v, Q, n)
    BY <2>3, <2>4 DEF PrefixSums
  <2> QED
    BY <2>5
<1>3. B = {}
  BY <1>1, <1>2, FirstBad
<1>4. N \in 0..N
  OBVIOUS
<1> QED
  BY <1>3, <1>4

\* Total is the last prefix sum, whichever way these are found.
LEMMA TotalIs ==
  ASSUME NEW N \in Nat, NEW v \in [0..N -> Int], NEW P, PrefixSums(v, P, N)
  PROVE  Total(v, N) = P[N] /\ P[N] \in Int
<1> DEFINE Q == CHOOSE R : PrefixSums(v, R, N)
           B == {m \in 0..N : P[m] # Q[m]}
<1>1. PrefixSums(v, Q, N)
  BY PrefixSumsExist
<1> HIDE DEF Q
<1>2. 0 \notin B
  BY <1>1 DEF PrefixSums
<1>3. ASSUME NEW n \in 1..N, n - 1 \in 0..N, n - 1 \notin B PROVE n \notin B
  BY <1>1, <1>3 DEF PrefixSums
<1>4. B = {}
  BY <1>2, <1>3, FirstBad
<1>5. P[N] = Q[N] /\ P[N] \in Int
  <2>1. N \in 0..N
    OBVIOUS
  <2> QED
    BY <1>4, <2>1 DEF PrefixSums
<1> QED
  BY <1>5 DEF Q, Total

LEMMA TotalInt ==
  ASSUME NEW N \in Nat, NEW v \in [0..N -> Int]
  PROVE  Total(v, N) \in Int
BY PrefixSumsExist, TotalIs

\* The sum of zeros.
LEMMA TotalZero ==
  ASSUME NEW N \in Nat, NEW v \in [0..N -> Int], \A n \in 0..N : v[n] = 0
  PROVE  Total(v, N) = 0
<1> DEFINE P == [m \in 0..N |-> 0]
<1>1. PrefixSums(v, P, N)
  BY DEF PrefixSums
<1> QED
  BY <1>1, TotalIs

\* The sum changes by as much as one value does.
LEMMA TotalBump ==
  ASSUME NEW N \in Nat, NEW v \in [0..N -> Int], NEW w \in [0..N -> Int],
         NEW t \in 0..N, \A n \in (0..N) \ {t} : w[n] = v[n]
  PROVE  Total(w, N) = Total(v, N) + (w[t] - v[t])
<1>1. PICK P : PrefixSums(v, P, N)
  BY PrefixSumsExist
<1> DEFINE d == w[t] - v[t]
           Q == [m \in 0..N |-> IF t <= m THEN P[m] + d ELSE P[m]]
<1>2. d \in Int /\ w[t] = v[t] + d /\ \A n \in 0..N : P[n] \in Int /\ v[n] \in Int
  BY <1>1 DEF PrefixSums
<1> HIDE DEF d
<1>3. Q \in [0..N -> Int] /\ Q[0] = w[0]
  <2>1. P[0] = v[0]
    BY <1>1 DEF PrefixSums
  <2> QED
    BY <1>2, <2>1
<1>4. ASSUME NEW n \in 1..N PROVE Q[n] = Q[n - 1] + w[n]
  <2>1. /\ P[n] = P[n - 1] + v[n] /\ n - 1 \in 0..N /\ n \in 0..N
        /\ {P[n], P[n - 1], v[n], d} \subseteq Int
    BY <1>1, <1>2 DEF PrefixSums
  <2>2. /\ Q[n] = IF t <= n THEN P[n] + d ELSE P[n]
        /\ Q[n - 1] = IF t <= n - 1 THEN P[n - 1] + d ELSE P[n - 1]
    BY <2>1
  <2> HIDE DEF Q
  <2>3. CASE t = n
    BY <1>2, <2>1, <2>2, <2>3
  <2>4. CASE t # n
    <3>1. w[n] = v[n] /\ (t <= n <=> t <= n - 1)
      BY <2>1, <2>4
    <3> QED
      BY <2>1, <2>2, <3>1
  <2> QED
    BY <2>3, <2>4
<1>5. PrefixSums(w, Q, N)
  BY <1>3, <1>4 DEF PrefixSums
<1>6. Q[N] = P[N] + d
  OBVIOUS
<1> HIDE DEF Q
<1>7. Total(w, N) = Q[N] /\ Total(v, N) = P[N]
  BY <1>1, <1>5, TotalIs
<1> QED
  BY <1>6, <1>7 DEF d

\* SumFunction, a fold over a set, adds up the values of its members.
LEMMA SumIsTotal ==
  ASSUME NEW N \in Nat, NEW C \in SUBSET (0..N), NEW v \in [C -> Int]
  PROVE  SumFunction(v) = Total([n \in 0..N |-> IF n \in C THEN v[n] ELSE 0], N)
<1> DEFINE pick(S) == CHOOSE x \in S : TRUE
           row(S) == [n \in 0..N |-> IF n \in S THEN v[n] ELSE 0]
           sum(h, S) == IF S = {} THEN 0 ELSE v[pick(S)] + h[S \ {pick(S)}]
           H == [S \in SUBSET C |-> Total(row(S), N)]
           iter == CHOOSE h : h = [S \in SUBSET C |-> sum(h, S)]
<1>1. \A S \in SUBSET C : row(S) \in [0..N -> Int]
  OBVIOUS
<1>2. \A S \in SUBSET C : S # {} => pick(S) \in S
  OBVIOUS
<1>3. ASSUME NEW S \in SUBSET C PROVE Total(row(S), N) = sum(H, S)
  <2>1. CASE S = {}
    <3>1. \A n \in 0..N : row(S)[n] = 0
      BY <2>1
    <3>2. Total(row(S), N) = 0
      <4>1. row(S) \in [0..N -> Int]
        BY <1>1
      <4> HIDE DEF row
      <4> QED
        BY <3>1, <4>1, TotalZero
    <3> QED
      BY <2>1, <3>2
  <2>2. CASE S # {}
    <3>1. PICK t \in S : t = pick(S)
      BY <1>2, <2>2
    <3> DEFINE R == S \ {t}
    <3>2. R \in SUBSET C /\ t \in 0..N /\ t \in C
      OBVIOUS
    <3>3. /\ \A n \in (0..N) \ {t} : row(S)[n] = row(R)[n]
          /\ row(S)[t] = v[t] /\ row(R)[t] = 0
      BY <3>2
    <3>4. Total(row(S), N) = Total(row(R), N) + (v[t] - 0)
      <4>1. row(S) \in [0..N -> Int] /\ row(R) \in [0..N -> Int]
        BY <1>1, <3>2
      <4>2. PICK u, z : u = row(S) /\ z = row(R)
        OBVIOUS
      <4> HIDE DEF row, R
      <4>3. u \in [0..N -> Int] /\ z \in [0..N -> Int] /\ t \in 0..N
        BY <3>2, <4>1, <4>2
      <4>4. \A n \in (0..N) \ {t} : u[n] = z[n]
        BY <3>3, <4>2
      <4>5. Total(u, N) = Total(z, N) + (u[t] - z[t])
        BY <4>3, <4>4, TotalBump
      <4> QED
        BY <3>3, <4>2, <4>5
    <3>5. H[R] = Total(row(R), N)
      BY <3>2
    <3>6. v[t] \in Int /\ Total(row(R), N) \in Int
      <4>1. row(R) \in [0..N -> Int]
        BY <1>1, <3>2
      <4> HIDE DEF row
      <4> QED
        BY <3>2, <4>1, TotalInt
    <3>7. sum(H, S) = v[t] + H[R]
      BY <2>2, <3>1
    <3> HIDE DEF H, row, R
    <3> QED
      BY <3>4, <3>5, <3>6, <3>7
  <2> QED
    BY <2>1, <2>2
<1>4. H = [S \in SUBSET C |-> sum(H, S)]
  <2> HIDE DEF sum, row
  <2> QED
    BY <1>3
<1>5. iter = [S \in SUBSET C |-> sum(iter, S)]
  <2> HIDE DEF H, sum
  <2> QED
    BY <1>4
<1>6. SumFunction(v) = iter[C]
  <2>1. DOMAIN v = C
    OBVIOUS
  <2> QED
    BY <2>1 DEF SumFunction, SumFunctionOnSet, FoldFunctionOnSet, MapThenFoldSet
<1> HIDE DEF iter
<1>7. \A S \in SUBSET C : iter[S] = H[S]
  <2> DEFINE B == {S \in SUBSET C : iter[S] # H[S]}
             W == StrictSubsetOrdering(C)
  <2>1. IsFiniteSet(C)
    <3>1. IsFiniteSet(0..N)
      BY FS_Interval
    <3> QED
      BY <3>1, FS_Subset
  <2>2. IsWellFoundedOn(W, FiniteSubsetsOf(C))
    BY FS_StrictSubsetOrderingWellFounded
  <2>3. SUFFICES ASSUME B # {} PROVE FALSE
    OBVIOUS
  <2>4. B \subseteq FiniteSubsetsOf(C)
    BY <2>1, FS_Subset DEF FiniteSubsetsOf
  <2>5. PICK S \in B : \A R \in B : ~(<<R, S>> \in W)
    <3> HIDE DEF W, B
    <3> QED
      BY <2>2, <2>3, <2>4, WFMin, Zenon
  <2>6. iter[S] = sum(iter, S) /\ H[S] = sum(H, S)
    <3> HIDE DEF sum, H
    <3> QED
      BY <1>4, <1>5
  <2>7. CASE S = {}
    BY <2>5, <2>6, <2>7
  <2>8. CASE S # {}
    <3>1. PICK t \in S : t = pick(S)
      BY <1>2, <2>8
    <3> HIDE DEF pick, H
    <3>2. S \ {t} \in SUBSET C /\ <<S \ {t}, S>> \in W
      BY DEF StrictSubsetOrdering
    <3>3. iter[S \ {t}] = H[S \ {t}]
      BY <2>5, <3>2
    <3>4. iter[S] = v[t] + iter[S \ {t}] /\ H[S] = v[t] + H[S \ {t}]
      BY <2>6, <2>8, <3>1
    <3> QED
      BY <2>5, <3>3, <3>4
  <2> QED
    BY <2>7, <2>8
<1> HIDE DEF row, sum
<1>8. SumFunction(v) = Total(row(C), N)
  BY <1>6, <1>7
<1> QED
  BY <1>8 DEF row

-----------------------------------------------------------------------------
(***************************************************************************)
(* Which row the flush would correct, said as the tool says it.            *)
(***************************************************************************)

\* Writes before the n-th of w that set or clear last_inserted_tx_id.
StopsIn(w, n) ==
  {k \in 1..(n - 1) : w[k].op \in Rows \/ (w[k].op = "DeleteLast" /\ w[k].sameTurn)}

RowIn(w, n) ==
  IF StopsIn(w, n) = {} THEN 0
  ELSE LET k == CHOOSE k \in StopsIn(w, n) : \A j \in StopsIn(w, n) : j <= k IN
       IF w[k].op \in Rows THEN k ELSE 0

\* One write further.
LEMMA RowInStep ==
  ASSUME NEW w \in Seq(Intent), NEW n \in 2..(Len(w) + 1)
  PROVE  RowIn(w, n) = CASE w[n - 1].op \in Rows -> n - 1
                         [] w[n - 1].op = "DeleteLast" /\ w[n - 1].sameTurn -> 0
                         [] OTHER -> RowIn(w, n - 1)
<1> DEFINE S == StopsIn(w, n)
           R == StopsIn(w, n - 1)
           k == n - 1
           stops == w[k].op \in Rows \/ (w[k].op = "DeleteLast" /\ w[k].sameTurn)
<1>1. k \in 1..Len(w) /\ n - 2 \in Nat /\ w[k] \in Intent
  OBVIOUS
<1>2. "DeleteLast" \notin Rows
  BY DEF Rows
<1>3. CASE stops
  <2>1. k \in S /\ \A j \in S : j <= k
    BY <1>1, <1>3 DEF StopsIn
  <2>2. (CHOOSE i \in S : \A j \in S : j <= i) = k
    <3>1. \A i \in S : i \in Int
      BY DEF StopsIn
    <3> HIDE DEF S
    <3>2. \A i \in S : (\A j \in S : j <= i) => i = k
      BY <1>1, <2>1, <3>1
    <3> QED
      BY <2>1, <3>2
  <2>3. RowIn(w, n) = IF w[k].op \in Rows THEN k ELSE 0
    BY <2>1, <2>2 DEF RowIn
  <2> QED
    BY <1>2, <1>3, <2>3
<1>4. CASE ~stops
  <2>1. S = R
    BY <1>1, <1>4 DEF StopsIn
  <2>2. RowIn(w, n) = RowIn(w, n - 1)
    BY <2>1 DEF RowIn
  <2> QED
    BY <1>4, <2>2
<1> QED
  BY <1>3, <1>4

\* It is a row, or none.
LEMMA RowInIs ==
  ASSUME NEW w \in Seq(Intent), NEW n \in 1..(Len(w) + 1)
  PROVE  /\ RowIn(w, n) \in 0..(n - 1)
         /\ RowIn(w, n) # 0 => w[RowIn(w, n)].op \in Rows
<1>1. CASE StopsIn(w, n) = {}
  BY <1>1 DEF RowIn
<1>2. CASE StopsIn(w, n) # {}
  <2> DEFINE S == StopsIn(w, n)
             k == CHOOSE i \in S : \A j \in S : j <= i
  <2>1. S \in SUBSET (0..n) /\ S \subseteq 1..(n - 1) /\ n \in Nat /\ S # {}
    BY <1>2 DEF StopsIn
  <2>2. \E i \in S : \A j \in S : j <= i
    <3> HIDE DEF S
    <3> QED
      BY <2>1, Greatest
  <2>3. k \in S
    BY <2>2
  <2>4. RowIn(w, n) = IF w[k].op \in Rows THEN k ELSE 0
    BY <1>2 DEF RowIn
  <2> HIDE DEF k, S
  <2> QED
    BY <2>1, <2>3, <2>4
<1> QED
  BY <1>1, <1>2

\* It does not depend on what is buffered later.
LEMMA RowInPrefix ==
  ASSUME NEW w, NEW x, NEW n \in Nat, \A k \in 1..(n - 1) : x[k] = w[k]
  PROVE  RowIn(x, n) = RowIn(w, n)
<1>1. StopsIn(x, n) = StopsIn(w, n)
  BY DEF StopsIn
<1> DEFINE k == CHOOSE i \in StopsIn(w, n) : \A j \in StopsIn(w, n) : j <= i
<1>2. CASE StopsIn(w, n) = {}
  BY <1>1, <1>2 DEF RowIn
<1>3. CASE StopsIn(w, n) # {} /\ k \in StopsIn(w, n)
  <2>1. x[k] = w[k]
    BY <1>3 DEF StopsIn
  <2>2. /\ RowIn(w, n) = IF w[k].op \in Rows THEN k ELSE 0
        /\ RowIn(x, n) = IF x[k].op \in Rows THEN k ELSE 0
    BY <1>1, <1>3 DEF RowIn
  <2> QED
    BY <2>1, <2>2
<1>4. CASE StopsIn(w, n) # {} /\ k \notin StopsIn(w, n)
  <2>1. StopsIn(w, n) \in SUBSET (0..n)
    BY DEF StopsIn
  <2>2. \E i \in StopsIn(w, n) : \A j \in StopsIn(w, n) : j <= i
    BY <1>4, <2>1, Greatest
  <2> QED
    BY <1>4, <2>2
<1> QED
  BY <1>2, <1>3, <1>4

\* The flush, write after write, comes to the same row.
LEMMA LastIdIs ==
  ASSUME writes \in Seq(Intent)
  PROVE  \A n \in 1..(Len(writes) + 1) : LastIdBefore[n] = RowIn(writes, n)
<1> DEFINE N == Len(writes) + 1
           next(h, n) == IF n = 1 THEN 0 ELSE AfterWrite(h[n - 1], n - 1)
           H == [n \in 1..N |-> RowIn(writes, n)]
<1>1. N \in Nat \ {0}
  OBVIOUS
<1>2. \A n \in 1..N : H[n] = next(H, n)
  <2>1. TAKE n \in 1..N
  <2>2. CASE n = 1
    BY <1>1, <2>2 DEF RowIn, StopsIn
  <2>3. CASE n # 1
    <3>1. n \in 2..N /\ n - 1 \in 1..N
      BY <2>3
    <3>2. H[n] = RowIn(writes, n) /\ H[n - 1] = RowIn(writes, n - 1)
      BY <3>1
    <3> QED
      BY <2>3, <3>1, <3>2, RowInStep DEF AfterWrite
  <2> QED
    BY <2>2, <2>3
<1>3. H = [n \in 1..N |-> next(H, n)]
  <2> HIDE DEF next
  <2> QED
    BY <1>2
<1>4. LastIdBefore = CHOOSE h : h = [n \in 1..N |-> next(h, n)]
  BY DEF LastIdBefore
<1>5. LastIdBefore = [n \in 1..N |-> next(LastIdBefore, n)]
  <2> HIDE DEF H, next
  <2> QED
    BY <1>3, <1>4
<1> DEFINE B == {n \in 1..N : LastIdBefore[n] # H[n]}
<1>6. 1 \notin B
  BY <1>2, <1>5
<1>7. ASSUME NEW n \in 2..N, n - 1 \in 1..N, n - 1 \notin B PROVE n \notin B
  <2>1. LastIdBefore[n] = AfterWrite(LastIdBefore[n - 1], n - 1)
    BY <1>5, <1>7
  <2>2. H[n] = AfterWrite(H[n - 1], n - 1)
    BY <1>2, <1>7
  <2>3. LastIdBefore[n - 1] = H[n - 1]
    BY <1>7
  <2> HIDE DEF H
  <2> QED
    BY <2>1, <2>2, <2>3
<1>8. B = {}
  <2>1. B \in SUBSET (1..N)
    OBVIOUS
  <2> HIDE DEF B, N
  <2>2. ASSUME B # {} PROVE FALSE
    <3>1. PICK n \in B : n \in (1 + 1)..N /\ n - 1 \in 1..N /\ n - 1 \notin B
      BY <1>1, <1>6, <2>1, <2>2, LeastBad
    <3> QED
      BY <1>7, <3>1
  <2> QED
    BY <2>2
<1> QED
  BY <1>8

\* last_buffered_transaction looks at the whole buffer.
LEMMA LastBufferedIs ==
  ASSUME writes \in Seq(Intent)
  PROVE  LastBuffered = RowIn(writes, Len(writes) + 1)
<1>1. DOMAIN writes = 1..Len(writes) /\ (Len(writes) + 1) - 1 = Len(writes)
  OBVIOUS
<1> QED
  BY <1>1 DEF LastBuffered, RowIn, StopsIn

-----------------------------------------------------------------------------
(***************************************************************************)
(* The inductive invariant.                                                *)
(***************************************************************************)

\* Until the reply is there, the history says of every write what it was
\* about, and every write is a tool call.
MeantIsOfWrites ==
  pc \notin {"done", "failed"} => Len(meant) = Len(writes) /\ Len(writes) <= calls

\* A correction was accepted for the row that the writes before it leave as
\* the last one.  Unlike TargetAgrees this says nothing of what comes after.
MeantIsLast ==
  \A n \in DOMAIN meant :
    writes[n].op \in {"EditLast", "DeleteLast"} /\ writes[n].sameTurn
      => meant[n] = RowIn(writes, n) /\ meant[n] # 0

\* The tool lets no text through that only reads like a purchase.
MemoriesScreened ==
  \A n \in DOMAIN writes : writes[n].op = "SaveMemory" => writes[n].text # "oneOff"

TurnInv == TypeOK /\ MeantIsOfWrites /\ MeantIsLast /\ MemoriesScreened

LEMMA InitTurn == Init => TurnInv
<1> SUFFICES ASSUME Init PROVE TurnInv
  OBVIOUS
<1>1. TypeOK
  BY AgentAssumption DEF Init, TypeOK
<1>2. DOMAIN meant = {} /\ DOMAIN writes = {}
  BY DEF Init
<1> QED
  BY <1>1, <1>2 DEF Init, TurnInv, MeantIsOfWrites, MeantIsLast, MemoriesScreened

\* What every write tool does.
LEMMA BufferKeeps ==
  ASSUME TurnInv, NEW w \in Intent, NEW row \in 0..Len(writes), Buffer(w, row),
         w.op \in {"EditLast", "DeleteLast"} /\ w.sameTurn
           => row = LastBuffered /\ row # 0,
         w.op = "SaveMemory" => w.text # "oneOff"
  PROVE  TurnInv'
<1> DEFINE L == Len(writes)
<1>1. /\ writes \in Seq(Intent) /\ meant \in Seq(0..MaxCalls)
      /\ L \in Nat /\ Len(meant) = L /\ L <= calls
      /\ calls \in 0..MaxCalls /\ calls < MaxCalls /\ MaxCalls \in Nat
      /\ pc' = "tools" /\ calls' = calls + 1
      /\ UNCHANGED <<round, attempt, last>>
  BY AgentAssumption DEF TurnInv, TypeOK, MeantIsOfWrites, Buffer, Calling
<1>2. /\ writes' = Append(writes, w) /\ meant' = Append(meant, row)
      /\ row \in 0..MaxCalls
  BY <1>1 DEF Buffer
<1>3. /\ writes' \in Seq(Intent) /\ meant' \in Seq(0..MaxCalls)
      /\ Len(writes') = L + 1 /\ Len(meant') = L + 1
      /\ DOMAIN writes' = 1..(L + 1) /\ DOMAIN meant' = 1..(L + 1)
      /\ DOMAIN writes = 1..L /\ DOMAIN meant = 1..L
  BY <1>1, <1>2
<1>4. /\ \A n \in 1..L : writes'[n] = writes[n] /\ meant'[n] = meant[n]
      /\ writes'[L + 1] = w /\ meant'[L + 1] = row
  BY <1>1, <1>2
<1>5. TypeOK'
  BY <1>1, <1>3 DEF TurnInv, TypeOK
<1>6. MeantIsOfWrites'
  BY <1>1, <1>3 DEF MeantIsOfWrites
<1>7. \A n \in 1..(L + 1) : RowIn(writes', n) = RowIn(writes, n)
  <2>1. TAKE n \in 1..(L + 1)
  <2>2. \A k \in 1..(n - 1) : writes'[k] = writes[k]
    BY <1>1, <1>4
  <2> QED
    BY <1>1, <2>2, RowInPrefix
<1>8. MeantIsLast'
  <2>1. SUFFICES ASSUME NEW n \in 1..(L + 1),
                        writes'[n].op \in {"EditLast", "DeleteLast"}, writes'[n].sameTurn
                 PROVE  meant'[n] = RowIn(writes', n) /\ meant'[n] # 0
    BY <1>3 DEF MeantIsLast
  <2>2. CASE n = L + 1
    <3>1. row = LastBuffered /\ row # 0
      BY <1>4, <2>1, <2>2
    <3>2. LastBuffered = RowIn(writes, n)
      BY <1>1, <2>2, LastBufferedIs
    <3> QED
      BY <1>4, <1>7, <2>2, <3>1, <3>2
  <2>3. CASE n \in 1..L
    <3>1. writes'[n] = writes[n] /\ meant'[n] = meant[n]
      BY <1>4, <2>3
    <3>2. meant[n] = RowIn(writes, n) /\ meant[n] # 0
      BY <1>3, <2>1, <2>3, <3>1 DEF TurnInv, MeantIsLast
    <3> QED
      BY <1>7, <3>1, <3>2
  <2> QED
    BY <1>1, <2>2, <2>3
<1>9. MemoriesScreened'
  <2>1. SUFFICES ASSUME NEW n \in 1..(L + 1), writes'[n].op = "SaveMemory"
                 PROVE  writes'[n].text # "oneOff"
    BY <1>3 DEF MemoriesScreened
  <2>2. CASE n = L + 1
    BY <1>4, <2>1, <2>2
  <2>3. CASE n \in 1..L
    BY <1>3, <1>4, <2>1, <2>3 DEF TurnInv, MemoriesScreened
  <2> QED
    BY <1>1, <2>2, <2>3
<1> QED
  BY <1>5, <1>6, <1>8, <1>9 DEF TurnInv

\* A write without more to it: neither a correction nor a memory.
LEMMA PlainWrite ==
  ASSUME TurnInv, NEW op \in Variants \ {"EditLast", "DeleteLast", "SaveMemory"},
         NEW amount \in Amounts \cup {0}, Buffer(Write(op, amount), 0)
  PROVE  TurnInv'
<1>1. Write(op, amount) \in Intent /\ Write(op, amount).op = op
  BY DEF Write, Intent
<1>2. 0 \in 0..Len(writes)
  BY DEF TurnInv, TypeOK
<1> QED
  BY <1>1, <1>2, BufferKeeps

\* What a step leaves alone that touches neither the buffer nor its history.
LEMMA BufferSame ==
  ASSUME TurnInv, UNCHANGED <<writes, meant>>, calls <= calls', calls' \in 0..MaxCalls,
         pc \notin {"done", "failed"}
  PROVE  MeantIsOfWrites' /\ MeantIsLast' /\ MemoriesScreened'
<1>1. MeantIsOfWrites'
  BY DEF TurnInv, TypeOK, MeantIsOfWrites
<1>2. MeantIsLast' /\ MemoriesScreened'
  BY DEF TurnInv, MeantIsLast, MemoriesScreened
<1> QED
  BY <1>1, <1>2

LEMMA ModelKeeps ==
  ASSUME TurnInv, Model
  PROVE  TurnInv'
<1> USE AgentAssumption
<1>1. ASSUME NEW r \in BOOLEAN, AttemptFails(r) PROVE TurnInv'
  <2>1. NextAttempt(r) \in 0..MaxAttempts
    BY DEF NextAttempt, TurnInv, TypeOK
  <2>2. pc = "ask" /\ pc' \in {"ask", "failed"} /\ attempt' \in 1..MaxAttempts
        /\ UNCHANGED <<round, calls, writes, last, meant>>
    BY <1>1, <2>1 DEF AttemptFails, TurnInv, TypeOK
  <2>3. TypeOK'
    BY <2>2 DEF TurnInv, TypeOK
  <2>4. calls \in 0..MaxCalls /\ calls <= calls'
    BY <2>2 DEF TurnInv, TypeOK
  <2> QED
    BY <2>2, <2>3, <2>4, BufferSame DEF TurnInv
<1>2. ASSUME AnswersWithTools PROVE TurnInv'
  <2>1. TypeOK'
    BY <1>2 DEF AnswersWithTools, TurnInv, TypeOK
  <2>2. calls \in 0..MaxCalls /\ calls <= calls'
    BY <1>2 DEF AnswersWithTools, TurnInv, TypeOK
  <2> QED
    BY <1>2, <2>1, <2>2, BufferSame DEF AnswersWithTools, TurnInv
<1>3. ASSUME Replies PROVE TurnInv'
  <2> DEFINE t == Write("SaveTurn", 0)
             L == Len(writes)
  <2>1. t \in Intent /\ t.op = "SaveTurn"
    BY DEF Write, Intent, Variants, Bookkeeping
  <2>2. /\ writes \in Seq(Intent) /\ meant \in Seq(0..MaxCalls) /\ Len(meant) <= L
        /\ L \in Nat
    BY DEF TurnInv, TypeOK
  <2>3. pc' = "done" /\ writes' = writes \o <<t, t>>
        /\ UNCHANGED <<round, attempt, calls, last, meant>>
    BY <1>3 DEF Replies
  <2> HIDE DEF t
  <2>4. /\ writes' \in Seq(Intent) /\ Len(writes') = L + 2
        /\ \A n \in 1..L : writes'[n] = writes[n]
        /\ writes'[L + 1] = t /\ writes'[L + 2] = t
    BY <2>1, <2>2, <2>3
  <2>5. TypeOK'
    BY <2>2, <2>3, <2>4 DEF TurnInv, TypeOK
  <2>6. MeantIsOfWrites'
    BY <2>3 DEF MeantIsOfWrites
  <2>7. MeantIsLast'
    <3>1. SUFFICES ASSUME NEW n \in DOMAIN meant,
                          writes'[n].op \in {"EditLast", "DeleteLast"}, writes'[n].sameTurn
                   PROVE  meant[n] = RowIn(writes', n) /\ meant[n] # 0
      BY <2>3 DEF MeantIsLast
    <3>2. n \in 1..L /\ \A k \in 1..(n - 1) : writes'[k] = writes[k]
      BY <2>2, <2>4
    <3>3. RowIn(writes', n) = RowIn(writes, n)
      BY <3>2, RowInPrefix
    <3> QED
      BY <2>4, <3>1, <3>2, <3>3 DEF TurnInv, MeantIsLast
  <2>8. MemoriesScreened'
    <3>1. SUFFICES ASSUME NEW n \in 1..(L + 2), writes'[n].op = "SaveMemory"
                   PROVE  writes'[n].text # "oneOff"
      BY <2>4 DEF MemoriesScreened
    <3>2. n \in 1..L
      BY <2>1, <2>2, <2>4, <3>1
    <3> QED
      BY <2>2, <2>4, <3>1, <3>2 DEF TurnInv, MemoriesScreened
  <2> QED
    BY <2>5, <2>6, <2>7, <2>8 DEF TurnInv
<1>4. ASSUME NoReply PROVE TurnInv'
  <2>1. TypeOK'
    BY <1>4 DEF NoReply, TurnInv, TypeOK
  <2>2. calls \in 0..MaxCalls /\ calls <= calls'
    BY <1>4 DEF NoReply, TurnInv, TypeOK
  <2> QED
    BY <1>4, <2>1, <2>2, BufferSame DEF NoReply, TurnInv
<1> QED
  BY <1>1, <1>2, <1>3, <1>4 DEF Model

LEMMA ToolsKeep ==
  ASSUME TurnInv, Tools
  PROVE  TurnInv'
<1> USE AgentAssumption
<1> DEFINE n == LastBuffered
<1>0. n \in 0..Len(writes) /\ 0 \in 0..Len(writes)
  <2>1. writes \in Seq(Intent) /\ Len(writes) \in Nat
    BY DEF TurnInv, TypeOK
  <2> QED
    BY <2>1, LastBufferedIs, RowInIs
<1> HIDE DEF n
<1>1. ASSUME NEW a \in Amounts, NEW i \in BOOLEAN, LogTransaction(a, i) PROVE TurnInv'
  <2> DEFINE w == [Write("Transaction", a) EXCEPT !.income = i]
  <2>1. w \in Intent /\ w.op = "Transaction"
    BY DEF Write, Intent, Variants, Constructive
  <2>2. Buffer(w, 0)
    BY <1>1 DEF LogTransaction
  <2> HIDE DEF w
  <2> QED
    BY <1>0, <2>1, <2>2, BufferKeeps
<1>2. ASSUME NEW a \in Amounts,
             ContributeToGoal(a) \/ LogTransfer(a) \/ SetBudget(a) \/ CreateGoal(a)
      PROVE  TurnInv'
  BY <1>2, PlainWrite
     DEF ContributeToGoal, LogTransfer, SetBudget, CreateGoal, Variants, Constructive
<1>3. ASSUME NEW a \in Amounts \cup {0}, NEW c \in BOOLEAN, NEW d \in BOOLEAN,
             EditLast(a, c, d)
      PROVE  TurnInv'
  <2> DEFINE w == [Write("EditLast", a) EXCEPT !.sameTurn = (n # 0)]
  <2>1. w \in Intent /\ w.op = "EditLast" /\ (w.sameTurn => n # 0)
    BY DEF Write, Intent, Variants, Constructive
  <2>2. Buffer(w, n)
    BY <1>3 DEF EditLast, n
  <2> HIDE DEF w
  <2> QED
    BY <1>0, <2>1, <2>2, BufferKeeps DEF n
<1>4. ASSUME DeleteLast PROVE TurnInv'
  <2> DEFINE w == [Write("DeleteLast", 0) EXCEPT !.sameTurn = (n # 0)]
  <2>1. w \in Intent /\ w.op = "DeleteLast" /\ (w.sameTurn => n # 0)
    BY DEF Write, Intent, Variants, Destructive
  <2>2. Buffer(w, n)
    BY <1>4 DEF DeleteLast, n
  <2> HIDE DEF w
  <2> QED
    BY <1>0, <2>1, <2>2, BufferKeeps DEF n
<1>5. ASSUME NEW op, Changes(op) PROVE TurnInv'
  BY <1>5, PlainWrite DEF Changes, Variants, Constructive
<1>6. ASSUME NEW op, Removes(op) PROVE TurnInv'
  BY <1>6, PlainWrite DEF Removes, Variants, Destructive
<1>7. ASSUME NEW t \in Texts, NEW k \in BOOLEAN, Remember(t, k) PROVE TurnInv'
  <2> DEFINE w == [Write("SaveMemory", 0) EXCEPT !.text = t]
  <2>1. w \in Intent /\ w.op = "SaveMemory" /\ w.text = t
    BY DEF Write, Intent, Variants
  <2>2. Buffer(w, 0) /\ t # "oneOff"
    BY <1>7 DEF Remember, ShouldSaveMemory
  <2> HIDE DEF w
  <2> QED
    BY <1>0, <2>1, <2>2, BufferKeeps
<1>8. ASSUME ReadTool \/ Refused PROVE TurnInv'
  <2>1. TypeOK' /\ calls <= calls' /\ calls' \in 0..MaxCalls
    BY <1>8 DEF ReadTool, Refused, Calling, TurnInv, TypeOK
  <2> QED
    BY <1>8, <2>1, BufferSame DEF ReadTool, Refused, Calling, TurnInv
<1>9. ASSUME RoundEnds PROVE TurnInv'
  <2>1. TypeOK' /\ calls <= calls' /\ calls' \in 0..MaxCalls
    BY <1>9 DEF RoundEnds, TurnInv, TypeOK
  <2> QED
    BY <1>9, <2>1, BufferSame DEF RoundEnds, TurnInv
<1> QED
  BY <1>1, <1>2, <1>3, <1>4, <1>5, <1>6, <1>7, <1>8, <1>9 DEF Tools

LEMMA TurnInvariant == Spec => []TurnInv
<1>1. ASSUME TurnInv, UNCHANGED vars PROVE TurnInv'
  BY <1>1 DEF vars, TurnInv, TypeOK, MeantIsOfWrites, MeantIsLast, MemoriesScreened
<1>2. TurnInv /\ [Next]_vars => TurnInv'
  BY <1>1, ModelKeeps, ToolsKeep DEF Next
<1> QED
  BY <1>2, InitTurn, PTL DEF Spec

\* Types.
THEOREM TypeCorrect == Spec => []TypeOK
<1>1. TurnInv => TypeOK
  BY DEF TurnInv
<1> QED
  BY <1>1, TurnInvariant, PTL

\* TargetAgrees: the flush corrects the row the tool looked at, however many
\* writes of whatever kind the turn has.
THEOREM CorrectionsHit == Spec => []TargetAgrees
<1>1. TurnInv => TargetAgrees
  <2> SUFFICES ASSUME TurnInv, NEW n \in DOMAIN meant,
                      writes[n].op \in {"EditLast", "DeleteLast"}, writes[n].sameTurn
               PROVE  LastIdBefore[n] = meant[n] /\ meant[n] # 0
    BY DEF TargetAgrees
  <2>1. writes \in Seq(Intent) /\ n \in 1..(Len(writes) + 1)
    BY DEF TurnInv, TypeOK
  <2>2. LastIdBefore[n] = RowIn(writes, n)
    BY <2>1, LastIdIs
  <2> QED
    BY <2>2 DEF TurnInv, MeantIsLast
<1> QED
  BY <1>1, TurnInvariant, PTL

\* RejectExplained: the policy rejects a turn for nothing but a memory whose text
\* has a durable cue beside what reads like a purchase.
THEOREM RejectsOnlyMixed == Spec => []RejectExplained
<1>1. TurnInv => RejectExplained
  <2> SUFFICES ASSUME TurnInv, ClassifyWrites(writes) = "reject"
               PROVE  \E n \in DOMAIN writes :
                        writes[n].op = "SaveMemory" /\ writes[n].text = "mixed"
    BY DEF RejectExplained
  <2>1. \E n \in LedgerWrites(writes) : LooksOneOff(writes[n])
    BY DEF ClassifyWrites
  <2>2. PICK n \in DOMAIN writes : LooksOneOff(writes[n])
    BY <2>1 DEF LedgerWrites
  <2> QED
    BY <2>2 DEF LooksOneOff, TurnInv, MemoriesScreened
<1> QED
  BY <1>1, TurnInvariant, PTL

-----------------------------------------------------------------------------
(***************************************************************************)
(* What a turn leaves in the rows, write after write.                      *)
(***************************************************************************)
SetsAmount(k) ==
  writes[k].op \in Rows \/ (writes[k].op = "EditLast" /\ writes[k].amount # 0)

\* LeftIn, as far as the first m writes decide it.
SettingUpTo(n, m) == {k \in 1..m : SetsAmount(k) /\ RowSet(k) = n}

LeftUpTo(n, m) ==
  IF SettingUpTo(n, m) = {} THEN 0
  ELSE writes[CHOOSE k \in SettingUpTo(n, m) :
                \A j \in SettingUpTo(n, m) : j <= k].amount

LEMMA LeftInIs ==
  ASSUME writes \in Seq(Intent), NEW n
  PROVE  LeftIn(n) = LeftUpTo(n, Len(writes))
<1>1. DOMAIN writes = 1..Len(writes)
  OBVIOUS
<1> QED
  BY <1>1 DEF LeftIn, LeftUpTo, SettingUpTo, SetsAmount

LEMMA AmountsNat ==
  ASSUME writes \in Seq(Intent), NEW k \in 1..Len(writes)
  PROVE  /\ writes[k].amount \in Nat /\ AmountOf(writes[k]) \in Nat
         /\ SetsAmount(k) => AmountOf(writes[k]) = writes[k].amount
<1>1. writes[k] \in Intent /\ Amounts \cup {0} \subseteq Nat
  BY PolicyAssumption
<1>2. writes[k].amount \in Nat
  BY <1>1 DEF Intent
<1> QED
  BY <1>2 DEF AmountOf, AmountBearing, SetsAmount, Rows

LEMMA RowSetType ==
  ASSUME writes \in Seq(Intent), NEW k \in 1..Len(writes)
  PROVE  RowSet(k) \in 0..Len(writes)
<1>1. k \in 1..(Len(writes) + 1) /\ Len(writes) \in Nat
  OBVIOUS
<1>2. LastIdBefore[k] = RowIn(writes, k) /\ RowIn(writes, k) \in 0..(k - 1)
  BY <1>1, LastIdIs, RowInIs
<1> QED
  BY <1>1, <1>2 DEF RowSet

\* An amount is left, and what a write leaves is what it set.
LEMMA LeftStep ==
  ASSUME writes \in Seq(Intent), NEW n, NEW m \in 0..Len(writes)
  PROVE  /\ LeftUpTo(n, m) \in Nat
         /\ m > 0 /\ SetsAmount(m) /\ RowSet(m) = n => LeftUpTo(n, m) = writes[m].amount
         /\ m > 0 /\ ~(SetsAmount(m) /\ RowSet(m) = n)
              => LeftUpTo(n, m) = LeftUpTo(n, m - 1)
<1>1. PICK S : S = SettingUpTo(n, m)
  OBVIOUS
<1>2. S \subseteq 1..m /\ S \in SUBSET (0..m) /\ m \in Nat
  BY <1>1 DEF SettingUpTo
<1>3. \A k \in 1..m : writes[k].amount \in Nat
  BY AmountsNat
<1>4. PICK top : top = CHOOSE k \in S : \A j \in S : j <= k
  OBVIOUS
<1>5. ASSUME S # {} PROVE top \in S /\ \A j \in S : j <= top
  <2>1. \E k \in S : \A j \in S : j <= k
    BY <1>2, <1>5, Greatest
  <2> QED
    BY <1>4, <2>1
<1>6. LeftUpTo(n, m) = IF S = {} THEN 0 ELSE writes[top].amount
  BY <1>1, <1>4 DEF LeftUpTo
<1>7. LeftUpTo(n, m) \in Nat
  <2>1. CASE S = {}
    BY <1>6, <2>1
  <2>2. CASE S # {}
    <3>1. top \in 1..m
      BY <1>2, <1>5, <2>2
    <3> QED
      BY <1>3, <1>6, <2>2, <3>1
  <2> QED
    BY <2>1, <2>2
<1>8. ASSUME m > 0, SetsAmount(m), RowSet(m) = n
      PROVE  LeftUpTo(n, m) = writes[m].amount
  <2>1. m \in S
    BY <1>1, <1>8 DEF SettingUpTo
  <2>2. top = m
    <3>1. top \in 1..m /\ m <= top
      BY <1>2, <1>5, <2>1
    <3> QED
      BY <1>2, <3>1
  <2> QED
    BY <1>6, <2>1, <2>2
<1>9. ASSUME m > 0, ~(SetsAmount(m) /\ RowSet(m) = n)
      PROVE  LeftUpTo(n, m) = LeftUpTo(n, m - 1)
  <2>1. SettingUpTo(n, m) = SettingUpTo(n, m - 1)
    BY <1>9 DEF SettingUpTo
  <2> QED
    BY <2>1 DEF LeftUpTo
<1> QED
  BY <1>7, <1>8, <1>9

\* All rows together keep no more than what the policy adds up: every write adds
\* its amount once there, and sets at most one row to it here.
LEMMA LeftIsAmounts ==
  ASSUME writes \in Seq(Intent)
  PROVE  /\ TotalAmount(writes) \in Int
         /\ SumFunction([n \in 0..Len(writes) |-> LeftIn(n)]) \in Int
         /\ SumFunction([n \in 0..Len(writes) |-> LeftIn(n)]) <= TotalAmount(writes)
<1> DEFINE N == Len(writes)
           a == [k \in 0..N |-> IF k \in 1..N THEN AmountOf(writes[k]) ELSE 0]
           left(m) == [n \in 0..N |-> LeftUpTo(n, m)]
<1>1. N \in Nat /\ DOMAIN writes = 1..N
  OBVIOUS
<1>2. \A k \in 1..N : /\ writes[k].amount \in Nat /\ AmountOf(writes[k]) \in Nat
                      /\ SetsAmount(k) => AmountOf(writes[k]) = writes[k].amount
  BY AmountsNat
<1>3. a \in [0..N -> Int]
  BY <1>2
<1>4. TotalAmount(writes) = Total(a, N)
  <2> DEFINE v == [k \in 1..N |-> AmountOf(writes[k])]
             z == [k \in 0..N |-> IF k \in 1..N THEN v[k] ELSE 0]
  <2>1. v \in [1..N -> Int] /\ 1..N \in SUBSET (0..N)
    BY <1>2
  <2>2. TotalAmount(writes) = SumFunction(v)
    BY <1>1 DEF TotalAmount
  <2>3. SumFunction(v) = Total(z, N)
    <3> HIDE DEF v
    <3>1. N \in Nat
      BY <1>1
    <3> HIDE DEF N
    <3> QED
      BY <2>1, <3>1, SumIsTotal
  <2>4. z = a
    OBVIOUS
  <2> QED
    BY <2>2, <2>3, <2>4
<1>5. \A m \in 0..N : left(m) \in [0..N -> Nat] /\ left(m) \in [0..N -> Int]
  BY LeftStep
<1>6. SumFunction([n \in 0..N |-> LeftIn(n)]) = Total(left(N), N)
  <2>1. [n \in 0..N |-> LeftIn(n)] = left(N)
    BY LeftInIs
  <2>2. PICK u : u = left(N)
    OBVIOUS
  <2>3. u \in [0..N -> Int]
    BY <1>1, <1>5, <2>2
  <2>4. u = [n \in 0..N |-> IF n \in 0..N THEN u[n] ELSE 0]
    BY <2>3
  <2> HIDE DEF left
  <2>5. N \in Nat /\ 0..N \in SUBSET (0..N)
    BY <1>1
  <2> HIDE DEF N
  <2>6. SumFunction(u) = Total([n \in 0..N |-> IF n \in 0..N THEN u[n] ELSE 0], N)
    BY <2>3, <2>5, SumIsTotal
  <2> QED
    BY <2>1, <2>2, <2>4, <2>6
<1>7. PICK P : PrefixSums(a, P, N)
  BY <1>1, <1>3, PrefixSumsExist
<1> DEFINE B == {m \in 0..N : Total(left(m), N) > P[m]}
<1>8. 0 \notin B
  <2>1. \A n \in 0..N : left(0)[n] = 0
    BY DEF LeftUpTo, SettingUpTo
  <2>2. left(0) \in [0..N -> Int]
    BY <1>1, <1>5
  <2>3. Total(left(0), N) = 0
    <3> HIDE DEF left, N
    <3> QED
      BY <1>1, <2>1, <2>2, TotalZero
  <2>4. P[0] = 0
    BY <1>7 DEF PrefixSums
  <2> QED
    BY <2>3, <2>4
<1>9. ASSUME NEW m \in 1..N, m - 1 \in 0..N, m - 1 \notin B PROVE m \notin B
  <2>1. PICK u, w : u = left(m - 1) /\ w = left(m)
    OBVIOUS
  <2>2. u \in [0..N -> Nat] /\ w \in [0..N -> Nat]
    BY <1>5, <1>9, <2>1
  <2>3. P[m] = P[m - 1] + AmountOf(writes[m]) /\ P[m - 1] \in Int
        /\ AmountOf(writes[m]) \in Nat
    <3>1. a[m] = AmountOf(writes[m]) /\ AmountOf(writes[m]) \in Nat
      BY <1>2
    <3>2. P[m] = P[m - 1] + a[m] /\ P[m - 1] \in Int
      <4> HIDE DEF a, N
      <4> QED
        BY <1>7, <1>9 DEF PrefixSums
    <3> QED
      BY <3>1, <3>2
  <2>4. ~(Total(u, N) > P[m - 1])
    BY <1>9, <2>1
  <2>5. Total(u, N) \in Int /\ Total(w, N) \in Int
    <3>1. u \in [0..N -> Int] /\ w \in [0..N -> Int]
      BY <2>2
    <3> QED
      BY <1>1, <3>1, TotalInt
  <2>6. CASE SetsAmount(m)
    <3>1. PICK t : t = RowSet(m)
      OBVIOUS
    <3>2. t \in 0..N
      BY <3>1, RowSetType
    <3>3. \A n \in (0..N) \ {t} : w[n] = u[n]
      BY <1>9, <2>1, <3>1, LeftStep
    <3>4. w[t] = AmountOf(writes[m]) /\ u[t] \in Nat
      <4>1. w[t] = writes[m].amount
        BY <1>9, <2>1, <2>6, <3>1, <3>2, LeftStep
      <4> QED
        BY <1>2, <2>2, <2>6, <3>2, <4>1
    <3>5. Total(w, N) = Total(u, N) + (w[t] - u[t])
      <4>1. u \in [0..N -> Int] /\ w \in [0..N -> Int]
        BY <2>2
      <4> HIDE DEF N
      <4> QED
        BY <1>1, <3>2, <3>3, <4>1, TotalBump
    <3>6. ~(Total(w, N) > P[m])
      <4> HIDE DEF N
      <4> QED
        BY <2>3, <2>4, <2>5, <3>4, <3>5
    <3> QED
      BY <2>1, <3>6
  <2>7. CASE ~SetsAmount(m)
    <3>1. \A n \in 0..N : w[n] = u[n]
      BY <1>9, <2>1, <2>7, LeftStep
    <3>2. w = u
      BY <2>2, <3>1
    <3>3. ~(Total(w, N) > P[m])
      <4> HIDE DEF N
      <4> QED
        BY <2>3, <2>4, <2>5, <3>2
    <3> QED
      BY <2>1, <3>3
  <2> QED
    BY <2>6, <2>7
<1>10. B = {}
  <2>1. B \in SUBSET (0..N)
    OBVIOUS
  <2> HIDE DEF B, N
  <2> QED
    BY <1>1, <1>8, <1>9, <2>1, FirstBad
<1>11. ~(Total(left(N), N) > P[N])
  <2>1. N \in 0..N
    BY <1>1
  <2> QED
    BY <1>10, <2>1
<1>12. Total(a, N) = P[N] /\ P[N] \in Int
  <2> HIDE DEF a, N
  <2> QED
    BY <1>1, <1>3, <1>7, TotalIs
<1>13. Total(left(N), N) \in Int
  <2>1. left(N) \in [0..N -> Int]
    BY <1>1, <1>5
  <2> HIDE DEF left, N
  <2> QED
    BY <1>1, <2>1, TotalInt
<1> HIDE DEF left, a, N
<1> QED
  BY <1>4, <1>6, <1>11, <1>12, <1>13 DEF N

\* SafeIsSmall: whatever the tools buffered, a turn that commits unasked leaves
\* less than the threshold in all the rows it creates and edits together.
THEOREM SafeMeansSmall == Spec => []SafeIsSmall
<1>1. TypeOK => SafeIsSmall
  <2> SUFFICES ASSUME TypeOK, ClassifyWrites(writes) = "safe"
               PROVE  SumFunction([n \in 0..Len(writes) |-> LeftIn(n)]) < Threshold
    BY DEF SafeIsSmall
  <2>1. /\ TotalAmount(writes) \in Int
        /\ SumFunction([n \in 0..Len(writes) |-> LeftIn(n)]) \in Int
        /\ SumFunction([n \in 0..Len(writes) |-> LeftIn(n)]) <= TotalAmount(writes)
    BY LeftIsAmounts DEF TypeOK
  <2>2. ~(TotalAmount(writes) >= Threshold)
    BY DEF ClassifyWrites
  <2> QED
    BY <2>1, <2>2, PolicyAssumption
<1> QED
  BY <1>1, TypeCorrect, PTL
=============================================================================
